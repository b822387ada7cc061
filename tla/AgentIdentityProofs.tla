-------------------------- MODULE AgentIdentityProofs --------------------------
(***************************************************************************)
(* The safety properties of AgentIdentity for every set of hosts, of       *)
(* addresses, and any number of certificates.                              *)
(***************************************************************************)
EXTENDS AgentIdentity, TLAPS

Rows == [auth : Certs, addr : Addrs \cup {BadAddr}, there : BOOLEAN]

-----------------------------------------------------------------------------
(* Operators *)

LEMMA MainType == \A h \in Hosts : Main(h) \in Names
BY DEF Main, Names

LEMMA DriveSetsType ==
  ASSUME NEW h \in Hosts, NEW names \in DriveSets(h)
  PROVE  names \subseteq Names /\ Main(h) \in names /\ \A n \in names : n[1] = h
BY DEF DriveSets, Main, Names

LEMMA WriteType ==
  ASSUME IdTypeOK, NEW names, NEW c \in Certs, NEW a \in Addrs \cup {BadAddr}
  PROVE  Write(names, c, a) \in [Names -> Rows]
BY DEF IdTypeOK, Write, Target, Rows

LEMMA CertsType == Certs \subseteq Nat /\ 0 \in Certs
BY IdentityAssumption DEF Certs

\* A report takes its certificate from what it has read.
LEMMA TemplateType ==
  ASSUME IdTypeOK, NEW h \in Hosts, seen[h] # NoReport, NEW c \in Template(seen[h])
  PROVE  c \in Certs
<1>1. seen[h] \subseteq Names \X Certs
  BY DEF IdTypeOK
<1> QED BY <1>1, CertsType DEF Template

-----------------------------------------------------------------------------
(* Types *)

LEMMA IdTypeInit == IdInit => IdTypeOK
BY CertsType, IdentityAssumption DEF IdInit, IdTypeOK, None, Doing, Certs, Entries

LEMMA EntriesType == Certs \subseteq Entries /\ 0 \in Entries /\ Blank \in Entries
BY CertsType DEF Entries

LEMMA EventType ==
  ASSUME IdTypeOK, Event
  PROVE  events' \in 0 .. MaxEvents
BY IdentityAssumption DEF IdTypeOK, Event

LEMMA SignType ==
  ASSUME IdTypeOK, NEW h \in Hosts, NEW names \in SUBSET Names, Sign(h, names)
  PROVE  /\ targets' \in [Names -> Rows] /\ conn' \in Hosts \cup {Nobody} /\ serial' \in Certs
         /\ reply' \in [Hosts -> Entries] /\ doing' \in [Hosts -> Doing]
         /\ disturbed' \subseteq Hosts
<1>1. serial' \in Certs
  BY IdentityAssumption DEF Sign, IdTypeOK, Certs
<1>2. addr[h] \in Addrs \cup {BadAddr}
  BY DEF IdTypeOK
<1>3. Write(names, serial', addr[h]) \in [Names -> Rows]
  BY <1>1, <1>2 DEF IdTypeOK, Write, Target, Rows
<1>4. reply' \in [Hosts -> Entries] /\ doing' \in [Hosts -> Doing]
  BY <1>1, EntriesType DEF Sign, Answer, IdTypeOK, Doing, Storing, StoringCA
<1> QED BY <1>1, <1>3, <1>4 DEF Sign, IdTypeOK, Rows

LEMMA ErrorType ==
  ASSUME IdTypeOK, NEW h \in Hosts, WriteErrorResponse(h)
  PROVE  /\ UNCHANGED <<targets, conn, serial, disturbed>>
         /\ reply' \in [Hosts -> Entries] /\ doing' \in [Hosts -> Doing]
BY EntriesType DEF WriteErrorResponse, Answer, IdTypeOK, Doing, Storing, StoringCA

LEMMA AgentType ==
  ASSUME IdTypeOK, NEW h \in Hosts, AgentStep(h)
  PROVE  IdTypeOK'
<1> USE EntriesType DEF IdTypeOK, Rows
<1>1. CASE Bootstrap(h)
  BY <1>1 DEF Bootstrap, Ask, Doing, serverVars, registry, history
<1>2. CASE Start(h)
  BY <1>2 DEF Start, serverVars, registry, history
<1>3. CASE MakeClient(h)
  BY <1>3 DEF MakeClient, serverVars, registry, history
<1>4. CASE renewCertificate(h)
  BY <1>4 DEF renewCertificate, Ask, Doing, serverVars, registry, process, history
<1>5. CASE ExpireCert(h)
  BY <1>5, EventType DEF ExpireCert, Ask, Doing, serverVars, process, history
<1>6. CASE ExpireKey(h)
  BY <1>6 DEF ExpireKey, Doing, serverVars, process
<1>7. CASE StoreCA(h)
  BY <1>7 DEF StoreCA, Doing, Storing, StoringCert, serverVars, process
<1>8. CASE StoreCert(h)
  BY <1>8 DEF StoreCert, Doing, Storing, StoringKey, serverVars, process, history
<1>9. CASE StoreKey(h)
  BY <1>9 DEF StoreKey, Doing, serverVars, process
<1>10. CASE Interrupt(h)
  BY <1>10, EventType DEF Interrupt, NewProcess, Doing, serverVars, registry, process
<1>11. CASE Restart(h)
  BY <1>11, EventType DEF Restart, NewProcess, serverVars, registry, history
<1>12. CASE Move(h)
  BY <1>12, EventType DEF Move, serverVars, registry, process, history
<1> QED BY <1>1, <1>2, <1>3, <1>4, <1>5, <1>6, <1>7, <1>8, <1>9, <1>10, <1>11, <1>12 DEF AgentStep

LEMMA HandlerType ==
  ASSUME IdTypeOK, NEW h \in Hosts, AgentBootstrapHandler(h) \/ AgentRenewHandler(h)
  PROVE  IdTypeOK'
<1>1. UNCHANGED <<token, addr, registry, process, seen, edit, torn, events>>
  BY DEF AgentBootstrapHandler, AgentRenewHandler
<1>2. WriteErrorResponse(h) \/ \E names \in SUBSET Names : Sign(h, names)
  <2>1. \A names \in DriveSets(h) \cup {{<<h, "other">>}} : names \in SUBSET Names
    BY DriveSetsType DEF Names
  <2> QED BY <2>1 DEF AgentBootstrapHandler, AgentRenewHandler
<1>3. CASE WriteErrorResponse(h)
  BY <1>1, <1>3, ErrorType DEF IdTypeOK, registry, process
<1>4. ASSUME NEW names \in SUBSET Names, Sign(h, names) PROVE IdTypeOK'
  BY <1>1, <1>4, SignType DEF IdTypeOK, Rows, registry, process
<1> QED BY <1>2, <1>3, <1>4

LEMMA ReportType ==
  ASSUME IdTypeOK, NEW h \in Hosts, ReportRead(h) \/ ReportWrite(h)
  PROVE  IdTypeOK'
<1> USE DEF IdTypeOK, Rows
<1>1. CASE ReportRead(h)
  <2>1. {<<n, targets[n].auth>> : n \in GetAllTargetsByIP(addr[h])} \subseteq Names \X Certs
    BY DEF GetAllTargetsByIP
  <2> QED BY <1>1, <2>1 DEF ReportRead, agentVars, registry, process, history
<1>2. CASE ReportWrite(h)
  <2> DEFINE gone(names) == Vanished(h, names)
             written(names) == {n \in names : n \notin {s[1] : s \in seen[h]} \/ targets[n].there}
             ok(names) == ValidPath(addr[h]) /\ \A n \in gone(names) : targets[n].there
             new(names, template) == [n \in Names |-> IF n \in gone(names) THEN None
                                                      ELSE Write(written(names), template, addr[h])[n]]
  <2>1. PICK names \in DriveSets(h), template \in Template(seen[h]) :
          /\ targets' = IF ok(names) THEN new(names, template) ELSE targets
          /\ ReportEnd(h, ok(names))
          /\ disturbed' = IF ok(names) /\ ~ ReadRight(h) THEN disturbed \cup {h} ELSE disturbed
    BY <1>2 DEF ReportWrite
  <2>2. template \in Certs
    BY <1>2, <2>1, TemplateType DEF ReportWrite
  <2>3. Write(written(names), template, addr[h]) \in [Names -> Rows]
    BY <2>2, WriteType
  <2>4. new(names, template) \in [Names -> Rows]
    BY <2>3, CertsType DEF None
  <2> HIDE DEF new, ok, written
  <2>5. targets' \in [Names -> Rows]
    BY <2>1, <2>4
  <2> QED BY <1>2, <2>1, <2>5 DEF ReportWrite, ReportEnd, agentVars, registry, process
<1> QED BY <1>1, <1>2

\* What the web interface does.
WebStep == EditRead \/ EditWrite \/ AddTarget \/ DeleteTarget \/ RevokeToken

LEMMA WebType == IdTypeOK /\ WebStep => IdTypeOK'
<1> SUFFICES ASSUME IdTypeOK, WebStep PROVE IdTypeOK'
  OBVIOUS
<1>1. UNCHANGED <<conn, serial, seen, agentVars, torn>>
  BY DEF WebStep, EditRead, EditWrite, AddTarget, DeleteTarget, RevokeToken, history
<1>2. targets' \in [Names -> Rows] /\ edit' \in Certs \cup {NoEdit}
  <2> USE CertsType DEF IdTypeOK, Rows
  <2>1. CASE EditRead
    BY <2>1 DEF EditRead
  <2>2. CASE EditWrite
    <3>1. PICK n \in Names, a \in Addrs :
            targets' = [targets EXCEPT ![n] = IF @.there THEN Target(edit, a) ELSE @]
      BY <2>2 DEF EditWrite
    <3>2. Target(edit, a) \in Rows
      BY <2>2 DEF EditWrite, Target
    <3> QED BY <2>2, <3>1, <3>2 DEF EditWrite
  <2>3. CASE AddTarget
    <3>1. PICK n \in Names, a \in Addrs : targets' = [targets EXCEPT ![n] = Target(0, a)]
      BY <2>3 DEF AddTarget
    <3>2. Target(0, a) \in Rows
      BY DEF Target
    <3> QED BY <2>3, <3>1, <3>2 DEF AddTarget
  <2>4. CASE DeleteTarget
    <3>1. None \in Rows
      BY DEF None
    <3> QED BY <2>4, <3>1 DEF DeleteTarget
  <2>5. CASE RevokeToken
    BY <2>5 DEF RevokeToken
  <2> QED BY <2>1, <2>2, <2>3, <2>4, <2>5 DEF WebStep
<1>3. token' \in BOOLEAN
  BY DEF WebStep, EditRead, EditWrite, AddTarget, DeleteTarget, RevokeToken, IdTypeOK
<1>4. disturbed' \subseteq Hosts
  <2>1. \A n \in Names : Repinned(n) \subseteq Hosts
    BY DEF Repinned, Names
  <2> QED BY <2>1 DEF WebStep, EditRead, EditWrite, AddTarget, DeleteTarget, RevokeToken, IdTypeOK,
     history
<1>5. events' \in 0 .. MaxEvents
  BY EventType DEF WebStep, EditRead, EditWrite, AddTarget, DeleteTarget, RevokeToken, IdTypeOK
<1> QED BY <1>1, <1>2, <1>3, <1>4, <1>5 DEF IdTypeOK, Rows, agentVars, registry, process

LEMMA IdTypeStep == IdTypeOK /\ [IdNext]_idVars => IdTypeOK'
<1>1. IdTypeOK /\ UNCHANGED idVars => IdTypeOK'
  BY DEF IdTypeOK, idVars, agentVars, serverVars, registry, process, history
<1> QED BY <1>1, AgentType, HandlerType, ReportType, WebType DEF IdNext, HandlerStep, WebStep

\* Every variable keeps its type; certificates are numbered by one counter
\* (agents.go 177-290).
THEOREM IdTypeCorrect == IdSpec => []IdTypeOK
BY IdTypeInit, IdTypeStep, PTL DEF IdSpec

-----------------------------------------------------------------------------
(* Certificate and key *)

\* What the registry holds while an answer is stored, and when it is not torn: an enrolment
\* begins without a key and stores it last, a renewal begins with a pair.
Phase(h) ==
  /\ doing[h] \in Storing => reply[h] # 0
  /\ doing[h] \in {"enrolCert", "enrolKey", "renewCert", "renewKey"} /\ reply[h] # Blank => ca[h] = 1
  /\ doing[h] \in {"enrolKey", "renewKey"} => cert[h] = reply[h]

Paired(h) ==
  /\ doing[h] \in {"idle", "enrol"} => key[h] = 0 \/ GetTLSConfig(h)
  /\ doing[h] = "expire" => key[h] = 0 \/ cert[h] = 0 \/ GetTLSConfig(h)
  /\ doing[h] \in {"enrol", "enrolCA", "enrolCert", "enrolKey"} => key[h] = 0
  /\ doing[h] \in {"renew", "renewCA"} => GetTLSConfig(h)
  /\ doing[h] \in {"enrolCert", "enrolKey", "renewCert", "renewKey"} => reply[h] # Blank

PairInv == \A h \in Hosts : Phase(h) /\ (h \notin torn => Paired(h))

LEMMA Numbers == Blank # 0 /\ Blank # 1
BY IdentityAssumption

LEMMA PairInit == IdInit => PairInv
BY DEF IdInit, PairInv, Phase, Paired, Storing, StoringCA, StoringCert, StoringKey

\* A step that leaves the registry and the phases alone.
LEMMA PairSame ==
  ASSUME PairInv, UNCHANGED <<registry, doing, reply, torn>>
  PROVE  PairInv'
BY DEF PairInv, Phase, Paired, GetTLSConfig, Complete, registry

LEMMA PairAgent ==
  ASSUME IdTypeOK, PairInv, NEW h \in Hosts, AgentStep(h)
  PROVE  PairInv'
<1> SUFFICES ASSUME NEW g \in Hosts PROVE Phase(g)' /\ (g \notin torn' => Paired(g)')
  BY DEF PairInv
<1>g. Phase(g) /\ (g \notin torn => Paired(g))
  BY DEF PairInv
<1>0. CASE Start(h) \/ MakeClient(h) \/ Restart(h) \/ Move(h)
  <2>1. UNCHANGED <<registry, doing, reply, torn>>
    BY <1>0 DEF Start, MakeClient, Restart, Move, history
  <2> QED BY <2>1, PairSame DEF PairInv
<1> USE <1>g, Numbers DEF IdTypeOK, Phase, Paired, Storing, StoringCA, StoringCert, StoringKey
<1>1. CASE Bootstrap(h)
  BY <1>1 DEF Bootstrap, Ask, registry, history, GetTLSConfig, Complete
<1>2. CASE renewCertificate(h)
  BY <1>2 DEF renewCertificate, Ask, registry, history, GetTLSConfig, Complete
<1>3. CASE ExpireCert(h)
  BY <1>3 DEF ExpireCert, Ask, history, GetTLSConfig, Complete
<1>4. CASE ExpireKey(h)
  BY <1>4 DEF ExpireKey, GetTLSConfig, Complete
<1>5. CASE StoreCA(h)
  BY <1>5 DEF StoreCA, GetTLSConfig, Complete
<1>6. CASE StoreCert(h)
  BY <1>6 DEF StoreCert, history, GetTLSConfig, Complete
<1>7. CASE StoreKey(h)
  BY <1>7 DEF StoreKey, GetTLSConfig, Complete
<1>8. CASE Interrupt(h)
  BY <1>8 DEF Interrupt, registry, GetTLSConfig, Complete, Doing
<1> QED BY <1>0, <1>1, <1>2, <1>3, <1>4, <1>5, <1>6, <1>7, <1>8 DEF AgentStep

\* An answer comes to who waits for one, and is not stored yet.
LEMMA AnswerPaired ==
  ASSUME IdTypeOK, PairInv, NEW h \in Hosts, NEW c \in Entries \ {0}, Answer(h, c),
         doing[h] \in {"enrol", "renew"}, UNCHANGED <<registry, torn>>
  PROVE  PairInv'
<1> SUFFICES ASSUME NEW g \in Hosts PROVE Phase(g)' /\ (g \notin torn' => Paired(g)')
  BY DEF PairInv
<1>g. Phase(g) /\ (g \notin torn => Paired(g))
  BY DEF PairInv
<1> QED BY <1>g DEF IdTypeOK, Phase, Paired, Storing, StoringCA, StoringCert, StoringKey, Answer,
           registry, GetTLSConfig, Complete

LEMMA HandlerAnswers ==
  ASSUME IdTypeOK, NEW h \in Hosts, AgentBootstrapHandler(h) \/ AgentRenewHandler(h)
  PROVE  /\ doing[h] \in {"enrol", "renew"} /\ UNCHANGED <<registry, torn>>
         /\ \E c \in Entries \ {0} : Answer(h, c)
<1>1. UNCHANGED <<token, addr, registry, process, seen, edit, torn, events>>
  BY DEF AgentBootstrapHandler, AgentRenewHandler
<1>2. Blank \in Entries \ {0}
  BY Numbers, EntriesType
<1>3. WriteErrorResponse(h) \/ \E names : Sign(h, names)
  BY DEF AgentBootstrapHandler, AgentRenewHandler
<1>4. ASSUME NEW names, Sign(h, names) PROVE \E c \in Entries \ {0} : Answer(h, c)
  <2>1. serial' \in Certs \ {0}
    BY <1>4, IdentityAssumption DEF Sign, IdTypeOK, Certs
  <2> QED BY <1>2, <1>4, <2>1, EntriesType DEF Sign
<1> QED BY <1>1, <1>2, <1>3, <1>4 DEF AgentBootstrapHandler, AgentRenewHandler, WriteErrorResponse

LEMMA PairStep == IdTypeOK /\ PairInv /\ [IdNext]_idVars => PairInv'
<1> SUFFICES ASSUME IdTypeOK, PairInv, [IdNext]_idVars PROVE PairInv'
  OBVIOUS
<1>1. ASSUME NEW h \in Hosts, AgentBootstrapHandler(h) \/ AgentRenewHandler(h) PROVE PairInv'
  BY <1>1, HandlerAnswers, AnswerPaired
<1>2. ASSUME NEW h \in Hosts, ReportRead(h) \/ ReportWrite(h) PROVE PairInv'
  BY <1>2, PairSame DEF ReportRead, ReportWrite, agentVars, history
<1>3. CASE WebStep \/ UNCHANGED idVars
  BY <1>3, PairSame DEF WebStep, EditRead, EditWrite, AddTarget, DeleteTarget, RevokeToken,
     agentVars, history, idVars
<1> QED BY <1>1, <1>2, <1>3, PairAgent DEF IdNext, HandlerStep, WebStep

\* The three entries an agent has make a usable pair, but for an error answer that was stored,
\* and a renewal or a deletion that was interrupted (tls_config.go 56-172).
THEOREM PairIsUsable == IdSpec => []PairUsable
<1>1. IdTypeOK /\ PairInv => PairUsable
  BY DEF IdTypeOK, PairInv, Phase, Paired, PairUsable, Doing, Complete
<1> QED BY <1>1, IdTypeInit, IdTypeStep, PairInit, PairStep, PTL DEF IdSpec

-----------------------------------------------------------------------------
(* Reports, and the write connection *)

\* What a report does to the targets: those of its drives stay or get the template's
\* certificate, those of its host that have vanished may go, the others stay.  When it does
\* anything and has not read what there is of its host alone, it disturbs the host.
LEMMA ReportEffect ==
  ASSUME IdTypeOK, NEW h \in Hosts, ReportWrite(h)
  PROVE  \E names \in DriveSets(h), template \in Template(seen[h]) :
           /\ \A n \in Names : n \notin names /\ n \notin Vanished(h, names) => targets'[n] = targets[n]
           /\ \A n \in names : targets'[n] \in {targets[n], Target(template, addr[h])}
           /\ targets' = targets \/ ReadRight(h) \/ h \in disturbed'
<1> DEFINE written(names) == {n \in names : n \notin {s[1] : s \in seen[h]} \/ targets[n].there}
           ok(names) == ValidPath(addr[h]) /\ \A n \in Vanished(h, names) : targets[n].there
           new(names, template) == [n \in Names |-> IF n \in Vanished(h, names) THEN None
                                                    ELSE Write(written(names), template, addr[h])[n]]
<1>1. PICK names \in DriveSets(h), template \in Template(seen[h]) :
        /\ targets' = IF ok(names) THEN new(names, template) ELSE targets
        /\ disturbed' = IF ok(names) /\ ~ ReadRight(h) THEN disturbed \cup {h} ELSE disturbed
  BY DEF ReportWrite
<1>2. names \subseteq Names /\ \A n \in names : n \notin Vanished(h, names)
  BY DriveSetsType DEF Vanished
<1>3. CASE targets' = targets
  BY <1>1, <1>2, <1>3
<1>4. CASE targets' = new(names, template) /\ ok(names)
  <2>1. ReadRight(h) \/ h \in disturbed'
    BY <1>1, <1>4
  <2> HIDE DEF ok
  <2>2. /\ \A n \in Names : n \notin names /\ n \notin Vanished(h, names) => targets'[n] = targets[n]
        /\ \A n \in names : targets'[n] \in {targets[n], Target(template, addr[h])}
    BY <1>2, <1>4 DEF Write
  <2> QED BY <2>1, <2>2
<1> QED BY <1>1, <1>3, <1>4

\* Only reading and writing a report touches what it has read.
LEMMA SeenKept ==
  ASSUME [IdNext]_idVars, seen' # seen
  PROVE  \E h \in Hosts : ReportRead(h) \/ ReportWrite(h)
BY DEF IdNext, AgentStep, Bootstrap, Start, MakeClient, renewCertificate, ExpireCert, ExpireKey,
       StoreCA, StoreCert, StoreKey, Interrupt, Restart, Move, HandlerStep, AgentBootstrapHandler,
       AgentRenewHandler, EditRead, EditWrite, AddTarget, DeleteTarget, RevokeToken, serverVars, idVars

\* No report changes the targets of another host (targets.go 192).
THEOREM ReportsStayHome == IdSpec => ReportsOwnTargets
<1> DEFINE Own == \A h \in Hosts : seen[h] # NoReport /\ seen'[h] = NoReport =>
                    \A n \in Names : n[1] # h => targets'[n] = targets[n]
<1>1. IdTypeOK /\ [IdNext]_idVars => [Own]_idVars
  <2> SUFFICES ASSUME IdTypeOK, IdNext, NEW h \in Hosts, seen[h] # NoReport, seen'[h] = NoReport,
                      NEW n \in Names, n[1] # h
               PROVE  targets'[n] = targets[n]
    OBVIOUS
  <2>1. PICK g \in Hosts : ReportRead(g) \/ ReportWrite(g)
    BY SeenKept
  <2>2. CASE ReportRead(g)
    BY <2>2 DEF ReportRead
  <2>3. CASE ReportWrite(g)
    <3>1. g = h
      BY <2>3 DEF ReportWrite, ReportEnd, IdTypeOK
    <3>2. \A names \in DriveSets(h) : n \notin names /\ n \notin Vanished(h, names)
      BY DriveSetsType DEF Vanished
    <3> QED BY <2>3, <3>1, <3>2, ReportEffect
  <2> QED BY <2>1, <2>2, <2>3
<1> QED BY <1>1, IdTypeInit, IdTypeStep, PTL DEF IdSpec, ReportsOwnTargets

\* The write connection is lost only by a certificate that is signed and a target that is
\* refused (agents.go 233-248, 318-334).
THEOREM ConnectionIsKept == IdSpec => ConnectionKept
<1> DEFINE Kept == conn' # conn => serial' # serial /\ ~ ValidPath(addr[conn'])
<1>1. IdTypeOK /\ [IdNext]_idVars => [Kept]_idVars
  <2> SUFFICES ASSUME IdTypeOK, IdNext, conn' # conn PROVE serial' # serial /\ ~ ValidPath(addr[conn'])
    OBVIOUS
  <2>1. PICK h \in Hosts : AgentBootstrapHandler(h) \/ AgentRenewHandler(h)
    BY DEF IdNext, AgentStep, Bootstrap, Start, MakeClient, renewCertificate, ExpireCert, ExpireKey,
           StoreCA, StoreCert, StoreKey, Interrupt, Restart, Move, HandlerStep, ReportRead,
           ReportWrite, ReportEnd, EditRead, EditWrite, AddTarget, DeleteTarget, RevokeToken, serverVars
  <2>2. \E names : Sign(h, names)
    BY <2>1 DEF AgentBootstrapHandler, AgentRenewHandler, WriteErrorResponse
  <2> QED BY <2>2, CertsType DEF Sign, IdTypeOK
<1> QED BY <1>1, IdTypeInit, IdTypeStep, PTL DEF IdSpec, ConnectionKept

-----------------------------------------------------------------------------
(* Who stays known *)

\* A report has read one row a target.
OneRow(h) == seen[h] # NoReport => \A s, t \in seen[h] : s[1] = t[1] => s[2] = t[2]
SeenInv == \A h \in Hosts : OneRow(h)

\* The certificate the server has pinned is the one the host has, or is about to store.
Known(h) ==
  /\ doing[h] \in Storing /\ reply[h] # Blank => loadTrustedCert(Main(h)) = reply[h]
  /\ (doing[h] \in Storing => reply[h] = Blank) /\ GetTLSConfig(h) => loadTrustedCert(Main(h)) = cert[h]

KnownInv == \A h \in Windows \ disturbed : Known(h)

LEMMA KnownInit == IdInit => SeenInv /\ KnownInv
<1> SUFFICES ASSUME IdInit PROVE SeenInv /\ KnownInv
  OBVIOUS
<1>1. SeenInv
  BY DEF IdInit, SeenInv, OneRow
<1>2. KnownInv
  BY DEF IdInit, KnownInv, Known, Hosts, Storing, StoringCA, StoringCert, StoringKey, GetTLSConfig, Complete
<1> QED BY <1>1, <1>2

LEMMA SeenStep == IdTypeOK /\ SeenInv /\ [IdNext]_idVars => SeenInv'
<1> SUFFICES ASSUME IdTypeOK, SeenInv, [IdNext]_idVars, seen' # seen, NEW g \in Hosts PROVE OneRow(g)'
  BY DEF SeenInv, OneRow
<1>1. ASSUME NEW h \in Hosts, ReportRead(h) PROVE OneRow(g)'
  BY <1>1 DEF ReportRead, OneRow, SeenInv, IdTypeOK
<1>2. ASSUME NEW h \in Hosts, ReportWrite(h) PROVE OneRow(g)'
  BY <1>2 DEF ReportWrite, ReportEnd, OneRow, SeenInv, IdTypeOK
<1> QED BY <1>1, <1>2, SeenKept

\* Of the two rows a Windows host can have, the one of drive C is the first.
LEMMA TemplateOwn ==
  ASSUME IdTypeOK, NEW h \in Windows, seen[h] # NoReport, OneRow(h), ReadRight(h),
         NEW c \in Template(seen[h])
  PROVE  c = targets[Main(h)].auth
<1> DEFINE a == targets[Main(h)].auth
<1>0. <<Main(h), a>> \in seen[h] /\ \A s \in seen[h] : s[1][1] = h
  BY DEF ReadRight
<1> HIDE DEF a
<1>1. h \in Hosts /\ h \notin Unix
  BY IdentityAssumption DEF Hosts
<1>2. seen[h] \subseteq Names \X Certs
  BY <1>1 DEF IdTypeOK
<1>3. PICK s \in seen[h] :
        /\ c = s[2]
        /\ ~ \E t \in seen[h] : t[1][1] = s[1][1] /\ t # s
                             /\ (t[1][2] = "other") = (s[1][1] \in Unix)
  BY <1>0 DEF Template
<1>4. s[1] \in Names /\ s[1][1] = h
  BY <1>0, <1>2, <1>3
<1>5. CASE s[1] = Main(h)
  <2>1. c = a
    BY <1>0, <1>3, <1>5 DEF OneRow
  <2> QED BY <2>1 DEF a
<1>6. CASE s[1] # Main(h)
  <2> DEFINE t == <<Main(h), a>>
  <2>1. t \in seen[h] /\ t[1][1] = s[1][1] /\ t # s
    BY <1>0, <1>4, <1>6 DEF Main
  <2>2. t[1][2] # "other" /\ s[1][1] \notin Unix
    BY <1>1, <1>4 DEF Main
  <2>3. (t[1][2] = "other") = (s[1][1] \in Unix)
    BY <2>2
  <2> HIDE DEF t
  <2> QED BY <1>3, <2>1, <2>3
<1> QED BY <1>5, <1>6

\* What an agent does to its registry loses its pair, or keeps it, or stores the pinned one.
LEMMA KnownAgent ==
  ASSUME IdTypeOK, PairInv, KnownInv, NEW h \in Hosts, AgentStep(h)
  PROVE  KnownInv'
<1> SUFFICES ASSUME NEW g \in Windows, g \notin disturbed' PROVE Known(g)'
  BY DEF KnownInv
<1>g. g \in Hosts /\ Phase(g)
  BY DEF Hosts, PairInv
<1>t. UNCHANGED targets /\ g \notin disturbed
  BY DEF AgentStep, Bootstrap, Start, MakeClient, renewCertificate, ExpireCert, ExpireKey, StoreCA,
     StoreCert, StoreKey, Interrupt, Restart, Move, serverVars, history
<1>k. Known(g)
  BY <1>t DEF KnownInv
<1>0. CASE Start(h) \/ MakeClient(h) \/ Restart(h) \/ Move(h)
  BY <1>0, <1>k, <1>t DEF Start, MakeClient, Restart, Move, registry, Known, GetTLSConfig, Complete, loadTrustedCert
<1> USE <1>g, <1>k, <1>t, Numbers DEF IdTypeOK, Known, Phase, Storing, StoringCA, StoringCert, StoringKey, loadTrustedCert
<1>1. CASE Bootstrap(h)
  BY <1>1 DEF Bootstrap, Ask, registry, GetTLSConfig, Complete
<1>2. CASE renewCertificate(h)
  BY <1>2 DEF renewCertificate, Ask, registry, GetTLSConfig, Complete
<1>3. CASE ExpireCert(h)
  BY <1>3 DEF ExpireCert, Ask, GetTLSConfig, Complete
<1>4. CASE ExpireKey(h)
  BY <1>4 DEF ExpireKey, GetTLSConfig, Complete
<1>5. CASE StoreCA(h)
  BY <1>5 DEF StoreCA, GetTLSConfig, Complete
<1>6. CASE StoreCert(h)
  BY <1>6 DEF StoreCert, GetTLSConfig, Complete
<1>7. CASE StoreKey(h)
  BY <1>7 DEF StoreKey, GetTLSConfig, Complete
<1>8. CASE Interrupt(h)
  BY <1>8 DEF Interrupt, registry, GetTLSConfig, Complete
<1> QED BY <1>0, <1>1, <1>2, <1>3, <1>4, <1>5, <1>6, <1>7, <1>8 DEF AgentStep

\* A certificate is pinned before it is answered; a refusal changes no target.
LEMMA KnownHandler ==
  ASSUME IdTypeOK, KnownInv, NEW h \in Hosts, AgentBootstrapHandler(h) \/ AgentRenewHandler(h)
  PROVE  KnownInv'
<1> SUFFICES ASSUME NEW g \in Windows, g \notin disturbed' PROVE Known(g)'
  BY DEF KnownInv
<1>g. g \in Hosts /\ Main(g) \in Names
  BY MainType DEF Hosts
<1>1. doing[h] \in {"enrol", "renew"} /\ UNCHANGED registry
  BY DEF AgentBootstrapHandler, AgentRenewHandler
<1>2. CASE WriteErrorResponse(h)
  <2>1. Known(g)
    BY <1>2 DEF WriteErrorResponse, KnownInv
  <2> QED BY <1>g, <1>1, <1>2, <2>1 DEF WriteErrorResponse, Answer, IdTypeOK, Known, registry, Storing,
             StoringCA, StoringCert, StoringKey, GetTLSConfig, Complete, loadTrustedCert
<1>3. ASSUME NEW names \in SUBSET Names, \A n \in names : n[1] = h, h \in Windows => Main(h) \in names,
             Sign(h, names)
      PROVE  Known(g)'
  <2>1. CASE h # g
    <3>1. Main(g) \notin names /\ g \notin disturbed
      BY <1>3, <2>1 DEF Main, Sign
    <3>2. targets'[Main(g)] = targets[Main(g)]
      BY <1>g, <1>3, <3>1 DEF Sign, Write
    <3>3. Known(g) /\ UNCHANGED <<ca, cert, key>> /\ reply'[g] = reply[g] /\ doing'[g] = doing[g]
      BY <1>g, <1>1, <1>3, <2>1, <3>1 DEF KnownInv, Sign, Answer, registry, IdTypeOK
    <3> QED BY <3>2, <3>3 DEF Known, GetTLSConfig, Complete, loadTrustedCert
  <2>2. CASE h = g /\ ValidPath(addr[g])
    <3>1. targets'[Main(g)].auth = serial'
      BY <1>g, <1>3, <2>2 DEF Sign, Write, Target
    <3>2. reply'[g] = serial' /\ doing'[g] \in Storing /\ serial' # Blank
      <4>1. serial' \in Nat
        BY <1>3, CertsType DEF Sign, IdTypeOK
      <4> QED BY <1>g, <1>1, <1>3, <2>2, <4>1, IdentityAssumption DEF Sign, Answer, IdTypeOK, Storing, StoringCA
    <3> QED BY <3>1, <3>2 DEF Known, loadTrustedCert
  <2>3. CASE h = g /\ ~ ValidPath(addr[g])
    <3>1. Known(g) /\ UNCHANGED <<targets, ca, cert, key>>
      BY <1>1, <1>3, <2>3 DEF Sign, KnownInv, registry
    <3>2. reply'[g] = Blank /\ doing[g] \notin Storing
      BY <1>g, <1>1, <1>3, <2>3 DEF Sign, Answer, IdTypeOK, Storing, StoringCA, StoringCert, StoringKey
    <3> QED BY <3>1, <3>2 DEF Known, GetTLSConfig, Complete, loadTrustedCert
  <2> QED BY <2>1, <2>2, <2>3
<1>4. WriteErrorResponse(h) \/ \E names \in SUBSET Names :
        (\A n \in names : n[1] = h) /\ (h \in Windows => Main(h) \in names) /\ Sign(h, names)
  <2>1. \A names \in DriveSets(h) :
          names \in SUBSET Names /\ (\A n \in names : n[1] = h) /\ Main(h) \in names
    BY DriveSetsType
  <2>2. {<<h, "other">>} \in SUBSET Names /\ \A n \in {<<h, "other">>} : n[1] = h
    BY DEF Names
  <2> QED BY <2>1, <2>2 DEF AgentBootstrapHandler, AgentRenewHandler
<1> QED BY <1>2, <1>3, <1>4

LEMMA KnownReport ==
  ASSUME IdTypeOK, SeenInv, KnownInv, NEW h \in Hosts, ReportWrite(h)
  PROVE  KnownInv'
<1> SUFFICES ASSUME NEW g \in Windows, g \notin disturbed' PROVE Known(g)'
  BY DEF KnownInv
<1>g. g \in Hosts /\ Main(g) \in Names /\ g \notin disturbed /\ Known(g)
  BY MainType DEF Hosts, ReportWrite, KnownInv
<1>1. UNCHANGED <<ca, cert, key, doing, reply>>
  BY DEF ReportWrite, agentVars, registry
<1>2. targets'[Main(g)].auth = targets[Main(g)].auth
  <2>1. CASE h # g
    <3>1. \A names \in DriveSets(h) : Main(g) \notin names /\ Main(g) \notin Vanished(h, names)
      BY <2>1, DriveSetsType DEF Main, Vanished
    <3> QED BY <1>g, <3>1, ReportEffect
  <2>2. CASE h = g /\ targets' # targets
    <3>1. PICK names \in DriveSets(g), template \in Template(seen[g]) :
            /\ \A n \in names : targets'[n] \in {targets[n], Target(template, addr[g])}
            /\ ReadRight(g)
      BY <2>2, ReportEffect
    <3>2. template = targets[Main(g)].auth
      BY <1>g, <2>2, <3>1, TemplateOwn DEF ReportWrite, SeenInv
    <3> QED BY <1>g, <3>1, <3>2, DriveSetsType DEF Target
  <2> QED BY <2>1, <2>2
<1> QED BY <1>g, <1>1, <1>2 DEF Known, GetTLSConfig, Complete, loadTrustedCert

\* What the web interface does to a pinned certificate disturbs its host.
LEMMA KnownWeb ==
  ASSUME IdTypeOK, KnownInv, WebStep
  PROVE  KnownInv'
<1> SUFFICES ASSUME NEW g \in Windows, g \notin disturbed' PROVE Known(g)'
  BY DEF KnownInv
<1>g. g \in Hosts /\ Main(g) \in Names /\ g \notin disturbed /\ Known(g)
  BY MainType DEF Hosts, WebStep, EditRead, EditWrite, AddTarget, DeleteTarget, RevokeToken,
     history, KnownInv
<1>1. UNCHANGED <<ca, cert, key, doing, reply>>
  BY DEF WebStep, EditRead, EditWrite, AddTarget, DeleteTarget, RevokeToken, agentVars, registry
<1>2. targets'[Main(g)].auth = targets[Main(g)].auth
  <2>1. ASSUME NEW n \in Names, disturbed' = disturbed \cup Repinned(n),
               \A m \in Names \ {n} : targets'[m] = targets[m]
        PROVE  targets'[Main(g)].auth = targets[Main(g)].auth
    <3>1. CASE n = Main(g)
      BY <1>g, <2>1, <3>1 DEF Repinned, Main
    <3> QED BY <1>g, <2>1, <3>1
  <2>2. CASE EditWrite \/ AddTarget \/ DeleteTarget
    <3>1. \E n \in Names : /\ disturbed' = disturbed \cup Repinned(n)
                           /\ \A m \in Names \ {n} : targets'[m] = targets[m]
      BY <2>2 DEF EditWrite, AddTarget, DeleteTarget, IdTypeOK
    <3> QED BY <2>1, <3>1
  <2>3. CASE EditRead \/ RevokeToken
    BY <2>3 DEF EditRead, RevokeToken
  <2> QED BY <2>2, <2>3 DEF WebStep
<1> QED BY <1>g, <1>1, <1>2 DEF Known, GetTLSConfig, Complete, loadTrustedCert

LEMMA KnownStep ==
  IdTypeOK /\ PairInv /\ SeenInv /\ KnownInv /\ [IdNext]_idVars => KnownInv'
<1> SUFFICES ASSUME IdTypeOK, PairInv, SeenInv, KnownInv, [IdNext]_idVars PROVE KnownInv'
  OBVIOUS
<1>1. ASSUME NEW h \in Hosts, ReportRead(h) PROVE KnownInv'
  BY <1>1 DEF ReportRead, agentVars, registry, history, KnownInv, Known, GetTLSConfig, Complete, loadTrustedCert
<1>2. CASE UNCHANGED idVars
  BY <1>2 DEF idVars, agentVars, serverVars, registry, history, KnownInv, Known, GetTLSConfig, Complete,
     loadTrustedCert
<1> QED BY <1>1, <1>2, KnownAgent, KnownHandler, KnownReport, KnownWeb DEF IdNext, HandlerStep, WebStep

\* The pair of a Windows agent is the one pinned, through renewals, expiry and reports, unless
\* something interfered since the certificate was signed (agents.go 257-290, targets.go 100-200).
THEOREM AgentStaysKnown == IdSpec => []StaysKnown
<1> DEFINE Inv == IdTypeOK /\ PairInv /\ SeenInv /\ KnownInv
<1>1. IdInit => Inv
  BY IdTypeInit, PairInit, KnownInit
<1>2. Inv /\ [IdNext]_idVars => Inv'
  BY IdTypeStep, PairStep, SeenStep, KnownStep
<1>3. Inv => StaysKnown
  BY DEF KnownInv, Known, StaysKnown
<1> QED BY <1>1, <1>2, <1>3, PTL DEF IdSpec
=============================================================================
