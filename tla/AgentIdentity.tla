----------------------------- MODULE AgentIdentity -----------------------------
(***************************************************************************)
(* How an agent is known to the server.  The server pins the certificate   *)
(* it signed for a host to the targets of that host (the table targets);   *)
(* the agent keeps certificate and key in its registry.  Enrolment,        *)
(* renewal and the periodic report of drives write the targets, found by   *)
(* name or by address, and so do the web interface's edits.  All of them   *)
(* share the one write connection of the database.                         *)
(***************************************************************************)
EXTENDS Naturals, FiniteSets, SequencesExt

CONSTANTS
  Windows, Unix,  \* hosts: those with drives C and D, those with a root
  Addrs,          \* addresses a target's path can hold, written out
  BadAddr,        \* an address ValidateTargetPath refuses
  MaxCert,        \* bound: certificates signed
  MaxEvents,      \* bound: expiries, failures, restarts, moves, and what the web interface begins
  Blank, Nobody

Hosts == Windows \cup Unix

ASSUME IdentityAssumption ==
  /\ Windows \cap Unix = {} /\ BadAddr \notin Addrs /\ MaxCert \in Nat \ {0}
  /\ Nobody \notin Hosts /\ Blank \notin Nat /\ MaxEvents \in Nat

VARIABLES
  targets,   \* table targets
  conn,      \* whose handler holds the write connection
  token,     \* the enrolment token is valid
  serial,    \* certificates signed so far
  addr,      \* the address a host's requests come from
  ca, cert, key, \* its registry: number of the certificate, and of the one the key is for
  client,    \* the certificate the HTTP client of the agent's process presents
  up,        \* hosts whose agent has come past waitForBootstrap
  doing,     \* what the agent waits for or is in the middle of
  reply,     \* the certificate in the answer
  seen,      \* what a report of its drives has read: GetAllTargetsByIP
  edit,      \* an edit of the web interface: the certificate of the target it read
  torn,      \* history: hosts whose entries something left half written
  disturbed, \* history: hosts whose pinned certificate something interfered with since it was signed
  events     \* bound counter: how many of these there have been

registry == <<ca, cert, key>>
process == <<client, up>>
agentVars == <<addr, registry, process, doing, reply>>
serverVars == <<targets, conn, token, serial, seen, edit>>
history == <<torn, disturbed>>
idVars == <<agentVars, serverVars, history, events>>

\* The target the middleware looks at ("host - C", "host - Root"), and another one: drive D
\* of a Windows host, or the bare host name, which only a renewal writes.
Names == Hosts \X {"main", "other"}
Main(h) == <<h, "main">>
Certs == 0 .. MaxCert
Entries == Certs \cup {Blank}  \* 0: there is none
None == [auth |-> 0, addr |-> BadAddr, there |-> FALSE]
Target(c, a) == [auth |-> c, addr |-> a, there |-> TRUE]
StoringCA == {"enrolCA", "renewCA"}
StoringCert == {"enrolCert", "renewCert"}
StoringKey == {"enrolKey", "renewKey"}
Storing == StoringCA \cup StoringCert \cup StoringKey
Doing == {"idle", "enrol", "renew", "expire"} \cup Storing
NoReport == {<<>>}
NoEdit == Blank

IdInit ==
  /\ targets = [n \in Names |-> None]
  /\ conn = Nobody
  /\ token = TRUE
  /\ serial = 0
  /\ addr \in [Hosts -> Addrs \cup {BadAddr}]
  /\ ca = [h \in Hosts |-> 0] /\ cert = [h \in Hosts |-> 0] /\ key = [h \in Hosts |-> 0]
  /\ client = [h \in Hosts |-> 0] /\ up = {}
  /\ doing = [h \in Hosts |-> "idle"]
  /\ reply = [h \in Hosts |-> 0]
  /\ seen = [h \in Hosts |-> NoReport]
  /\ edit = NoEdit
  /\ torn = {} /\ disturbed = {} /\ events = 0

\* Something besides enrolment, renewal and reports.
Event == events < MaxEvents /\ events' = events + 1

-----------------------------------------------------------------------------
(* Reading the database *)

Complete(h) == ca[h] # 0 /\ cert[h] # 0 /\ key[h] # 0

\* GetTLSConfig: the entries can be loaded, and used for requests and sessions.
GetTLSConfig(h) == Complete(h) /\ Blank \notin {ca[h], cert[h], key[h]} /\ key[h] = cert[h]

\* loadTrustedCert: nothing when the target is not there or holds no certificate.
loadTrustedCert(n) == targets[n].auth

\* checkAgentAuth: the certificate the agent's process presents is the one of its main target.
checkAgentAuth(h) == client[h] \notin {0, Blank} /\ loadTrustedCert(Main(h)) = client[h]

\* GetAllTargetsByIP: what has an address that begins like this one.
GetAllTargetsByIP(a) == {n \in Names : targets[n].there /\ IsPrefix(a, targets[n].addr)}

\* CreateTarget inserts, or updates what has that name; UpdateTarget updates, or does
\* nothing: in both the path has to be valid.
Write(names, c, a) == [n \in Names |-> IF n \in names THEN Target(c, a) ELSE targets[n]]
ValidPath(a) == a # BadAddr

\* The targets a request about a host's drives is about: C and maybe D, or the root.
DriveSets(h) == IF h \in Windows THEN {{Main(h)}, {Main(h), <<h, "other">>}} ELSE {{Main(h)}}

-----------------------------------------------------------------------------
(* The agent *)

Ask(h, what) ==
  /\ doing[h] = "idle"
  /\ doing' = [doing EXCEPT ![h] = what]

\* waitForBootstrap: entries are missing.  The client it makes presents no certificate, and is
\* that of the process from then on.
Bootstrap(h) ==
  /\ h \notin up /\ ~ Complete(h)
  /\ serial < MaxCert
  /\ Ask(h, "enrol")
  /\ client' = [client EXCEPT ![h] = IF @ = 0 THEN Blank ELSE @]
  /\ UNCHANGED <<serverVars, addr, registry, up, reply, history, events>>

\* waitForBootstrap returns: the entries are there, and the certificate is one.
Start(h) ==
  /\ h \notin up /\ Complete(h) /\ cert[h] # Blank /\ doing[h] = "idle"
  /\ up' = up \cup {h}
  /\ UNCHANGED <<serverVars, addr, registry, client, doing, reply, history, events>>

\* ProxmoxHTTPRequest makes the client of the process with the pair of the moment.
MakeClient(h) ==
  /\ GetTLSConfig(h) /\ client[h] = 0
  /\ client' = [client EXCEPT ![h] = cert[h]]
  /\ UNCHANGED <<serverVars, addr, registry, up, doing, reply, history, events>>

\* CheckAndRenewCertificate, in the last days of the certificate.  The request only gets to
\* the handler when the pair can be loaded and the server knows the certificate presented:
\* the answer of the middleware is no JSON and changes nothing.
renewCertificate(h) ==
  /\ GetTLSConfig(h) /\ checkAgentAuth(h)
  /\ serial < MaxCert
  /\ Ask(h, "renew")
  /\ UNCHANGED <<serverVars, addr, registry, process, reply, history, events>>

\* Mutant: the key of an expired certificate stays.
ExpireCertOnly(h) ==
  /\ Event
  /\ cert[h] \notin {0, Blank} /\ doing[h] = "idle"
  /\ cert' = [cert EXCEPT ![h] = 0]
  /\ UNCHANGED <<serverVars, addr, ca, key, process, doing, reply, history>>

\* CheckAndRenewCertificate, too late: the certificate is deleted, or that fails ...
ExpireCert(h) ==
  /\ Event
  /\ cert[h] \notin {0, Blank}
  /\ Ask(h, "expire")
  /\ cert' \in {cert, [cert EXCEPT ![h] = 0]}
  /\ UNCHANGED <<serverVars, addr, ca, key, process, reply, history>>

\* ... and then the key.
ExpireKey(h) ==
  /\ doing[h] = "expire"
  /\ key' = [key EXCEPT ![h] = 0]
  /\ doing' = [doing EXCEPT ![h] = "idle"]
  /\ torn' = torn \ {h}
  /\ UNCHANGED <<serverVars, addr, ca, cert, process, reply, disturbed, events>>

\* The answer is stored entry by entry, the key last.  An answer that is an error has neither
\* certificate, and is stored all the same, with the new key.
StoreCA(h) ==
  /\ doing[h] \in StoringCA
  /\ ca' = [ca EXCEPT ![h] = IF reply[h] = Blank THEN Blank ELSE 1]
  /\ doing' = [doing EXCEPT ![h] = IF @ = "enrolCA" THEN "enrolCert" ELSE "renewCert"]
  /\ torn' = IF reply[h] = Blank THEN torn \cup {h} ELSE torn
  /\ UNCHANGED <<serverVars, addr, cert, key, process, reply, disturbed, events>>

StoreCert(h) ==
  /\ doing[h] \in StoringCert
  /\ cert' = [cert EXCEPT ![h] = reply[h]]
  /\ doing' = [doing EXCEPT ![h] = IF @ = "enrolCert" THEN "enrolKey" ELSE "renewKey"]
  /\ UNCHANGED <<serverVars, addr, ca, key, process, reply, history, events>>

StoreKey(h) ==
  /\ doing[h] \in StoringKey
  /\ key' = [key EXCEPT ![h] = reply[h]]
  /\ reply' = [reply EXCEPT ![h] = 0]
  /\ doing' = [doing EXCEPT ![h] = "idle"]
  /\ torn' = IF reply[h] = Blank THEN torn ELSE torn \ {h}
  /\ UNCHANGED <<serverVars, addr, ca, cert, process, disturbed, events>>

NewProcess(h) == client' = [client EXCEPT ![h] = 0] /\ up' = up \ {h}

\* The request or its answer is lost, an entry cannot be written or deleted, or the agent stops
\* and starts again.  Once the server has pinned a certificate the agent is left without it;
\* a renewal or a deletion can leave a pair that does not fit, or be on the way to one.
Interrupt(h) ==
  /\ Event
  /\ doing[h] # "idle"
  /\ NewProcess(h) \/ UNCHANGED process
  /\ doing' = [doing EXCEPT ![h] = "idle"]
  /\ reply' = [reply EXCEPT ![h] = 0]
  /\ disturbed' = IF doing[h] \in Storing /\ reply[h] # Blank THEN disturbed \cup {h} ELSE disturbed
  /\ torn' = IF doing[h] \in {"expire", "renewCert", "renewKey"} THEN torn \cup {h} ELSE torn
  /\ UNCHANGED <<serverVars, addr, registry>>

Restart(h) ==
  /\ Event
  /\ doing[h] = "idle" /\ (h \in up \/ client[h] # 0)
  /\ NewProcess(h)
  /\ UNCHANGED <<serverVars, addr, registry, doing, reply, history>>

\* The host gets another address; a request under way keeps the old one.
Move(h) ==
  /\ Event
  /\ doing[h] = "idle" /\ seen[h] = NoReport
  /\ \E a \in Addrs \cup {BadAddr} : a # addr[h] /\ addr' = [addr EXCEPT ![h] = a]
  /\ UNCHANGED <<serverVars, registry, process, doing, reply, history>>

-----------------------------------------------------------------------------
(* The handlers that sign a certificate *)

Answer(h, c) ==
  /\ reply' = [reply EXCEPT ![h] = c]
  /\ doing' = [doing EXCEPT ![h] = IF @ = "enrol" THEN "enrolCA" ELSE "renewCA"]

\* The targets are written with the new certificate; when one is refused the handler
\* returns without ending its transaction.
Sign(h, names) ==
  /\ conn = Nobody /\ serial < MaxCert
  /\ serial' = serial + 1
  /\ IF ValidPath(addr[h])
     THEN /\ targets' = Write(names, serial', addr[h])
          /\ Answer(h, serial')
          /\ disturbed' = IF Main(h) \in names THEN disturbed \ {h} ELSE disturbed
          /\ UNCHANGED conn
     ELSE /\ conn' = h
          /\ Answer(h, Blank)
          /\ UNCHANGED <<targets, disturbed>>

\* WriteErrorResponse: the token or the target is not there, the transaction cannot be begun or
\* committed.
WriteErrorResponse(h) ==
  /\ Answer(h, Blank)
  /\ UNCHANGED <<targets, conn, serial, disturbed>>

\* AgentBootstrapHandler; with an invalid token the handler answers at once.
AgentBootstrapHandler(h) ==
  /\ doing[h] = "enrol"
  /\ \/ token /\ \E names \in DriveSets(h) : Sign(h, names)
     \/ WriteErrorResponse(h)
  /\ UNCHANGED <<token, addr, registry, process, seen, edit, torn, events>>

\* Mutant: the targets of a Windows host are not named by their drives either.
AgentRenewHandlerBare(h) ==
  /\ doing[h] = "renew"
  /\ \/ targets[Main(h)].there /\ Sign(h, {<<h, "other">>})
     \/ WriteErrorResponse(h)
  /\ UNCHANGED <<token, addr, registry, process, seen, edit, torn, events>>

\* AgentRenewHandler names the target of a host that is not Windows by the bare host name.
AgentRenewHandler(h) ==
  /\ doing[h] = "renew"
  /\ \/ /\ targets[Main(h)].there
        /\ \E names \in IF h \in Windows THEN DriveSets(h) ELSE {{<<h, "other">>}} : Sign(h, names)
     \/ WriteErrorResponse(h)
  /\ UNCHANGED <<token, addr, registry, process, seen, edit, torn, events>>

-----------------------------------------------------------------------------
(* The report of drives: D2DTargetAgentHandler *)

\* It reads what has the address of the request ...
ReportRead(h) ==
  /\ h \in up /\ GetTLSConfig(h) /\ checkAgentAuth(h)
  /\ seen[h] = NoReport
  /\ seen' = [seen EXCEPT ![h] = {<<n, targets[n].auth>> : n \in GetAllTargetsByIP(addr[h])}]
  /\ UNCHANGED <<targets, conn, token, serial, edit, agentVars, history, events>>

\* The rows are ordered by name: of one host "host" and "host - C" come first, of several
\* hosts either may.
Template(rows) ==
  LET First(s) == ~ \E t \in rows : t[1][1] = s[1][1] /\ t # s
                     /\ (t[1][2] = "other") = (s[1][1] \in Unix)
  IN  IF rows = {} THEN {0} ELSE {s[2] : s \in {s \in rows : First(s)}}

\* Mutant: whatever was at the address and is not among the drives has vanished.
VanishedAll(h, names) == {s[1] : s \in seen[h]} \ names

\* The host's own targets that were at the address and are not among the drives.
Vanished(h, names) ==
  {n \in {s[1] : s \in seen[h]} \ names : n[1] = h /\ ~ (n[2] = "other" /\ h \in Unix)}

\* Mutant: an early return leaves the transaction open.
ReportEndLeaks(h, ok) ==
  /\ conn' = IF ok THEN conn ELSE h
  /\ seen' = [seen EXCEPT ![h] = NoReport]

\* The deferred Rollback always ends the transaction.
ReportEnd(h, ok) ==
  /\ UNCHANGED conn
  /\ seen' = [seen EXCEPT ![h] = NoReport]

\* What the report read is about its host alone, and its main target is as it was then.
ReadRight(h) ==
  /\ <<Main(h), targets[Main(h)].auth>> \in seen[h]
  /\ \A s \in seen[h] : s[1][1] = h

\* ... takes the certificate of the first of these for all drives it writes, and deletes
\* those of the host's drives that are gone.  A target that it has read and that is no
\* longer there fails a deletion, and with it the report, but not an update.
ReportWrite(h) ==
  /\ seen[h] # NoReport /\ conn = Nobody
  /\ \E names \in DriveSets(h), template \in Template(seen[h]) :
       LET gone == Vanished(h, names)
           written == {n \in names : n \notin {s[1] : s \in seen[h]} \/ targets[n].there}
           ok == ValidPath(addr[h]) /\ \A n \in gone : targets[n].there
       IN  /\ targets' = IF ok THEN [n \in Names |-> IF n \in gone THEN None
                                                     ELSE Write(written, template, addr[h])[n]]
                         ELSE targets
           /\ ReportEnd(h, ok)
           /\ disturbed' = IF ok /\ ~ ReadRight(h) THEN disturbed \cup {h} ELSE disturbed
  /\ UNCHANGED <<token, serial, edit, agentVars, torn, events>>

-----------------------------------------------------------------------------
(* The web interface *)

\* A main target whose certificate changes.
Repinned(n) == IF n = Main(n[1]) /\ targets'[n].auth # targets[n].auth THEN {n[1]} ELSE {}

\* ExtJsTargetSingleHandler, PUT: reads the target ...
EditRead ==
  /\ Event
  /\ edit = NoEdit
  /\ \E n \in Names : targets[n].there /\ edit' = targets[n].auth
  /\ UNCHANGED <<targets, conn, token, serial, seen, agentVars, history>>

\* ... and writes all of it, certificate included, with the path of the form over whatever has
\* the name of the form.
EditWrite ==
  /\ edit # NoEdit /\ conn = Nobody
  /\ \E n \in Names, a \in Addrs :
       /\ targets' = [targets EXCEPT ![n] = IF @.there THEN Target(edit, a) ELSE @]
       /\ disturbed' = disturbed \cup Repinned(n)
  /\ edit' = NoEdit
  /\ UNCHANGED <<conn, token, serial, seen, agentVars, torn, events>>

\* ExtJsTargetHandler, POST: a target without a certificate, also over one that is there.
AddTarget ==
  /\ Event
  /\ conn = Nobody
  /\ \E n \in Names, a \in Addrs :
       /\ targets' = [targets EXCEPT ![n] = Target(0, a)]
       /\ disturbed' = disturbed \cup Repinned(n)
  /\ UNCHANGED <<conn, token, serial, seen, edit, agentVars, torn>>

\* DELETE
DeleteTarget ==
  /\ Event
  /\ conn = Nobody
  /\ \E n \in Names :
       /\ targets[n].there
       /\ targets' = [targets EXCEPT ![n] = None]
       /\ disturbed' = disturbed \cup Repinned(n)
  /\ UNCHANGED <<conn, token, serial, seen, edit, agentVars, torn>>

\* RevokeToken, or the token expires; CreateToken and a new configuration of the agents.
RevokeToken ==
  /\ Event
  /\ token' = ~ token
  /\ conn = Nobody
  /\ UNCHANGED <<targets, conn, serial, seen, edit, agentVars, history>>

AgentStep(h) ==
  \/ Bootstrap(h) \/ Start(h) \/ MakeClient(h) \/ renewCertificate(h) \/ ExpireCert(h) \/ ExpireKey(h)
  \/ StoreCA(h) \/ StoreCert(h) \/ StoreKey(h) \/ Interrupt(h) \/ Restart(h) \/ Move(h)
HandlerStep(h) ==
  AgentBootstrapHandler(h) \/ AgentRenewHandler(h) \/ ReportRead(h) \/ ReportWrite(h)

IdNext ==
  \/ \E h \in Hosts : AgentStep(h) \/ HandlerStep(h)
  \/ EditRead \/ EditWrite \/ AddTarget \/ DeleteTarget \/ RevokeToken

IdSpec == IdInit /\ [][IdNext]_idVars
-----------------------------------------------------------------------------
(* Properties *)

IdTypeOK ==
  /\ targets \in [Names -> [auth : Certs, addr : Addrs \cup {BadAddr}, there : BOOLEAN]]
  /\ conn \in Hosts \cup {Nobody}
  /\ token \in BOOLEAN
  /\ serial \in Certs
  /\ addr \in [Hosts -> Addrs \cup {BadAddr}]
  /\ ca \in [Hosts -> {0, 1, Blank}] /\ {cert, key, client, reply} \subseteq [Hosts -> Entries]
  /\ up \subseteq Hosts
  /\ doing \in [Hosts -> Doing]
  /\ seen \in [Hosts -> {NoReport} \cup SUBSET (Names \X Certs)]
  /\ edit \in Certs \cup {NoEdit}
  /\ torn \subseteq Hosts /\ disturbed \subseteq Hosts
  /\ events \in 0 .. MaxEvents

\* An agent that has its three entries can use them, or it is stuck: it neither connects nor
\* enrols again.  It is left like that only by an answer that was an error, by a renewal that
\* was interrupted while it was stored, or by a key that stayed when its certificate was
\* deleted; an enrolment that is interrupted anywhere is repeated (tls_config.go 56-172).
PairUsable ==
  \A h \in Hosts \ torn : doing[h] \notin Storing /\ Complete(h) => GetTLSConfig(h)

\* The pair of a Windows agent is the one the server has pinned, so that the agent is known once
\* it is started again, through renewals, expiry and reports, unless since the certificate was
\* signed its answer was lost, a report read other hosts' targets or not its own as they are,
\* or its target was deleted, made anew or written from another copy (auth.go 58-88).
StaysKnown ==
  \A h \in Windows \ disturbed :
    doing[h] \notin Storing /\ GetTLSConfig(h) => loadTrustedCert(Main(h)) = cert[h]

\* "This prevents deleting targets from other hosts sharing the same IP" (targets.go 192):
\* no report changes the targets of another host.
ReportsOwnTargets ==
  [][\A h \in Hosts : seen[h] # NoReport /\ seen'[h] = NoReport =>
       \A n \in Names : n[1] # h => targets'[n] = targets[n]]_idVars

\* The write connection is lost, and every later write of the server waits for ever, only
\* by an enrolment or renewal whose target is refused.
ConnectionKept ==
  [][conn' # conn => serial' # serial /\ ~ ValidPath(addr[conn'])]_idVars
=============================================================================
