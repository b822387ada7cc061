---- MODULE MCRemoteFS ----
EXTENDS RemoteFS
SomeLayouts == {{}, {0, 3}}
SomeAces == [tag : {"user"}, who : {"", "name", "1000"}]
====
