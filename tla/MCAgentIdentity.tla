---- MODULE MCAgentIdentity ----
EXTENDS AgentIdentity
\* 10.0.0.1, 10.0.0.10, and what is left of an IPv6 address
SomeAddrs == {<<1>>, <<1, 0>>}
NoAddr == <<6>>
====
