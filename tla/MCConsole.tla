---- MODULE MCConsole ----
EXTENDS Console

Elsewhere == ({"urls"} \X People) \cup ({"login"} \X (People \ {Me}))
AllTopics == {Ping, "qr.code.created"}
====
