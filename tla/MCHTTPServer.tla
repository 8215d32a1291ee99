---------------------------- MODULE MCHTTPServer ----------------------------
(***************************************************************************)
(* The messages a client of the remote server sends: calls, notifications  *)
(* and calls without an ID; batches from the empty one to one too long.    *)
(***************************************************************************)
EXTENDS HTTPServer

Call == [id |-> TRUE, method |-> "write"]
Ping == [id |-> TRUE, method |-> "other"]
Mute == [id |-> FALSE, method |-> "write"]

SomeSingles == {Call, Ping, Mute}

SomeBatches ==
    {<<>>, <<Mute, Mute>>, <<Call, Call>>, <<Mute, Call>>, <<Ping, Call>>,
     <<Call, Mute, Call>>, <<Call, Call, Call, Call>>}
=============================================================================
