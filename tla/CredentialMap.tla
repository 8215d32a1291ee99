--------------------------- MODULE CredentialMap ---------------------------
(***************************************************************************)
(* What the TokenStore interface (internal/feishu/token_store.go, lines    *)
(* 22-26) promises its clients: a map from credential IDs to secrets on    *)
(* which Save, Get and Delete act at one instant between the request and   *)
(* its reply, or fail without effect.  A client may die at any moment.     *)
(***************************************************************************)
CONSTANTS Clients, Ids, Secrets, Absent

NoCall  == [op |-> "none"]
Request == [op : {"save"}, id : Ids, secret : Secrets]
             \cup [op : {"get", "delete"}, id : Ids]

VARIABLES
    map,        \* the stored secret of each ID
    call,       \* the request each client has open
    reply       \* its reply, once there is one

mapVars == <<map, call, reply>>

NoReply == [is |-> "none"]
Ok      == [is |-> "ok"]
Error   == [is |-> "error"]
Found(secret) == [is |-> "found", secret |-> secret]

Init ==
    /\ map \in [Ids -> Secrets \cup {Absent}]
    /\ call = [c \in Clients |-> NoCall]
    /\ reply = [c \in Clients |-> NoReply]

Ask(c) ==
    /\ call[c] = NoCall
    /\ \E r \in Request : call' = [call EXCEPT ![c] = r]
    /\ UNCHANGED <<map, reply>>

Open(c) == call[c] # NoCall /\ reply[c] = NoReply

Save(c) ==
    /\ Open(c)
    /\ call[c].op = "save"
    /\ map' = [map EXCEPT ![call[c].id] = call[c].secret]
    /\ reply' = [reply EXCEPT ![c] = Ok]
    /\ UNCHANGED call

Delete(c) ==
    /\ Open(c)
    /\ call[c].op = "delete"
    /\ map' = [map EXCEPT ![call[c].id] = Absent]
    /\ reply' = [reply EXCEPT ![c] = Ok]
    /\ UNCHANGED call

Get(c) ==
    /\ Open(c)
    /\ call[c].op = "get"
    /\ map[call[c].id] # Absent
    /\ reply' = [reply EXCEPT ![c] = Found(map[call[c].id])]
    /\ UNCHANGED <<map, call>>

\* Also the answer to a Get of an ID that is not there.
Fail(c) ==
    /\ Open(c)
    /\ reply' = [reply EXCEPT ![c] = Error]
    /\ UNCHANGED <<map, call>>

Return(c) ==
    /\ reply[c] # NoReply
    /\ call' = [call EXCEPT ![c] = NoCall]
    /\ reply' = [reply EXCEPT ![c] = NoReply]
    /\ UNCHANGED map

Die(dead) ==
    /\ call' = [c \in Clients |-> IF c \in dead THEN NoCall ELSE call[c]]
    /\ reply' = [c \in Clients |-> IF c \in dead THEN NoReply ELSE reply[c]]
    /\ UNCHANGED map

Next ==
    \/ \E c \in Clients :
          Ask(c) \/ Save(c) \/ Delete(c) \/ Get(c) \/ Fail(c) \/ Return(c)
    \/ \E dead \in SUBSET Clients : Die(dead)

Spec == Init /\ [][Next]_mapVars
=============================================================================
