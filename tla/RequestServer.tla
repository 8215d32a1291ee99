--------------------------- MODULE RequestServer ---------------------------
(***************************************************************************)
(* What both MCP servers promise a client (internal/mcp/server.go and      *)
(* http_server.go): its messages are handled one after the other in the    *)
(* order it sent them, a message with an ID is answered at most once, a    *)
(* message without one is never answered and never acts, and the answers   *)
(* reach it in that order.  The platform may perform a request late, even  *)
(* after its call was answered with an error, so an effect is promised     *)
(* only to follow the beginning of its call and to precede its success.    *)
(***************************************************************************)
EXTENDS Naturals, Sequences, FiniteSets

CONSTANTS
    Clients,
    Requests    \* sequences of messages a client may send at once

VARIABLES
    asked,      \* the messages each client has sent, in order
    handled,    \* how many of them have been handled
    outcomes,   \* the answers to those of them that have an ID
    told,       \* the answers the client has received
    effects     \* the messages whose request the platform performed

serverVars == <<asked, handled, outcomes, told, effects>>

Acts(m) == m.id /\ m.method = "write"

Init ==
    /\ asked = [c \in Clients |-> <<>>]
    /\ handled = [c \in Clients |-> 0]
    /\ outcomes = [c \in Clients |-> <<>>]
    /\ told = [c \in Clients |-> <<>>]
    /\ effects = {}

Ask(c) ==
    /\ \E s \in Requests : asked' = [asked EXCEPT ![c] = @ \o s]
    /\ UNCHANGED <<handled, outcomes, told, effects>>

Perform(c) ==
    /\ \E i \in 1..(handled[c] + 1) :
          /\ i <= Len(asked[c])
          /\ Acts(asked[c][i])
          /\ effects' = effects \cup {<<c, i>>}
    /\ UNCHANGED <<asked, handled, outcomes, told>>

Ignore(c) ==
    /\ handled[c] < Len(asked[c])
    /\ ~asked[c][handled[c] + 1].id
    /\ handled' = [handled EXCEPT ![c] = @ + 1]
    /\ UNCHANGED <<asked, outcomes, told, effects>>

Answer(c, result) ==
    LET i == handled[c] + 1 IN
    /\ i <= Len(asked[c])
    /\ asked[c][i].id
    /\ result = "ok" /\ Acts(asked[c][i]) => <<c, i>> \in effects
    /\ handled' = [handled EXCEPT ![c] = i]
    /\ outcomes' = [outcomes EXCEPT ![c] = Append(@, [to |-> i,
                                                      is |-> result])]
    /\ UNCHANGED <<asked, told, effects>>

Tell(c) ==
    /\ \E n \in Len(told[c])..Len(outcomes[c]) :
          told' = [told EXCEPT ![c] = SubSeq(outcomes[c], 1, n)]
    /\ UNCHANGED <<asked, handled, outcomes, effects>>

Next ==
    \E c \in Clients :
        \/ Ask(c) \/ Perform(c) \/ Ignore(c) \/ Tell(c)
        \/ \E result \in {"ok", "error"} : Answer(c, result)

Spec == Init /\ [][Next]_serverVars
=============================================================================
