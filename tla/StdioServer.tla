---------------------------- MODULE StdioServer ----------------------------
(***************************************************************************)
(* The local MCP server: Serve, HandleRequest and HandleNotification of    *)
(* internal/mcp/server.go and main of cmd/feishu-doc-mcp-server.  One      *)
(* goroutine reads a line, handles it and writes the answer before it      *)
(* reads the next.  A signal cancels the context of the call in hand and   *)
(* is looked at between lines, but does not interrupt the read of one.     *)
(*                                                                         *)
(* A line is kept as what decides its handling, as in HTTPServer; a line   *)
(* that does not parse is answered without an ID.                          *)
(***************************************************************************)
EXTENDS Naturals, SequencesExt

CONSTANTS
    Client,     \* the process at the other end of both pipes
    MaxLines    \* bound: lines it writes

ASSUME MaxLinesAssumption == MaxLines \in Nat

Lines == [is : {"message"}, id : BOOLEAN, method : {"write", "other"}]
           \cup [is : {"blank", "garbled", "too long"}, id : {FALSE},
                 method : {"other"}]

VARIABLES
    written,    \* the lines the client has written
    eof,        \* whether it has closed its end
    deaf,       \* whether it has closed the end it reads
    stalled,    \* whether it has stopped reading for good, open or not
    signalled,  \* ctx.Done() is closed
    pc,         \* where Serve is, "exited" after it
    exit,       \* how the process ended
    next,       \* number of the line in hand, or of the one to be read
    outcomes,   \* of the messages with an ID, in the order of handling
    out,        \* what was written to standard output
    sent,       \* lines whose request was sent upstream
    performed   \* platform: those it performed

client == <<written, eof, deaf, stalled>>
loop == <<pc, exit, next>>
answers == <<outcomes, out>>
platform == <<sent, performed>>
vars == <<client, signalled, loop, answers, platform>>

Init ==
    /\ written = <<>>
    /\ eof = FALSE
    /\ deaf = FALSE
    /\ stalled = FALSE
    /\ signalled = FALSE
    /\ pc = "scan"
    /\ exit = "running"
    /\ next = 1
    /\ outcomes = <<>>
    /\ out = <<>>
    /\ sent = {}
    /\ performed = {}

Line == written[next]

\* Mutant: main takes the end of Serve for the end of the input.
ReturnQuietly(failed) ==
    /\ pc' = "exited"
    /\ exit' = "ok"

\* Serve returns, and main fails only for an error that no signal explains.
Return(failed) ==
    /\ pc' = "exited"
    /\ exit' = IF failed /\ ~signalled THEN "failed" ELSE "ok"

\* The runtime ends a program that writes to a standard output nobody reads.
Killed == pc' = "exited" /\ exit' = "killed"

WriteLine(l) ==
    /\ ~eof
    /\ Len(written) < MaxLines
    /\ written' = Append(written, l)
    /\ UNCHANGED <<eof, deaf, stalled, signalled, loop, answers, platform>>

CloseInput ==
    /\ ~eof
    /\ eof' = TRUE
    /\ UNCHANGED <<written, deaf, stalled, signalled, loop, answers, platform>>

CloseOutput ==
    /\ ~deaf
    /\ deaf' = TRUE
    /\ UNCHANGED <<written, eof, stalled, signalled, loop, answers, platform>>

\* A client that reads on after a pause only delays the loop.
StopReading ==
    /\ ~deaf /\ ~stalled
    /\ stalled' = TRUE
    /\ UNCHANGED <<written, eof, deaf, signalled, loop, answers, platform>>

Signal ==
    /\ ~signalled
    /\ signalled' = TRUE
    /\ UNCHANGED <<client, loop, answers, platform>>

\* Mutant: the context is left to the calls.
ScanUnchecked ==
    /\ pc = "scan"
    /\ next <= Len(written)
    /\ Line.is # "too long"
    /\ pc' = "line"
    /\ UNCHANGED <<client, signalled, exit, next, answers, platform>>

\* Scan returns a line, which the loop drops when it has been signalled.
Scan ==
    /\ pc = "scan"
    /\ next <= Len(written)
    /\ Line.is # "too long"
    /\ IF signalled THEN Return(TRUE)
       ELSE pc' = "line" /\ UNCHANGED exit
    /\ UNCHANGED <<client, signalled, next, answers, platform>>

\* Scan gives up at the end of the input, or at a line over 16 MiB.
ScanEnds ==
    /\ pc = "scan"
    /\ \/ eof /\ next > Len(written) /\ Return(FALSE)
       \/ next <= Len(written) /\ Line.is = "too long" /\ Return(TRUE)
    /\ UNCHANGED <<client, signalled, next, answers, platform>>

NextLine == pc' = "scan" /\ next' = next + 1

\* Blank lines and notifications need no answer.
Skip ==
    /\ pc = "line"
    /\ Line.is = "blank" \/ (Line.is = "message" /\ ~Line.id)
    /\ NextLine
    /\ UNCHANGED <<client, signalled, exit, answers, platform>>

\* The error of this one Encode is ignored.
AnswerGarbled ==
    /\ pc = "line"
    /\ Line.is = "garbled"
    /\ \/ ~deaf /\ out' = Append(out, [to |-> 0, is |-> "error"])
          /\ NextLine /\ UNCHANGED exit
       \/ deaf /\ NextLine /\ UNCHANGED <<out, exit>>
       \/ deaf /\ Killed /\ UNCHANGED <<out, next>>
    /\ UNCHANGED <<client, signalled, outcomes, platform>>

Request(method) ==
    pc = "line" /\ Line.is = "message" /\ Line.id /\ Line.method = method

Outcome(r) ==
    /\ pc' = "encode"
    /\ outcomes' = Append(outcomes, [to |-> next, is |-> r])

HandleOther ==
    /\ Request("other")
    /\ \E r \in {"ok", "error"} : Outcome(r)
    /\ UNCHANGED <<client, signalled, exit, next, out, platform>>

\* Mutant: the call is made in a goroutine of its own, and the next line read.
CallToolAside ==
    /\ Request("write")
    /\ ~signalled
    /\ sent' = sent \cup {next}
    /\ NextLine
    /\ UNCHANGED <<client, signalled, exit, answers, performed>>

CallTool ==
    /\ Request("write")
    /\ pc' = "calling"
    /\ UNCHANGED <<client, signalled, exit, next, answers, platform>>

\* Nothing is sent under a context that is over.
Send ==
    /\ pc = "calling"
    /\ ~signalled
    /\ sent' = sent \cup {next}
    /\ pc' = "sent"
    /\ UNCHANGED <<client, signalled, exit, next, answers, performed>>

Perform(i) ==
    /\ i \in sent \ performed
    /\ performed' = performed \cup {i}
    /\ UNCHANGED <<client, signalled, loop, answers, sent>>

CallSucceeds ==
    /\ pc = "sent"
    /\ next \in performed
    /\ Outcome("ok")
    /\ UNCHANGED <<client, signalled, exit, next, out, platform>>

\* Mutant: an upstream request that is never answered has no timeout.
CallFailsUnsent ==
    /\ pc = "calling"
    /\ Outcome("error")
    /\ UNCHANGED <<client, signalled, exit, next, out, platform>>

\* A tool's error, the cancelled context among them, is a result too.
CallFails ==
    /\ pc \in {"calling", "sent"}
    /\ Outcome("error")
    /\ UNCHANGED <<client, signalled, exit, next, out, platform>>

\* Mutant: a cancelled call is not answered.
EncodeUnlessSignalled ==
    /\ pc = "encode"
    /\ \/ ~deaf /\ NextLine /\ UNCHANGED exit
          /\ out' = IF signalled THEN out
                    ELSE Append(out, Last(outcomes))
       \/ deaf /\ (Return(TRUE) \/ Killed) /\ UNCHANGED <<out, next>>
    /\ UNCHANGED <<client, signalled, outcomes, platform>>

\* Mutant: the error of Encode is ignored here too, and the line read again.
EncodeAgain ==
    /\ pc = "encode"
    /\ \/ ~deaf /\ out' = Append(out, Last(outcomes))
          /\ NextLine
       \/ deaf /\ pc' = "line" /\ UNCHANGED <<out, next>>
    /\ UNCHANGED <<client, signalled, exit, outcomes, platform>>

Encode ==
    /\ pc = "encode"
    /\ \/ ~deaf /\ out' = Append(out, Last(outcomes))
          /\ NextLine /\ UNCHANGED exit
       \/ deaf /\ (Return(TRUE) \/ Killed) /\ UNCHANGED <<out, next>>
    /\ UNCHANGED <<client, signalled, outcomes, platform>>

Serve ==
    \/ Scan \/ ScanEnds \/ Skip \/ AnswerGarbled \/ HandleOther \/ CallTool
    \/ Send \/ CallSucceeds \/ CallFails \/ Encode

Next ==
    \/ Serve
    \/ pc # "exited" /\ (CloseInput \/ CloseOutput \/ StopReading \/ Signal
                            \/ \E l \in Lines : WriteLine(l))
    \/ \E i \in 1..MaxLines : Perform(i)

Spec == Init /\ [][Next]_vars

\* The loop is in Encode, writing to a pipe that nobody reads and nobody has
\* closed: the answer may still fit into the pipe, or the write blocks for ever
\* (lines 44 and 52), and looks at no context.
Blocked ==
    /\ stalled /\ ~deaf
    /\ pc = "encode" \/ (pc = "line" /\ Line.is = "garbled")

\* The goroutine runs while it can, and an upstream request has a timeout;
\* that there is a line to read, and that the answers are read, is the client's
\* affair.
FairSpec == Spec /\ WF_vars(Serve /\ ~Blocked)

-----------------------------------------------------------------------------
\* The answers in a stretch of the output that say which line they are to.
Named(s) ==
    LET named[k \in 0..Len(s)] ==
            IF k = 0 THEN <<>>
            ELSE IF s[k].to = 0 THEN named[k - 1]
            ELSE Append(named[k - 1], s[k])
    IN  named[Len(s)]

Abstract == INSTANCE RequestServer WITH
    Clients  <- {Client},
    Requests <- {<<l>> : l \in Lines},
    asked    <- [c \in {Client} |-> written],
    handled  <- [c \in {Client} |->
                    IF \E k \in DOMAIN outcomes : outcomes[k].to = next
                    THEN next ELSE next - 1],
    outcomes <- [c \in {Client} |-> outcomes],
    told     <- [c \in {Client} |-> Named(out)],
    effects  <- {Client} \X performed

Results == [to : 0..MaxLines, is : {"ok", "error"}]

TypeOK ==
    /\ Len(written) <= MaxLines /\ Range(written) \subseteq Lines
    /\ {eof, deaf, stalled, signalled} \subseteq BOOLEAN
    /\ pc \in {"scan", "line", "calling", "sent", "encode", "exited"}
    /\ exit \in {"running", "ok", "failed", "killed"}
    /\ (pc = "exited") = (exit # "running")
    /\ next \in 1..(MaxLines + 1)
    /\ \A s \in {outcomes, out} :
          Len(s) <= MaxLines /\ Range(s) \subseteq Results
    /\ performed \subseteq sent /\ sent \subseteq 1..MaxLines

\* The client at the other end of the pipes is served as RequestServer
\* promises, whenever the signal comes and whatever it writes (lines 31-55).
ServesRequests == Abstract!Spec

Answered(i) == \E k \in DOMAIN out : out[k].to = i

\* The lines whose answers are due: those before the line in hand, and all of
\* them when the process ends well although nobody signalled it.
Due == IF exit = "ok" /\ ~signalled THEN DOMAIN written ELSE 1..(next - 1)

\* Reading on means having answered, and so does a clean end, which has also
\* seen the end of the input: a signal, a line too long or a broken pipe lose
\* the answer to one call at most, and without a signal an exit status tells
\* of it (server.go, lines 31-56; main.go, lines 27-30).
AnsweredBeforeReadingOn ==
    /\ \A i \in Due : written[i].id => Answered(i)
    /\ exit = "ok" => eof \/ signalled

\* The steps the loop still takes within the line in hand, or until it has
\* one and is done with it.
InLine ==
    CASE pc = "scan" -> 5
      [] pc = "line" -> 4
      [] pc = "calling" -> 3
      [] pc = "sent" -> 2
      [] pc = "encode" -> 1
      [] pc = "exited" -> 0

\* The steps it takes for the lines that are written, the one in hand first.
StepsLeft ==
    IF pc = "exited" THEN 0 ELSE 5 * (Len(written) + 1 - next) + InLine

StepsAfterSignal == IF pc = "scan" THEN 1
                    ELSE IF pc = "exited" THEN 0 ELSE 1 + InLine

\* The loop handles n lines in 5(n + 1) steps at most: no error of a call, a
\* pipe or a line sends it back to what it has dealt with, and nothing but a
\* further line gives it more to do.  A signal leaves it five at most: it
\* finishes the line in hand and begins none of those that wait, however many
\* there are (lines 31-56).
LoopAdvances ==
    [][/\ StepsLeft' \in 0..(StepsLeft - 1)
       /\ signalled => StepsAfterSignal' \in 0..(StepsAfterSignal - 1)
      ]_<<loop, answers, sent>>

\* A line is read and its handling ends, unless the process does: no call and
\* no line before it holds the loop.  Only a client that neither reads nor
\* closes the pipe may, and only in the write of an answer (lines 31-56).
EveryLineIsHandled ==
    \A i \in 1..MaxLines :
        (Len(written) >= i) ~> (next > i \/ pc = "exited" \/ []Blocked)

Unread == IF pc = "scan" THEN Len(written) >= next ELSE Len(written) > next

\* After a signal the process ends with the next line or the end of the
\* input, unless it is stuck in the write of the answer in hand.  Without either
\* it waits in Scan for ever (lines 31-36).
EndsAfterSignal ==
    (signalled /\ (eof \/ Unread)) ~> (pc = "exited" \/ []Blocked)
=============================================================================
