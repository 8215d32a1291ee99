------------------------- MODULE StdioServer_proofs -------------------------
(***************************************************************************)
(* Proofs about StdioServer, for any number of lines.  The invariant says  *)
(* which line is in hand (Reading), that the answer about to be written is *)
(* that line's (Encoding), that all lines before it are answered (Behind), *)
(* and that nothing but the end of the input or a signal ends the process  *)
(* well (Ended).                                                           *)
(***************************************************************************)
EXTENDS StdioServer, Integers, SequenceTheorems, WellFoundedInduction, TLAPS

Handling == {"line", "calling", "sent", "encode"}

Types ==
    /\ written \in Seq(Lines) /\ Len(written) <= MaxLines
    /\ eof \in BOOLEAN /\ deaf \in BOOLEAN
    /\ stalled \in BOOLEAN /\ signalled \in BOOLEAN
    /\ pc \in {"scan", "exited"} \cup Handling
    /\ exit \in {"running", "ok", "failed", "killed"}
    /\ next \in Nat \ {0}
    /\ outcomes \in Seq(Results) /\ out \in Seq(Results)
    /\ sent \subseteq 1..MaxLines /\ performed \subseteq sent

Reading ==
    /\ next <= Len(written) + 1
    /\ pc \in Handling => next <= Len(written)

Encoding == pc = "encode" =>
    /\ Len(outcomes) > 0
    /\ outcomes[Len(outcomes)].to = next

Behind == \A i \in 1..(next - 1) : written[i].id => Answered(i)

Ended ==
    /\ exit = "ok" /\ ~signalled => eof /\ next = Len(written) + 1
    /\ (pc = "exited") = (exit # "running")

\* At most one outcome, and one answer, for each line.
Counts ==
    /\ Len(outcomes) <= Len(written) /\ Len(outcomes) <= next
    /\ pc \notin {"encode", "exited"} => Len(outcomes) < next
    /\ Len(out) < next

Inv == Types /\ Reading /\ Encoding /\ Behind /\ Ended /\ Counts

-----------------------------------------------------------------------------
LEMMA InitInv == Init => Inv
<1> SUFFICES ASSUME Init PROVE Inv
  OBVIOUS
<1>1. Types
  <2>1. /\ <<>> \in Seq(Lines) /\ <<>> \in Seq(Results) /\ Len(<<>>) = 0
    BY EmptySeq
  <2>2. /\ written \in Seq(Lines) /\ Len(written) <= MaxLines
        /\ outcomes \in Seq(Results) /\ out \in Seq(Results)
    BY <2>1, MaxLinesAssumption DEF Init
  <2>3. sent \subseteq 1..MaxLines /\ performed \subseteq sent
    BY DEF Init
  <2>4. /\ eof \in BOOLEAN /\ deaf \in BOOLEAN
        /\ stalled \in BOOLEAN /\ signalled \in BOOLEAN
    BY Zenon DEF Init
  <2>5. /\ pc \in {"scan", "exited"} \cup Handling
        /\ exit \in {"running", "ok", "failed", "killed"}
        /\ next \in Nat \ {0}
    BY DEF Init
  <2> QED
    BY <2>2, <2>3, <2>4, <2>5 DEF Types
<1> QED
  BY <1>1, EmptySeq, MaxLinesAssumption
  DEF Init, Inv, Reading, Encoding, Behind, Ended, Counts, Handling

\* A further line changes nothing about those before it.
LEMMA WriteLineInv ==
    ASSUME Inv, pc # "exited", NEW l \in Lines, WriteLine(l) PROVE Inv'
<1>1. /\ written' \in Seq(Lines) /\ Len(written') = Len(written) + 1
      /\ \A i \in 1..Len(written) : written'[i] = written[i]
      /\ Len(written) \in Nat
  BY AppendProperties, LenProperties DEF Inv, Types, WriteLine
<1>2. UNCHANGED <<eof, deaf, stalled, signalled, pc, exit, next, outcomes,
                  out, sent, performed>>
  BY DEF WriteLine, loop, answers, platform
<1>3. Types'
  BY <1>1, <1>2, MaxLinesAssumption DEF Inv, Types, WriteLine
<1>4. Reading' /\ Encoding' /\ Ended'
  BY <1>1, <1>2 DEF Inv, Types, Reading, Encoding, Ended
<1>5. Behind'
  <2> SUFFICES ASSUME NEW i \in 1..(next - 1), written'[i].id
               PROVE  Answered(i)'
    BY <1>2 DEF Behind
  <2>1. written'[i] = written[i]
    BY <1>1 DEF Inv, Types, Reading
  <2> QED
    BY <1>2, <2>1 DEF Inv, Behind, Answered
<1>6. Counts'
  <2>1. Len(outcomes) \in Nat
    BY LenProperties DEF Inv, Types
  <2> QED
    BY <1>1, <1>2, <2>1 DEF Inv, Counts
<1> QED
  BY <1>3, <1>4, <1>5, <1>6 DEF Inv

\* What happens around the process.
LEMMA AroundInv ==
    ASSUME Inv, pc # "exited" \/ UNCHANGED <<eof, signalled>>,
           eof' \in BOOLEAN, deaf' \in BOOLEAN,
           stalled' \in BOOLEAN, signalled' \in BOOLEAN,
           performed' \subseteq sent,
           UNCHANGED <<written, pc, exit, next, outcomes, out, sent>>
    PROVE  Inv'
BY DEF Inv, Types, Reading, Encoding, Behind, Answered, Ended, Counts

\* The process ends, or its loop moves on within a line.
LEMMA LoopInv ==
    ASSUME Inv, UNCHANGED <<client, signalled, next, answers, performed>>,
           sent' \subseteq 1..MaxLines, sent \subseteq sent',
           pc' \in {"exited"} \cup (Handling \ {"encode"}),
           pc' # "exited" => /\ pc # "encode" /\ UNCHANGED exit
                             /\ pc # "exited" /\ next <= Len(written),
           pc' = "exited" => exit' \in {"ok", "failed", "killed"},
           exit' = "ok" /\ ~signalled /\ pc' = "exited" =>
               eof /\ next = Len(written) + 1
    PROVE  Inv'
<1>1. UNCHANGED <<written, eof, deaf, stalled, outcomes, out>>
  BY DEF client, answers
<1>2. Types'
  BY <1>1 DEF Inv, Types, Handling
<1>3. Reading' /\ Encoding' /\ Behind'
  BY <1>1 DEF Inv, Reading, Encoding, Behind, Answered, Handling
<1>4. Ended'
  BY <1>1 DEF Inv, Ended, Handling
<1>5. Counts'
  BY <1>1 DEF Inv, Counts, Types, Handling
<1> QED
  BY <1>2, <1>3, <1>4, <1>5 DEF Inv

LEMMA ScanInv == ASSUME Inv, Scan \/ ScanEnds PROVE Inv'
<1>1. /\ pc = "scan" /\ next \in Nat /\ Len(written) \in Nat
      /\ next <= Len(written) + 1
  BY LenProperties DEF Inv, Types, Reading, Scan, ScanEnds
<1>2. UNCHANGED <<client, signalled, next, answers, sent, performed>>
  BY DEF Scan, ScanEnds, platform
<1>3. CASE pc' = "line" /\ UNCHANGED exit
  <2>1. next <= Len(written)
    BY <1>1, <1>3 DEF Scan, ScanEnds, Return
  <2>2. exit # "ok"
    BY <1>1 DEF Inv, Types, Ended
  <2> QED
    BY <1>1, <1>2, <1>3, <2>1, <2>2, LoopInv DEF Inv, Types, Handling
<1>4. CASE signalled /\ Return(TRUE)
  BY <1>1, <1>2, <1>4, LoopInv DEF Inv, Types, Return
<1>5. CASE Return(TRUE)
  BY <1>1, <1>2, <1>5, LoopInv DEF Inv, Types, Return
<1>6. CASE eof /\ next > Len(written) /\ Return(FALSE)
  BY <1>1, <1>2, <1>6, LoopInv DEF Inv, Types, Return
<1> QED
  BY <1>3, <1>4, <1>5, <1>6 DEF Scan, ScanEnds

LEMMA CallInv == ASSUME Inv, CallTool \/ Send PROVE Inv'
<1>1. pc \in Handling \ {"encode"} /\ next \in 1..MaxLines
  BY MaxLinesAssumption, LenProperties
  DEF Inv, Types, Reading, CallTool, Send, Request, Handling
<1> QED
  BY <1>1, LoopInv
  DEF Inv, Types, Reading, CallTool, Send, Request, Handling, platform

\* The line in hand is done, and answered if it has an ID.
LEMMA NextLineInv ==
    ASSUME Inv, NextLine, pc \in Handling,
           UNCHANGED <<client, signalled, exit, outcomes, platform>>,
           \/ UNCHANGED out
           \/ \E r \in Results : out' = Append(out, r),
           ~Line.id \/ \E r \in Results : r.to = next /\ out' = Append(out, r)
    PROVE  Inv'
<1>1. /\ UNCHANGED <<written, eof, deaf, stalled, sent, performed>>
      /\ pc' = "scan" /\ next' = next + 1
  BY DEF client, platform, NextLine
<1>2. /\ next \in Nat \ {0} /\ next <= Len(written) /\ Len(written) \in Nat
      /\ Len(out) \in Nat /\ Len(outcomes) \in Nat
  BY LenProperties DEF Inv, Types, Reading
<1>3. /\ out' \in Seq(Results) /\ Len(out') \in Len(out)..(Len(out) + 1)
      /\ \A k \in 1..Len(out) : out'[k] = out[k]
  <2>1. out \in Seq(Results)
    BY DEF Inv, Types
  <2>2. CASE UNCHANGED out
    BY <1>2, <2>1, <2>2
  <2>3. ASSUME NEW r \in Results, out' = Append(out, r)
        PROVE  /\ out' \in Seq(Results) /\ Len(out') = Len(out) + 1
               /\ \A k \in 1..Len(out) : out'[k] = out[k]
    BY <2>1, <2>3, AppendProperties
  <2> QED
    BY <1>2, <2>2, <2>3
<1>4. /\ DOMAIN out = 1..Len(out)
      /\ DOMAIN out' = 1..Len(out') /\ Len(out') \in Nat
      /\ 1..Len(out) \subseteq 1..Len(out')
  <2>1. DOMAIN out = 1..Len(out) /\ DOMAIN out' = 1..Len(out')
    BY <1>3, LenProperties DEF Inv, Types
  <2>2. Len(out') \in Nat /\ Len(out) \in Nat /\ Len(out) <= Len(out')
    BY <1>2, <1>3
  <2>3. \A m, n \in Nat : m <= n => 1..m \subseteq 1..n
    OBVIOUS
  <2>4. 1..Len(out) \subseteq 1..Len(out')
    BY <2>2, <2>3
  <2> QED
    BY <2>1, <2>2, <2>4
<1>5. ASSUME NEW i \in Nat, Answered(i) PROVE Answered(i)'
  <2>1. PICK k \in 1..Len(out) : out[k].to = i
    BY <1>4, <1>5 DEF Answered
  <2>2. k \in DOMAIN out'
    BY <1>4, <2>1
  <2>3. out'[k].to = i
    BY <1>3, <2>1
  <2> QED
    BY <2>2, <2>3 DEF Answered
<1>6. Line.id => \E k \in DOMAIN out' : out'[k].to = next
  <2> SUFFICES ASSUME NEW r \in Results, r.to = next, out' = Append(out, r)
               PROVE  \E k \in DOMAIN out' : out'[k].to = next
    OBVIOUS
  <2>1. Len(out') = Len(out) + 1 /\ out'[Len(out) + 1] = r
    BY AppendProperties DEF Inv, Types
  <2>2. Len(out) + 1 \in 1..Len(out')
    BY <1>2, <2>1
  <2>3. Len(out) + 1 \in DOMAIN out'
    BY <1>4, <2>2
  <2> QED
    BY <2>1, <2>3
<1>7. Types'
  BY <1>1, <1>2, <1>3 DEF Inv, Types
<1>8. Behind'
  <2> SUFFICES ASSUME NEW i \in 1..next, written[i].id PROVE Answered(i)'
    BY <1>1, <1>2 DEF Behind, Answered
  <2>1. CASE i = next
    BY <1>6, <2>1 DEF Line, Answered
  <2>2. CASE i # next
    BY <1>2, <1>5, <2>2 DEF Inv, Behind
  <2> QED
    BY <2>1, <2>2
<1>9. Reading' /\ Encoding' /\ Counts'
  BY <1>1, <1>2, <1>3 DEF Inv, Reading, Encoding, Counts, Handling
<1>10. Ended'
  BY <1>1 DEF Inv, Ended, Handling
<1> QED
  BY <1>7, <1>8, <1>9, <1>10 DEF Inv

LEMMA SkipInv == ASSUME Inv, Skip PROVE Inv'
<1>1. ~Line.id
  <2>1. Line \in Lines
    BY ElementOfSeq, LenProperties
    DEF Inv, Types, Reading, Skip, Line, Handling
  <2> QED
    BY <2>1 DEF Skip, Lines
<1> QED
  BY <1>1, NextLineInv DEF Skip, Handling, answers

LEMMA AnswerGarbledInv == ASSUME Inv, AnswerGarbled PROVE Inv'
<1>1. pc = "line" /\ ~Line.id
  <2>1. Line \in Lines
    BY ElementOfSeq, LenProperties
    DEF Inv, Types, Reading, AnswerGarbled, Line, Handling
  <2> QED
    BY <2>1 DEF AnswerGarbled, Lines
<1>2. [to |-> 0, is |-> "error"] \in Results
  BY MaxLinesAssumption DEF Results
<1>3. CASE NextLine /\ UNCHANGED exit
  BY <1>1, <1>2, <1>3, NextLineInv DEF AnswerGarbled, Handling
<1>4. CASE Killed /\ UNCHANGED <<out, next>>
  BY <1>1, <1>4, LoopInv
  DEF AnswerGarbled, Killed, answers, platform, Inv, Types
<1> QED
  BY <1>3, <1>4 DEF AnswerGarbled

LEMMA OutcomeInv ==
    ASSUME Inv, HandleOther \/ CallSucceeds \/ CallFails PROVE Inv'
<1>1. PICK w \in {"ok", "error"} : Outcome(w)
  BY DEF HandleOther, CallSucceeds, CallFails
<1>2. /\ UNCHANGED <<written, eof, deaf, stalled, signalled, exit, next, out, sent,
                     performed>>
      /\ pc \in Handling \ {"encode"} /\ pc' = "encode"
  BY <1>1
  DEF HandleOther, CallSucceeds, CallFails, client, platform, Request,
      Outcome, Handling
<1> DEFINE r == [to |-> next, is |-> w]
<1>3. /\ next \in Nat \ {0} /\ next <= Len(written) /\ Len(written) \in Nat
      /\ Len(outcomes) \in Nat /\ Len(outcomes) < next
  BY <1>2, LenProperties DEF Inv, Types, Reading, Counts, Handling
<1>4. r \in Results /\ r.to = next
  BY <1>3, MaxLinesAssumption DEF Inv, Types, Results
<1>5. /\ outcomes' \in Seq(Results) /\ Len(outcomes') = Len(outcomes) + 1
      /\ outcomes'[Len(outcomes) + 1] = r
  BY <1>1, <1>4, AppendProperties DEF Inv, Types, Outcome
<1> HIDE DEF r
<1>6. Types' /\ Reading' /\ Behind' /\ Ended'
  BY <1>2, <1>3, <1>5
  DEF Inv, Types, Reading, Behind, Answered, Ended, Handling
<1>7. Encoding' /\ Counts'
  BY <1>2, <1>3, <1>4, <1>5 DEF Inv, Encoding, Counts
<1> QED
  BY <1>6, <1>7 DEF Inv

LEMMA EncodeInv == ASSUME Inv, Encode PROVE Inv'
<1>1. /\ pc = "encode" /\ Len(outcomes) \in Nat \ {0}
      /\ Last(outcomes).to = next
  BY LenProperties DEF Inv, Types, Encoding, Encode, Last
<1>2. Last(outcomes) \in Results
  BY <1>1, ElementOfSeq DEF Inv, Types, Last
<1>3. CASE NextLine /\ UNCHANGED exit /\ out' = Append(out, Last(outcomes))
  BY <1>1, <1>2, <1>3, NextLineInv DEF Encode, Handling
<1>4. CASE (Return(TRUE) \/ Killed) /\ UNCHANGED <<out, next>>
  BY <1>1, <1>4, LoopInv
  DEF Encode, Return, Killed, answers, platform, Inv, Types
<1> QED
  BY <1>3, <1>4 DEF Encode

LEMMA NextInv == Inv /\ [Next]_vars => Inv'
<1> SUFFICES ASSUME Inv, [Next]_vars PROVE Inv'
  OBVIOUS
<1>1. CASE Serve
  BY <1>1, ScanInv, SkipInv, AnswerGarbledInv, OutcomeInv, CallInv, EncodeInv
  DEF Serve
<1>2. ASSUME pc # "exited", \/ CloseInput \/ CloseOutput
                             \/ StopReading \/ Signal
      PROVE  Inv'
  BY <1>2, AroundInv
  DEF CloseInput, CloseOutput, StopReading, Signal, client, loop, answers,
      platform, Inv, Types
<1>3. ASSUME NEW i \in 1..MaxLines, Perform(i) PROVE Inv'
  BY <1>3, AroundInv DEF Perform, client, loop, answers, Inv, Types
<1>4. CASE UNCHANGED vars
  BY <1>4, AroundInv DEF vars, client, loop, answers, platform, Inv, Types
<1> QED
  BY <1>1, <1>2, <1>3, <1>4, WriteLineInv DEF Next

LEMMA Invariance == Spec => []Inv
<1> QED
  BY InitInv, NextInv, PTL DEF Spec

-----------------------------------------------------------------------------
\* The loop keeps its types, and has at most one outcome and one answer for
\* each line it read (server.go, lines 31-56).
THEOREM TypeCorrect == Spec => []TypeOK
<1>1. ASSUME Inv PROVE TypeOK
  <2>1. /\ \A s \in {outcomes, out} :
              Len(s) <= MaxLines /\ Range(s) \subseteq Results
        /\ Range(written) \subseteq Lines
    <3>1. Len(outcomes) <= MaxLines /\ Len(out) <= MaxLines
      BY <1>1, LenProperties, MaxLinesAssumption
      DEF Inv, Types, Reading, Counts
    <3> QED
      BY <1>1, <3>1, RangeOfSeq DEF Inv, Types
  <2>2. next \in 1..(MaxLines + 1)
    BY <1>1, LenProperties, MaxLinesAssumption DEF Inv, Types, Reading
  <2> QED
    BY <1>1, <2>1, <2>2 DEF Inv, Types, Handling, Ended, TypeOK
<1> QED
  BY <1>1, Invariance, PTL

\* However many lines there are, and whenever the signal comes or a pipe
\* breaks, the answers to the lines before the one in hand have been written,
\* and without a signal only the end of the input is a good end.
THEOREM NoAnswerIsLost == Spec => []AnsweredBeforeReadingOn
<1>1. ASSUME Inv PROVE AnsweredBeforeReadingOn
  <2>1. exit = "ok" /\ ~signalled => DOMAIN written = 1..(next - 1)
    BY <1>1, LenProperties DEF Inv, Types, Ended
  <2>2. exit = "ok" => eof \/ signalled
    BY <1>1 DEF Inv, Ended
  <2>3. \A i \in Due : written[i].id => Answered(i)
    BY <1>1, <2>1 DEF Inv, Behind, Due
  <2> QED
    BY <2>2, <2>3 DEF AnsweredBeforeReadingOn
<1> QED
  BY <1>1, Invariance, PTL

-----------------------------------------------------------------------------
(***************************************************************************)
(* The measures of LoopAdvances: what a step of the loop does to pc and    *)
(* next, and what is around it does to neither.                            *)
(***************************************************************************)
LoopVars == <<loop, answers, sent>>

\* The steps of the loop, by what they do to the line in hand.
OnePlaceOn ==
    \/ pc = "scan" /\ pc' = "line" /\ next' = next /\ ~signalled
    \/ /\ pc \in {"line", "calling", "sent"} /\ next' = next
       /\ pc' \in {"calling", "sent", "encode"} /\ InLine' < InLine
    \/ pc \in {"line", "encode"} /\ pc' = "scan" /\ next' = next + 1
    \/ pc # "exited" /\ pc' = "exited"

LEMMA ServeMovesOn ==
    ASSUME Inv, Serve PROVE OnePlaceOn /\ UNCHANGED <<written, signalled>>
<1>1. CASE Scan \/ ScanEnds
  BY <1>1 DEF Scan, ScanEnds, Return, OnePlaceOn, client
<1>2. CASE Skip \/ AnswerGarbled
  BY <1>2 DEF Skip, AnswerGarbled, NextLine, Killed, OnePlaceOn, client
<1>3. CASE HandleOther
  BY <1>3 DEF HandleOther, Request, Outcome, OnePlaceOn, InLine, client
<1>4. CASE CallTool \/ Send
  BY <1>4 DEF CallTool, Send, Request, OnePlaceOn, InLine, client
<1>5. CASE CallSucceeds \/ CallFails
  BY <1>5 DEF CallSucceeds, CallFails, Outcome, OnePlaceOn, InLine, client
<1>6. CASE Encode
  BY <1>6 DEF Encode, NextLine, Return, Killed, OnePlaceOn, client
<1> QED
  BY <1>1, <1>2, <1>3, <1>4, <1>5, <1>6 DEF Serve

\* The client, the signal and the platform leave the loop where it is.
LEMMA AroundStays == Next /\ ~Serve => UNCHANGED LoopVars
BY DEF Next, LoopVars, CloseInput, CloseOutput, StopReading, Signal, WriteLine,
       Perform, platform

\* However the calls end and whatever closes, the lines that were written are
\* handled in five steps each, and after a signal the line in hand is the last.
THEOREM LoopIsBounded == Spec => LoopAdvances
<1>1. ASSUME Inv, Serve PROVE StepsLeft' \in 0..(StepsLeft - 1)
  <2>1. /\ next \in Nat \ {0} /\ Len(written) \in Nat
        /\ next <= Len(written) + 1
        /\ pc \in {"scan", "exited"} \cup Handling
        /\ pc \in Handling => next <= Len(written)
    BY <1>1, LenProperties DEF Inv, Types, Reading
  <2>2. Len(written') = Len(written) /\ OnePlaceOn
    BY <1>1, ServeMovesOn
  <2>3. CASE pc = "scan" /\ pc' = "line" /\ next' = next
    BY <2>1, <2>2, <2>3 DEF StepsLeft, InLine
  <2>4. CASE /\ pc \in {"line", "calling", "sent"} /\ next' = next
             /\ pc' \in {"calling", "sent", "encode"} /\ InLine' < InLine
    BY <2>1, <2>2, <2>4 DEF StepsLeft, InLine, Handling
  <2>5. CASE pc \in {"line", "encode"} /\ pc' = "scan" /\ next' = next + 1
    BY <2>1, <2>2, <2>5 DEF StepsLeft, InLine, Handling
  <2>6. CASE pc # "exited" /\ pc' = "exited"
    BY <2>1, <2>2, <2>6 DEF StepsLeft, InLine, Handling
  <2> QED
    BY <2>2, <2>3, <2>4, <2>5, <2>6 DEF OnePlaceOn
<1>2. ASSUME Inv, Serve, signalled
      PROVE  StepsAfterSignal' \in 0..(StepsAfterSignal - 1)
  <2>1. OnePlaceOn
    BY <1>2, ServeMovesOn
  <2> QED
    BY <1>2, <2>1 DEF OnePlaceOn, StepsAfterSignal, InLine, Inv, Types, Handling
<1> DEFINE A == /\ StepsLeft' \in 0..(StepsLeft - 1)
                /\ signalled => StepsAfterSignal' \in 0..(StepsAfterSignal - 1)
<1>3. Inv /\ [Next]_vars => [A]_LoopVars
  BY <1>1, <1>2, AroundStays DEF vars, LoopVars, platform
<1> QED
  BY <1>3, Invariance, PTL DEF Spec, LoopAdvances, LoopVars

-----------------------------------------------------------------------------
(***************************************************************************)
(* Named is defined by recursion.  Its equations are proved by induction   *)
(* in first-order form: a set of numbers that lacks one has a least one it *)
(* lacks, because the order of the natural numbers is well founded.        *)
(***************************************************************************)
LEMMA NatByInduction ==
    ASSUME NEW T, 0 \in T, \A n \in Nat : n \in T => n + 1 \in T
    PROVE  Nat \subseteq T
<1> DEFINE R == OpToRel(<, Nat)
           C == Nat \ T
<1> SUFFICES ASSUME C # {} PROVE FALSE
  OBVIOUS
<1>1. IsWellFoundedOn(R, Nat)
  BY NatLessThanWellFounded
<1>2. C \subseteq Nat
  OBVIOUS
<1>3. PICK x \in C : \A y \in C : <<y, x>> \notin R
  <2> HIDE DEF R, C
  <2> QED
    BY <1>1, <1>2, WFMin
<1>4. \A y \in C : ~(y < x)
  BY <1>3 DEF OpToRel
<1>5. x \in Nat /\ x # 0 /\ x = (x - 1) + 1
  OBVIOUS
<1>6. x - 1 \in T
  BY <1>4, <1>5
<1> QED
  BY <1>5, <1>6

\* One step of Named's recursion.
Extend(s, k, t) == IF s[k].to = 0 THEN t ELSE Append(t, s[k])

\* f is the function that the recursion over s defines, as far as n.
Unrolled(s, n, f) ==
    /\ f \in [0..n -> Seq(Results)]
    /\ f[0] = <<>>
    /\ \A k \in 1..n : f[k] = Extend(s, k, f[k - 1])

LEMMA UnrolledExists ==
    ASSUME NEW s \in Seq(Results) PROVE \E f : Unrolled(s, Len(s), f)
<1> DEFINE T == {n \in Nat : n <= Len(s) => \E f : Unrolled(s, n, f)}
<1>1. 0 \in T
  <2>1. Unrolled(s, 0, [k \in 0..0 |-> <<>>])
    BY EmptySeq DEF Unrolled
  <2> QED
    BY <2>1
<1>2. ASSUME NEW n \in Nat, n \in T, n + 1 <= Len(s)
      PROVE  \E f : Unrolled(s, n + 1, f)
  <2>1. PICK f : Unrolled(s, n, f)
    BY <1>2, LenProperties
  <2> DEFINE m == n + 1
             g == [k \in 0..m |-> IF k <= n THEN f[k] ELSE Extend(s, m, f[n])]
  <2>2. s[m] \in Results /\ f[n] \in Seq(Results)
    BY <1>2, <2>1, ElementOfSeq, LenProperties DEF Unrolled
  <2>3. Extend(s, m, f[n]) \in Seq(Results)
    BY <2>2, AppendProperties DEF Extend
  <2>4. g \in [0..m -> Seq(Results)] /\ g[0] = <<>>
    BY <2>1, <2>3 DEF Unrolled
  <2>5. ASSUME NEW k \in 1..m PROVE g[k] = Extend(s, k, g[k - 1])
    BY <2>1 DEF Unrolled
  <2> QED
    BY <2>4, <2>5 DEF Unrolled
<1>3. \A n \in Nat : n \in T => n + 1 \in T
  BY <1>2
<1>4. Nat \subseteq T
  <2> HIDE DEF T
  <2> QED
    BY <1>1, <1>3, NatByInduction
<1> QED
  BY <1>4, LenProperties

LEMMA UnrolledAgree ==
    ASSUME NEW s, NEW t, NEW n \in Nat, \A k \in 1..n : s[k] = t[k],
           NEW f, NEW g, NEW m \in Nat, n <= m,
           Unrolled(s, n, f), Unrolled(t, m, g)
    PROVE  f[n] = g[n]
<1> DEFINE T == {k \in Nat : k <= n => f[k] = g[k]}
<1>1. 0 \in T
  BY DEF Unrolled
<1>2. ASSUME NEW k \in Nat, k \in T PROVE k + 1 \in T
  <2> SUFFICES ASSUME k + 1 <= n PROVE f[k + 1] = g[k + 1]
    OBVIOUS
  <2>1. f[k] = g[k] /\ s[k + 1] = t[k + 1]
    BY <1>2
  <2>2. /\ f[k + 1] = Extend(s, k + 1, f[k])
        /\ g[k + 1] = Extend(t, k + 1, g[k])
    <3>1. k + 1 \in 1..n /\ k + 1 \in 1..m /\ (k + 1) - 1 = k
      OBVIOUS
    <3>2. f[k + 1] = Extend(s, k + 1, f[(k + 1) - 1])
      BY <3>1 DEF Unrolled
    <3>3. g[k + 1] = Extend(t, k + 1, g[(k + 1) - 1])
      BY <3>1 DEF Unrolled
    <3> QED
      BY <3>1, <3>2, <3>3
  <2> QED
    BY <2>1, <2>2 DEF Extend
<1>3. Nat \subseteq T
  <2> HIDE DEF T
  <2> QED
    BY <1>1, <1>2, NatByInduction
<1> QED
  BY <1>3

LEMMA NamedUnrolled ==
    ASSUME NEW s \in Seq(Results)
    PROVE  \E f : Unrolled(s, Len(s), f) /\ Named(s) = f[Len(s)]
<1> DEFINE Rec(f) == [k \in 0..Len(s) |->
                        IF k = 0 THEN <<>>
                        ELSE IF s[k].to = 0 THEN f[k - 1]
                        ELSE Append(f[k - 1], s[k])]
           f == CHOOSE h : h = Rec(h)
<1>1. PICK g : Unrolled(s, Len(s), g)
  BY UnrolledExists
<1>2. g = Rec(g)
  <2>1. g = [k \in 0..Len(s) |-> g[k]]
    BY <1>1 DEF Unrolled
  <2>2. ASSUME NEW k \in 0..Len(s)
        PROVE  g[k] = IF k = 0 THEN <<>>
                      ELSE IF s[k].to = 0 THEN g[k - 1]
                      ELSE Append(g[k - 1], s[k])
    <3>1. k = 0 \/ k \in 1..Len(s)
      BY LenProperties
    <3> QED
      BY <1>1, <3>1 DEF Unrolled, Extend
  <2> QED
    BY <2>1, <2>2, Zenon
<1>3. f = Rec(f)
  <2> HIDE DEF Rec
  <2> QED
    BY <1>2
<1>4. Named(s) = f[Len(s)]
  BY DEF Named
<1>5. f[Len(s)] = g[Len(s)]
  <2> HIDE DEF f
  <2> DEFINE T == {k \in Nat : k <= Len(s) => f[k] = g[k]}
  <2>1. Len(s) \in Nat
    BY LenProperties
  <2>2. 0 \in T
    BY <1>1, <1>3, <2>1 DEF Unrolled
  <2>3. ASSUME NEW k \in Nat, k \in T PROVE k + 1 \in T
    <3> SUFFICES ASSUME k + 1 <= Len(s) PROVE f[k + 1] = g[k + 1]
      OBVIOUS
    <3>1. f[k] = g[k] /\ k + 1 \in 0..Len(s) /\ k + 1 # 0 /\ (k + 1) - 1 = k
      BY <2>1, <2>3
    <3>2. f[k + 1] = Rec(f)[k + 1] /\ g[k + 1] = Rec(g)[k + 1]
      <4> HIDE DEF Rec
      <4> QED
        BY <1>2, <1>3
    <3> QED
      BY <3>1, <3>2
  <2>4. Nat \subseteq T
    <3> HIDE DEF T
    <3> QED
      BY <2>2, <2>3, NatByInduction
  <2> QED
    BY <2>1, <2>4
<1> QED
  BY <1>1, <1>4, <1>5

\* The two equations by which Named is used.
LEMMA NamedEmpty == Named(<<>>) = <<>>
<1>1. <<>> \in Seq(Results) /\ Len(<<>>) = 0
  BY EmptySeq
<1>2. PICK f : Unrolled(<<>>, 0, f) /\ Named(<<>>) = f[0]
  BY <1>1, NamedUnrolled
<1> QED
  BY <1>2 DEF Unrolled

LEMMA NamedAppend ==
    ASSUME NEW s \in Seq(Results), NEW r \in Results
    PROVE  /\ Named(s) \in Seq(Results)
           /\ Named(Append(s, r)) =
                  IF r.to = 0 THEN Named(s) ELSE Append(Named(s), r)
<1> DEFINE n == Len(s)
           t == Append(s, r)
<1>1. /\ n \in Nat /\ t \in Seq(Results) /\ Len(t) = n + 1
      /\ \A k \in 1..n : s[k] = t[k]
      /\ t[n + 1] = r
  BY LenProperties, AppendProperties
<1>2. PICK f : Unrolled(s, n, f) /\ Named(s) = f[n]
  BY NamedUnrolled
<1>3. PICK g : Unrolled(t, n + 1, g) /\ Named(t) = g[n + 1]
  BY <1>1, NamedUnrolled
<1> HIDE DEF n, t
<1>4. f[n] = g[n]
  BY <1>1, <1>2, <1>3, UnrolledAgree
<1>5. g[n + 1] = Extend(t, n + 1, g[n])
  BY <1>1, <1>3 DEF Unrolled
<1>6. f[n] \in Seq(Results)
  BY <1>1, <1>2 DEF Unrolled
<1> QED
  BY <1>1, <1>2, <1>3, <1>4, <1>5, <1>6 DEF Extend, t

-----------------------------------------------------------------------------
(***************************************************************************)
(* StdioServer implements RequestServer.  Beyond Inv, what was sent was    *)
(* sent for a write that has come up (Acting), and the client has been     *)
(* told every outcome but the one about to be written (Telling).           *)
(***************************************************************************)
Acting ==
    /\ \A i \in sent :
          i <= next /\ i <= Len(written) /\ written[i].id
                    /\ written[i].method = "write"
    /\ pc \in {"calling", "sent"} => Line.id /\ Line.method = "write"

Done == \E k \in DOMAIN outcomes : outcomes[k].to = next

Telling ==
    /\ \A k \in DOMAIN outcomes : outcomes[k].to <= next
    /\ pc \notin {"encode", "exited"} => ~Done /\ Named(out) = outcomes
    /\ pc = "encode" => Done /\ outcomes = Append(Named(out), Last(outcomes))

Asked    == [c \in {Client} |-> written]
Handled  == [c \in {Client} |-> IF Done THEN next ELSE next - 1]
Outcomes == [c \in {Client} |-> outcomes]
Told     == [c \in {Client} |-> Named(out)]
Effects  == {Client} \X performed

LEMMA InitRefining == Init => Acting /\ Telling /\ Abstract!Init
<1> SUFFICES ASSUME Init PROVE Acting /\ Telling /\ Abstract!Init
  OBVIOUS
<1>1. DOMAIN outcomes = {} /\ Named(out) = <<>>
  BY NamedEmpty DEF Init
<1>2. Acting /\ Telling
  BY <1>1 DEF Init, Acting, Telling, Done
<1>3. Abstract!Init
  BY <1>1 DEF Init, Abstract!Init
<1> QED
  BY <1>2, <1>3

\* A step that changes none of what the client is promised.
LEMMA Unseen ==
    ASSUME UNCHANGED <<written, next, outcomes, out, performed>>
    PROVE  UNCHANGED Abstract!serverVars
<1>1. UNCHANGED <<Asked, Handled, Outcomes, Told, Effects>>
  BY DEF Asked, Handled, Done, Outcomes, Told, Effects
<1> QED
  BY <1>1 DEF Abstract!serverVars, Asked, Handled, Done, Outcomes, Told,
             Effects

\* The line in hand, which nothing has been sent for or answered yet.
LEMMA InHand ==
    ASSUME Inv, pc \in Handling
    PROVE  /\ next \in Nat \ {0} /\ next <= Len(written)
           /\ Len(written) \in Nat /\ next \in 1..MaxLines
           /\ Line \in Lines
BY ElementOfSeq, LenProperties, MaxLinesAssumption
DEF Inv, Types, Reading, Line

\* The steps within a line, and those at its end that lose an answer.
LEMMA LoopRefining ==
    ASSUME Inv, Acting, Telling,
           UNCHANGED <<written, next, outcomes, out, performed>>,
           \/ UNCHANGED sent
           \/ pc \in Handling /\ sent' = sent \cup {next} /\ Line.id
                 /\ Line.method = "write",
           pc' \in {"calling", "sent"} => Line.id /\ Line.method = "write",
           \/ pc' = "exited"
           \/ pc \notin {"encode", "exited"} /\ pc' \notin {"encode", "exited"}
    PROVE  Acting' /\ Telling' /\ UNCHANGED Abstract!serverVars
<1>1. Acting'
  BY InHand DEF Acting, Line
<1>2. Telling'
  BY DEF Telling, Done
<1> QED
  BY <1>1, <1>2, Unseen

\* What happens around the loop.
LEMMA AroundRefining ==
    ASSUME Inv, Acting, Telling,
           UNCHANGED <<written, pc, next, outcomes, out, sent, performed>>
    PROVE  Acting' /\ Telling' /\ UNCHANGED Abstract!serverVars
<1>1. Acting' /\ Telling'
  BY DEF Acting, Telling, Done, Line
<1> QED
  BY <1>1, Unseen

LEMMA WriteLineRefining ==
    ASSUME Inv, Acting, Telling, NEW l \in Lines, WriteLine(l)
    PROVE  Acting' /\ Telling' /\ Abstract!Ask(Client)
<1>1. /\ written' = Append(written, l) /\ Len(written') = Len(written) + 1
      /\ \A i \in 1..Len(written) : written'[i] = written[i]
      /\ Len(written) \in Nat
      /\ written' = written \o <<l>>
  BY AppendProperties, LenProperties, AppendIsConcat DEF Inv, Types, WriteLine
<1>2. UNCHANGED <<pc, next, outcomes, out, sent, performed>>
  BY DEF WriteLine, loop, answers, platform
<1>3. Acting'
  <2>1. ASSUME NEW i \in sent
        PROVE  /\ i <= next /\ i <= Len(written') /\ written'[i].id
               /\ written'[i].method = "write"
    <3>1. i \in 1..Len(written)
      BY MaxLinesAssumption DEF Inv, Types, Acting
    <3> QED
      BY <1>1, <3>1 DEF Acting
  <2>2. pc \in {"calling", "sent"} => written'[next] = Line
    BY <1>1, InHand DEF Handling, Line
  <2> QED
    BY <1>2, <2>1, <2>2 DEF Acting, Line
<1>4. Telling'
  BY <1>2 DEF Telling, Done
<1>5. /\ Asked' = [Asked EXCEPT ![Client] = Asked[Client] \o <<l>>]
      /\ <<l>> \in {<<m>> : m \in Lines}
      /\ UNCHANGED <<Handled, Outcomes, Told, Effects>>
  BY <1>1, <1>2 DEF Asked, Handled, Done, Outcomes, Told, Effects
<1>6. Abstract!Ask(Client)
  BY <1>5 DEF Abstract!Ask, Asked, Handled, Done, Outcomes, Told, Effects
<1> QED
  BY <1>3, <1>4, <1>6

\* A line without an ID is passed over, whether or not it draws an error.
LEMMA IgnoreRefining ==
    ASSUME Inv, Acting, Telling, pc = "line", ~Line.id, NextLine,
           UNCHANGED <<written, outcomes, sent, performed>>,
           Named(out') = Named(out)
    PROVE  Acting' /\ Telling' /\ Abstract!Ignore(Client)
<1>1. /\ next \in Nat \ {0} /\ next <= Len(written) /\ Len(written) \in Nat
  BY InHand DEF Handling
<1>2. pc' = "scan" /\ next' = next + 1
  BY DEF NextLine
<1>3. outcomes \in Seq(Results)
  BY DEF Inv, Types
<1>4. \A k \in DOMAIN outcomes : outcomes[k].to \in Nat
  <2> TAKE k \in DOMAIN outcomes
  <2>1. outcomes[k] \in Results
    BY <1>3, ElementOfSeq, LenProperties
  <2> QED
    BY <2>1, MaxLinesAssumption DEF Results
<1>5. ~Done /\ ~Done' /\ Telling'
  BY <1>1, <1>2, <1>4 DEF Telling, Done
<1>6. Acting'
  BY <1>1, <1>2, MaxLinesAssumption DEF Acting, Inv, Types
<1>7. /\ Handled[Client] = next - 1 /\ Asked[Client] = written
      /\ Handled' = [Handled EXCEPT ![Client] = next]
      /\ UNCHANGED <<Asked, Outcomes, Told, Effects>>
  BY <1>1, <1>2, <1>5 DEF Asked, Handled, Outcomes, Told, Effects
<1>8. /\ Handled[Client] < Len(Asked[Client])
      /\ ~Asked[Client][Handled[Client] + 1].id
      /\ Handled' = [Handled EXCEPT ![Client] = Handled[Client] + 1]
  BY <1>1, <1>7 DEF Line
<1>9. Abstract!Ignore(Client)
  BY <1>7, <1>8
  DEF Abstract!Ignore, Asked, Handled, Done, Outcomes, Told, Effects
<1> QED
  BY <1>5, <1>6, <1>9

LEMMA OutcomeRefining ==
    ASSUME Inv, Acting, Telling, HandleOther \/ CallSucceeds \/ CallFails
    PROVE  /\ Acting' /\ Telling'
           /\ \E w \in {"ok", "error"} : Abstract!Answer(Client, w)
<1>1. PICK w \in {"ok", "error"} :
         /\ Outcome(w)
         /\ w = "ok" => HandleOther \/ CallSucceeds
  BY DEF HandleOther, CallSucceeds, CallFails
<1>2. /\ UNCHANGED <<written, next, out, sent, performed>>
      /\ pc \in Handling \ {"encode"} /\ pc' = "encode"
  BY <1>1
  DEF HandleOther, CallSucceeds, CallFails, client, platform, Request,
      Outcome, Handling
<1> DEFINE r == [to |-> next, is |-> w]
<1>3. /\ next \in Nat \ {0} /\ next <= Len(written) /\ Len(written) \in Nat
      /\ next \in 1..MaxLines
  BY <1>2, InHand
<1>4. r \in Results /\ r.to = next
  BY <1>3, MaxLinesAssumption DEF Results
<1>5. outcomes \in Seq(Results) /\ outcomes' = Append(outcomes, r)
  BY <1>1 DEF Inv, Types, Outcome
<1>6. /\ outcomes' \in Seq(Results) /\ Len(outcomes') = Len(outcomes) + 1
      /\ \A k \in 1..Len(outcomes) : outcomes'[k] = outcomes[k]
      /\ outcomes'[Len(outcomes) + 1] = r
      /\ Len(outcomes) \in Nat /\ DOMAIN outcomes = 1..Len(outcomes)
      /\ DOMAIN outcomes' = 1..Len(outcomes')
  BY <1>4, <1>5, AppendProperties, LenProperties
<1> HIDE DEF r
<1>7. Last(outcomes') = r /\ Named(out) = outcomes /\ ~Done
  BY <1>2, <1>6 DEF Last, Telling, Handling
<1>8. Done'
  BY <1>2, <1>4, <1>6 DEF Done
<1>9. ASSUME NEW k \in DOMAIN outcomes' PROVE outcomes'[k].to <= next
  <2>1. k \in 1..Len(outcomes) \/ k = Len(outcomes) + 1
    BY <1>6
  <2>2. CASE k \in 1..Len(outcomes)
    BY <1>6, <2>2 DEF Telling
  <2>3. CASE k = Len(outcomes) + 1
    BY <1>3, <1>4, <1>6, <2>3
  <2> QED
    BY <2>1, <2>2, <2>3
<1>10. Telling'
  BY <1>2, <1>5, <1>7, <1>8, <1>9 DEF Telling
<1>11. Acting'
  BY <1>2 DEF Acting
<1>12. /\ Line.id
       /\ Line.method = "write" /\ w = "ok" => next \in performed
  <2>1. CASE HandleOther
    BY <2>1 DEF HandleOther, Request
  <2>2. CASE ~HandleOther
    <3>1. w = "ok" => CallSucceeds
      BY <1>1, <2>2
    <3>2. Line.id
      BY <2>2 DEF CallSucceeds, CallFails, Acting
    <3> QED
      BY <3>1, <3>2 DEF CallSucceeds
  <2> QED
    BY <2>1, <2>2
<1>13. /\ Handled[Client] = next - 1 /\ Asked[Client] = written
       /\ Handled' = [Handled EXCEPT ![Client] = next]
       /\ Outcomes' = [Outcomes EXCEPT ![Client] = Append(outcomes, r)]
       /\ Outcomes[Client] = outcomes
       /\ UNCHANGED <<Asked, Told, Effects>>
  BY <1>2, <1>3, <1>5, <1>7, <1>8
  DEF Asked, Handled, Outcomes, Told, Effects
<1>14. /\ Handled[Client] + 1 = next
       /\ next <= Len(Asked[Client])
       /\ Asked[Client][next].id
       /\ w = "ok" /\ Abstract!Acts(Asked[Client][next]) =>
              <<Client, next>> \in Effects
  BY <1>3, <1>12, <1>13 DEF Line, Effects, Abstract!Acts
<1>15. Abstract!Answer(Client, w)
  BY <1>13, <1>14
  DEF r, Abstract!Answer, Asked, Handled, Done, Outcomes, Told, Effects
<1> QED
  BY <1>10, <1>11, <1>15

\* The answer about to be written is written.
LEMMA TellRefining ==
    ASSUME Inv, Acting, Telling, Encode, ~deaf
    PROVE  Acting' /\ Telling' /\ Abstract!Tell(Client)
<1>1. /\ pc = "encode" /\ pc' = "scan" /\ next' = next + 1
      /\ out' = Append(out, Last(outcomes))
      /\ UNCHANGED <<written, outcomes, sent, performed>>
  BY DEF Encode, NextLine, client, platform
<1>2. /\ next \in Nat \ {0} /\ Len(outcomes) \in Nat \ {0}
      /\ outcomes \in Seq(Results) /\ out \in Seq(Results)
      /\ Last(outcomes) = outcomes[Len(outcomes)]
  BY <1>1, LenProperties DEF Inv, Types, Encoding, Last
<1>3. Last(outcomes) \in Results /\ Last(outcomes).to # 0
  BY <1>1, <1>2, ElementOfSeq DEF Inv, Encoding
<1>4. /\ Named(out) \in Seq(Results)
      /\ Named(out') = Append(Named(out), Last(outcomes))
  BY <1>1, <1>2, <1>3, NamedAppend
<1>5. Named(out') = outcomes /\ Done
  BY <1>1, <1>4 DEF Telling
<1>6. \A k \in DOMAIN outcomes : /\ outcomes[k].to \in Nat
                                 /\ outcomes[k].to <= next
  <2> TAKE k \in DOMAIN outcomes
  <2>1. outcomes[k] \in Results
    BY <1>2, ElementOfSeq, LenProperties
  <2> QED
    BY <2>1, MaxLinesAssumption DEF Results, Telling
<1>7. ~Done' /\ Telling'
  BY <1>1, <1>2, <1>5, <1>6 DEF Telling, Done
<1>8. Acting'
  BY <1>1, <1>2, MaxLinesAssumption DEF Acting, Inv, Types
<1>9. /\ Told' = [Told EXCEPT ![Client] = outcomes]
      /\ UNCHANGED <<Asked, Handled, Outcomes, Effects>>
  BY <1>1, <1>2, <1>5, <1>7 DEF Asked, Handled, Outcomes, Told, Effects
<1>10. /\ Told[Client] = Named(out) /\ Outcomes[Client] = outcomes
       /\ Len(outcomes) \in Len(Named(out))..Len(outcomes)
       /\ SubSeq(outcomes, 1, Len(outcomes)) = outcomes
  <2>1. /\ Len(Named(out)) \in Nat
        /\ Len(Append(Named(out), Last(outcomes))) = Len(Named(out)) + 1
    <3> DEFINE said == Named(out)
               last == Last(outcomes)
    <3>1. said \in Seq(Results) /\ last \in Results
      BY <1>3, <1>4
    <3> HIDE DEF said, last
    <3>2. Len(said) \in Nat /\ Len(Append(said, last)) = Len(said) + 1
      BY <3>1, AppendProperties, LenProperties
    <3> QED
      BY <3>2 DEF said, last
  <2>2. Append(Named(out), Last(outcomes)) = outcomes
    BY <1>4, <1>5
  <2>3. Len(outcomes) = Len(Named(out)) + 1
    BY <2>1, <2>2
  <2>4. Told[Client] = Named(out) /\ Outcomes[Client] = outcomes
    BY <1>2, <1>5, <1>7 DEF Told, Outcomes
  <2>5. SubSeq(outcomes, 1, Len(outcomes)) = outcomes
    BY <1>2, SubSeqFull
  <2>6. Len(outcomes) \in Len(Named(out))..Len(outcomes)
    BY <1>2, <2>1, <2>3
  <2> QED
    BY <2>4, <2>5, <2>6
<1>11. Abstract!Tell(Client)
  <2>1. \E n \in Len(Told[Client])..Len(Outcomes[Client]) :
           Told' = [Told EXCEPT ![Client] = SubSeq(Outcomes[Client], 1, n)]
    BY <1>9, <1>10
  <2> QED
    BY <1>9, <2>1
    DEF Abstract!Tell, Asked, Handled, Done, Outcomes, Told, Effects
<1> QED
  BY <1>7, <1>8, <1>11

LEMMA PerformRefining ==
    ASSUME Inv, Acting, Telling, NEW i \in 1..MaxLines, Perform(i)
    PROVE  Acting' /\ Telling' /\ Abstract!Perform(Client)
<1>1. /\ i \in sent /\ performed' = performed \cup {i}
      /\ UNCHANGED <<written, pc, next, outcomes, out, sent>>
  BY DEF Perform, client, loop, answers
<1>2. Acting' /\ Telling'
  BY <1>1 DEF Acting, Telling, Done, Line
<1>3. /\ i \in 1..(Handled[Client] + 1) /\ i <= Len(Asked[Client])
      /\ Abstract!Acts(Asked[Client][i])
  <2>1. Handled[Client] \in {next - 1, next} /\ Asked[Client] = written
    BY DEF Handled, Asked
  <2>2. i <= next /\ next \in Nat /\ i \in Nat \ {0}
    BY <1>1, MaxLinesAssumption DEF Acting, Inv, Types
  <2> QED
    BY <1>1, <2>1, <2>2 DEF Acting, Abstract!Acts
<1>4. /\ Effects' = Effects \cup {<<Client, i>>}
      /\ UNCHANGED <<Asked, Handled, Outcomes, Told>>
  BY <1>1 DEF Effects, Asked, Handled, Done, Outcomes, Told
<1>5. Abstract!Perform(Client)
  BY <1>3, <1>4
  DEF Abstract!Perform, Asked, Handled, Done, Outcomes, Told, Effects
<1> QED
  BY <1>2, <1>5

LEMMA ServeRefining ==
    ASSUME Inv, Acting, Telling, Serve
    PROVE  /\ Acting' /\ Telling'
           /\ Abstract!Next \/ UNCHANGED Abstract!serverVars
<1>1. CASE Scan \/ ScanEnds
  BY <1>1, LoopRefining
  DEF Scan, ScanEnds, Return, client, answers, platform
<1>2. CASE CallTool
  BY <1>2, LoopRefining
  DEF CallTool, Request, client, answers, platform
<1>3. CASE Send
  BY <1>3, LoopRefining DEF Send, Acting, Handling, client, answers
<1>4. CASE Skip
  <2>1. ~Line.id
    BY <1>4, InHand DEF Skip, Lines, Handling
  <2> QED
    BY <1>4, <2>1, IgnoreRefining
    DEF Skip, client, answers, platform, Abstract!Next
<1>5. CASE AnswerGarbled
  <2>1. ~Line.id /\ pc = "line"
    BY <1>5, InHand DEF AnswerGarbled, Lines, Handling
  <2>2. CASE Killed /\ UNCHANGED <<out, next>>
    BY <1>5, <2>2, LoopRefining
    DEF AnswerGarbled, Killed, client, platform
  <2>3. CASE NextLine
    <3> DEFINE r == [to |-> 0, is |-> "error"]
    <3>1. r \in Results /\ r.to = 0
      BY MaxLinesAssumption DEF Results
    <3>2. out' = Append(out, r) \/ out' = out
      BY <1>5 DEF AnswerGarbled
    <3>3. Named(out') = Named(out)
      <4> HIDE DEF r
      <4> QED
        BY <3>1, <3>2, NamedAppend DEF Inv, Types
    <3> QED
      BY <1>5, <2>1, <2>3, <3>3, IgnoreRefining
      DEF AnswerGarbled, client, platform, Abstract!Next
  <2> QED
    BY <1>5, <2>2, <2>3 DEF AnswerGarbled
<1>6. CASE HandleOther \/ CallSucceeds \/ CallFails
  BY <1>6, OutcomeRefining DEF Abstract!Next
<1>7. CASE Encode
  <2>1. CASE ~deaf
    BY <1>7, <2>1, TellRefining DEF Abstract!Next
  <2>2. CASE deaf
    BY <1>7, <2>2, LoopRefining
    DEF Encode, Return, Killed, client, platform
  <2> QED
    BY <2>1, <2>2
<1> QED
  BY <1>1, <1>2, <1>3, <1>4, <1>5, <1>6, <1>7 DEF Serve

\* Every step is one RequestServer allows, or one the client does not see.
LEMMA StepRefining ==
    Inv /\ Acting /\ Telling /\ [Next]_vars =>
        /\ Acting' /\ Telling'
        /\ [Abstract!Next]_(Abstract!serverVars)
<1> SUFFICES ASSUME Inv, Acting, Telling, [Next]_vars
             PROVE  /\ Acting' /\ Telling'
                    /\ Abstract!Next \/ UNCHANGED Abstract!serverVars
  OBVIOUS
<1>1. CASE \/ CloseInput \/ CloseOutput \/ StopReading \/ Signal
          \/ UNCHANGED vars
  BY <1>1, AroundRefining
  DEF CloseInput, CloseOutput, StopReading, Signal, vars, client, loop, answers,
      platform
<1>2. ASSUME NEW l \in Lines, WriteLine(l)
      PROVE  Acting' /\ Telling' /\ Abstract!Next
  BY <1>2, WriteLineRefining DEF Abstract!Next
<1>3. ASSUME NEW i \in 1..MaxLines, Perform(i)
      PROVE  Acting' /\ Telling' /\ Abstract!Next
  BY <1>3, PerformRefining DEF Abstract!Next
<1> QED
  BY <1>1, <1>2, <1>3, ServeRefining DEF Next

\* For any number of lines the local server is a RequestServer: whenever the
\* signal comes and whatever the client writes or closes, its messages are
\* handled in order, only its calls act, and it is told the outcomes in order.
THEOREM ClientIsServed == Spec => ServesRequests
<1>1. Spec => [](Inv /\ Acting /\ Telling)
  <2>1. Init => Acting /\ Telling
    BY InitRefining
  <2>2. Inv /\ Acting /\ Telling /\ [Next]_vars => Acting' /\ Telling'
    BY StepRefining
  <2> QED
    BY <2>1, <2>2, Invariance, PTL DEF Spec
<1> QED
  BY <1>1, InitRefining, StepRefining, PTL
  DEF Spec, ServesRequests, Abstract!Spec
=============================================================================
