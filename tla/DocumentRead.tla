---------------------------- MODULE DocumentRead ----------------------------
(***************************************************************************)
(* internal/feishu/service.go: one ReadDocumentWithActor.  readChildren    *)
(* walks the tree of blocks depth first; it asks for the children of a     *)
(* block page by page, counts every block it meets against one limit for   *)
(* the whole document, and goes down to a depth limit.  A page that cannot *)
(* be read fails the list it belongs to: the whole read at the top, a      *)
(* warning and the loss of that list further down.                         *)
(*                                                                         *)
(* The recursion is a stack of its frames.  A result is the sequence of    *)
(* its blocks in document order, the order of the markdown export.  The    *)
(* document does not change while it is read, and the platform's has_more  *)
(* is right.                                                               *)
(***************************************************************************)
EXTENDS Integers, Sequences, SequencesExt

CONSTANTS
    Root,           \* the document itself, whose children are its top blocks
    Blocks,         \* block IDs
    Nameless,       \* those that stand for blocks the platform gave no ID
    Trees,          \* documents: the children of Root and of each block, as
                    \* far as they can be asked for
    PageSize,       \* most children in a page, 500
    DocMaxBlocks,   \* cfg.DocMaxBlocks
    DocMaxDepth,    \* cfg.DocMaxDepth
    AskedBlocks,    \* maxBlocks of the requests
    AskedDepths     \* maxDepth of the requests

ASSUME LimitsAssumption ==
    /\ PageSize \in Nat \ {0}
    /\ DocMaxBlocks \in Nat
    /\ DocMaxDepth \in Nat
    /\ AskedBlocks \subseteq Int
    /\ AskedDepths \subseteq Int
ASSUME TreeAssumption ==
    /\ Root \notin Blocks
    /\ Nameless \subseteq Blocks
    /\ Trees \subseteq [Blocks \cup {Root} -> Seq(Blocks)]
    /\ \A tree \in Trees, b \in Nameless : tree[b] = <<>>

VARIABLES
    children,   \* the document
    maxBlocks,  \* readState.maxBlocks and maxDepth
    maxDepth,
    stack,      \* frames of readChildren, the innermost last
    seen,       \* readState.seen
    truncated,  \* readState.truncated
    warnings,   \* blocks readState.warnings speaks of
    result,     \* the blocks returned
    answer      \* how the read ended

limits == <<children, maxBlocks, maxDepth>>
vars == <<limits, stack, seen, truncated, warnings, result, answer>>

\* Zero and negative limits stand for the configured one.
Clamp(asked, limit) == IF asked <= 0 \/ asked > limit THEN limit ELSE asked

\* A frame: next child to ask for (pageToken), children of the current page
\* still to do, whether there are more pages, and the blocks so far.
Frame(b) == [block |-> b, from |-> 1, page |-> <<>>, more |-> TRUE,
             out |-> <<>>]

Init ==
    /\ children \in Trees
    /\ \E asked \in AskedBlocks : maxBlocks = Clamp(asked, DocMaxBlocks)
    /\ \E asked \in AskedDepths : maxDepth = Clamp(asked, DocMaxDepth)
    /\ stack = <<>>
    /\ seen = 0
    /\ truncated = FALSE
    /\ warnings = {}
    /\ result = <<>>
    /\ answer = "none"

top == Last(stack)

depth == Len(stack) - 1

\* Replace the innermost frame.
Become(f) == stack' = [stack EXCEPT ![Len(stack)] = f]

\* A block without an ID may well have some.
HasChildren(b) == children[b] # <<>> \/ b \in Nameless

Descends(b) == b \notin Nameless /\ HasChildren(b) /\ depth < maxDepth

\* Mutant: one block too many.
FullTooLate == seen > maxBlocks

Full == seen >= maxBlocks

Running == answer = "none" /\ stack # <<>>

\* Resolve, CanonicalizeIdentity and the metadata request come first.
Begin ==
    /\ answer = "none"
    /\ stack = <<>>
    /\ \/ stack' = <<Frame(Root)>> /\ UNCHANGED answer
       \/ answer' = "error" /\ UNCHANGED stack
    /\ UNCHANGED <<limits, seen, truncated, warnings, result>>

\* Mutant: the next page is asked for with the same token.
PageAgain(n) ==
    /\ Running
    /\ top.page = <<>>
    /\ top.more
    /\ ~Full
    /\ LET all == children[top.block]
       IN  /\ n <= Len(all)
           /\ n = 0 => all = <<>>
           /\ Become([top EXCEPT !.page = SubSeq(all, 1, n),
                                 !.more = n < Len(all)])
    /\ UNCHANGED <<limits, seen, truncated, warnings, result, answer>>

\* The current page is done and another one is asked for: a page is not
\* empty unless it is the only one.
Page(n) ==
    /\ Running
    /\ top.page = <<>>
    /\ top.more
    /\ ~Full
    /\ LET all == children[top.block]
           to  == top.from + n - 1
       IN  /\ to <= Len(all)
           /\ n = 0 => all = <<>>
           /\ Become([top EXCEPT !.from = to + 1,
                                 !.page = SubSeq(all, top.from, to),
                                 !.more = to < Len(all)])
    /\ UNCHANGED <<limits, seen, truncated, warnings, result, answer>>

\* Mutant: the limit is noticed but the loop over the pages goes on.
TruncateGoesOn ==
    /\ Running
    /\ Full
    /\ top.more \/ top.page # <<>>
    /\ truncated' = TRUE
    /\ UNCHANGED <<limits, stack, seen, warnings, result, answer>>

\* The block limit is met before a page is asked for, or before a block of
\* it is looked at: the list ends here.
Truncate ==
    /\ Running
    /\ Full
    /\ top.more \/ top.page # <<>>
    /\ truncated' = TRUE
    /\ Become([top EXCEPT !.page = <<>>, !.more = FALSE])
    /\ UNCHANGED <<limits, seen, warnings, result, answer>>

\* Mutant: the block that fills the limit counts as a cut.
TakeBlockAsCut ==
    /\ Running
    /\ top.page # <<>>
    /\ ~Full
    /\ ~Descends(Head(top.page))
    /\ seen' = seen + 1
    /\ truncated' = (truncated \/ seen + 1 >= maxBlocks)
    /\ Become([top EXCEPT !.page = Tail(@), !.out = Append(@, Head(top.page))])
    /\ UNCHANGED <<limits, warnings, result, answer>>

\* A block without children or without an ID, or at the depth limit: it is
\* only appended.
TakeBlock ==
    /\ Running
    /\ top.page # <<>>
    /\ ~Full
    /\ ~Descends(Head(top.page))
    /\ seen' = seen + 1
    /\ Become([top EXCEPT !.page = Tail(@), !.out = Append(@, Head(top.page))])
    /\ UNCHANGED <<limits, truncated, warnings, result, answer>>

\* A block with children: readChildren calls itself.
Descend ==
    /\ Running
    /\ top.page # <<>>
    /\ ~Full
    /\ Descends(Head(top.page))
    /\ seen' = seen + 1
    /\ stack' = Append([stack EXCEPT ![Len(stack)].page = Tail(@)],
                       Frame(Head(top.page)))
    /\ UNCHANGED <<limits, truncated, warnings, result, answer>>

\* The frame returns out; its block was met by the frame below, and is
\* appended there with these children.
PopWith(out) ==
    LET rest == Front(stack)
    IN  stack' = [rest EXCEPT ![Len(rest)].out = @ \o <<top.block>> \o out]

\* The list is complete: no more pages.
ReturnList ==
    /\ Running
    /\ top.page = <<>>
    /\ ~top.more
    /\ IF depth = 0
       THEN stack' = <<>> /\ result' = top.out /\ answer' = "ok"
       ELSE PopWith(top.out) /\ UNCHANGED <<result, answer>>
    /\ UNCHANGED <<limits, seen, truncated, warnings>>

\* Mutant: a list that could not be read further down is passed over.
PageFailsSilently ==
    /\ Running
    /\ top.page = <<>>
    /\ top.more
    /\ ~Full
    /\ IF depth = 0
       THEN stack' = <<>> /\ answer' = "error"
       ELSE PopWith(<<>>) /\ UNCHANGED answer
    /\ UNCHANGED <<limits, seen, truncated, warnings, result>>

\* A page could not be read: what the list had so far is dropped.
PageFails ==
    /\ Running
    /\ top.page = <<>>
    /\ top.more
    /\ ~Full
    /\ IF depth = 0
       THEN stack' = <<>> /\ answer' = "error" /\ UNCHANGED warnings
       ELSE /\ PopWith(<<>>)
            /\ warnings' = warnings \cup {top.block}
            /\ UNCHANGED answer
    /\ UNCHANGED <<limits, seen, truncated, result>>

Step ==
    \/ Begin \/ Truncate \/ TakeBlock \/ Descend \/ ReturnList \/ PageFails
    \/ \E n \in 0..PageSize : Page(n)

\* The read has ended; a server goes on to other requests.
Ended == answer # "none" /\ UNCHANGED vars

Next == Step \/ Ended

Spec == Init /\ [][Next]_vars

\* Every request of a page is answered or times out.
FairSpec == Spec /\ WF_vars(Step)

-----------------------------------------------------------------------------
\* The blocks under each block of a document in document order, that many
\* levels of them.
Preorder(tree) ==
    LET under[levels \in 0..(DocMaxDepth + 1)] ==
            [b \in Blocks \cup {Root} |->
                IF levels = 0 THEN <<>>
                ELSE FlattenSeq([i \in DOMAIN tree[b] |->
                        <<tree[b][i]>> \o under[levels - 1][tree[b][i]]])]
    IN  under

DocumentOrder == Preorder(children)[maxDepth + 1][Root]

\* The blocks under a block, as far down as any read goes.
Under(tree, b) ==
    LET reach[levels \in 0..(DocMaxDepth + 1)] ==
            IF levels = 0 THEN {b}
            ELSE UNION {ToSet(tree[x]) : x \in reach[levels - 1]}
    IN  UNION {reach[levels] : levels \in 1..(DocMaxDepth + 1)}

Frames == [block : Blocks \cup {Root}, from : Nat, page : Seq(Blocks),
           more : BOOLEAN, out : Seq(Blocks)]

\* The state of the recursion; it never goes deeper than maxDepth.
TypeOK ==
    /\ children \in Trees
    /\ maxBlocks \in 0..DocMaxBlocks
    /\ maxDepth \in 0..DocMaxDepth
    /\ stack \in Seq(Frames)
    /\ Len(stack) <= maxDepth + 1
    /\ seen \in 0..maxBlocks
    /\ truncated \in BOOLEAN
    /\ warnings \subseteq Blocks
    /\ result \in Seq(Blocks)
    /\ answer \in {"none", "ok", "error"}

\* A read without warnings is the document down to the depth limit, cut at
\* the block limit: of what can be asked for nothing is missing in the middle,
\* doubled or out of order, however the platform pages (lines 265-304).
CutAtTheLimit ==
    answer = "ok" /\ warnings = {} =>
        /\ IsPrefix(result, DocumentOrder)
        /\ Len(result) = Min({maxBlocks, Len(DocumentOrder)})

\* A block that could be asked for and is missing from the answer was cut off
\* by the block limit, which the answer says, or lies under a block that has a
\* warning (lines 282-297).
MissingIsExplained ==
    answer = "ok" =>
        \A b \in ToSet(DocumentOrder) \ ToSet(result) :
            truncated \/ \E w \in warnings : b \in Under(children, w)

\* truncated is not set without cause: the limit was used up, and blocks are
\* missing, unless FEISHU_DOC_MAX_BLOCKS allows none: then the answer of an
\* empty document says truncated too (lines 265-286).
TruncatedIsTrue ==
    answer = "ok" /\ truncated =>
        /\ seen = maxBlocks
        /\ Len(result) < Len(DocumentOrder) \/ maxBlocks = 0

\* What is left of a read: five steps for each block that may still be met,
\* three for each list that is open, less where the innermost page stands.
PageLeft(f) == IF f.page # <<>> THEN 2 ELSE IF f.more THEN 3 ELSE 1

StepsLeft ==
    IF answer # "none" THEN 0
    ELSE IF stack = <<>> THEN 5 * maxBlocks + 7
    ELSE 5 * (maxBlocks - seen) + 3 * Len(stack) + PageLeft(top)

\* Every step brings the end nearer: whatever the size and the shape of the
\* document, however the platform pages it and whichever pages fail, a read
\* is over after 5 * maxBlocks + 7 steps, its requests among them (lines
\* 265-304).
ReadAdvances == [][StepsLeft' \in 0..(StepsLeft - 1)]_vars

\* The read ends, with a list or an error (lines 272-303).
ReadEnds == <>(answer # "none")

-----------------------------------------------------------------------------
\* service.go:260-263 reports a depth limit that was met, as truncated and
\* with the warning "max depth reached at block"; the specification (doc/
\* feishu-doc-module-sdd-spec.md:221) asks that no content is lost silently.
DepthLimitIsReported ==
    answer = "ok" /\ ~truncated /\ warnings = {} =>
        \A b \in ToSet(result) : Under(children, b) \subseteq ToSet(result)
=============================================================================
