-------------------------- MODULE MCDocumentWrites --------------------------
(***************************************************************************)
(* The document each operation creates, and answers that differ in which   *)
(* object speaks, in which spelling, and in what they are silent about.    *)
(***************************************************************************)
EXTENDS DocumentWrites, TLC

CONSTANT new

Created(o) == <<new, o>>

Empty == [key \in {} |-> "no"]

Silent == [permission |-> Empty, public |-> Empty, data |-> Empty,
           raw |-> Empty]

PlatformAnswers ==
    {Silent,
     [Silent EXCEPT !.permission = "can_edit" :> "yes" @@ "canComment" :> "yes"],
     \* A document open to a group: reading and comments, no writing.
     [Silent EXCEPT !.public = "link_share_entity" :> "anyone"
                                 @@ "comment_entity" :> "anyone_can_view"],
     \* The first spelling decides, and the first object that is not empty.
     [Silent EXCEPT !.permission = "can_write" :> "no" @@ "editable" :> "yes"],
     [Silent EXCEPT !.public = "share_entity" :> "only_me"
                                 @@ "comment_entity" :> "anyone",
                    !.data = "can_view" :> "yes" @@ "can_write" :> "yes"],
     \* Writing without commenting, and a denial an entity overrides.
     [Silent EXCEPT !.data = "canEdit" :> "yes" @@ "can_comment" :> "no"],
     [Silent EXCEPT !.raw = "can_comment" :> "no"
                              @@ "comment_entity" :> "tenant_editable"]}
=============================================================================
