-------------------------- MODULE PermissionAnswer --------------------------
(***************************************************************************)
(* internal/feishu/permission.go, permissionSnapshotFromRaw: which of the  *)
(* platform's many spellings of an answer decides what an actor may do.    *)
(* An answer has four objects, each a function from the keys it has to     *)
(* their values: the permission (or capability) object and the public one  *)
(* inside data, data itself, and the whole.  Values are "yes", "no" or the *)
(* name of an entity such as "anyone", after trimming and lower-casing.    *)
(* What a lookup passes over is absent: keys with the empty string, and    *)
(* keys for the name of an entity that hold a truth value (scalarString).  *)
(***************************************************************************)
EXTENDS Naturals, Sequences

ReadKeys    == <<"can_read", "canRead", "readable", "can_view", "canView">>
WriteKeys   == <<"can_write", "canWrite", "editable", "can_edit", "canEdit">>
CommentKeys == <<"can_comment", "canComment", "commentable",
                 "can_add_comment", "canAddComment">>

ShareEntityKeys   == <<"link_share_entity", "linkShareEntity",
                       "security_entity", "securityEntity",
                       "share_entity", "shareEntity">>
CommentEntityKeys == <<"comment_entity", "commentEntity">>

Viewers == {"tenant_readable", "anyone", "anyone_can_view",
            "anyone_readable", "partner_readable"}
Editors == {"anyone_can_edit", "tenant_editable", "anyone_editable"}

orElse(object, other) == IF DOMAIN object # {} THEN object ELSE other

\* The first object that is not empty is the only one looked at.
perm(answer) ==
    orElse(answer.permission,
           orElse(answer.public, orElse(answer.data, answer.raw)))

Tells(object, key) == key \in DOMAIN object /\ object[key] \in {"yes", "no"}

\* Mutant: only an explicit no forbids.
firstBoolOrYes(object, keys) ==
    \A i \in DOMAIN keys :
        Tells(object, keys[i]) /\ (\A j \in 1..(i - 1) : ~Tells(object, keys[j]))
            => object[keys[i]] = "yes"

\* The first key that says yes or no decides; none means no.
firstBool(object, keys) ==
    \E i \in DOMAIN keys : /\ Tells(object, keys[i])
                           /\ object[keys[i]] = "yes"
                           /\ \A j \in 1..(i - 1) : ~Tells(object, keys[j])

\* firstString, for the keys that name an entity.
EntityIn(object, keys, entities) ==
    \E i \in DOMAIN keys :
        /\ keys[i] \in DOMAIN object
        /\ object[keys[i]] \in entities
        /\ \A j \in 1..(i - 1) : keys[j] \notin DOMAIN object

CanRead(answer) ==
    \/ firstBool(perm(answer), ReadKeys)
    \/ EntityIn(perm(answer), ShareEntityKeys, Viewers)

CanWrite(answer) == firstBool(perm(answer), WriteKeys)

\* A comment entity counts also against an explicit no.
CanComment(answer) ==
    \/ firstBool(perm(answer), CommentKeys)
    \/ EntityIn(perm(answer), CommentEntityKeys, Editors)
    \/ EntityIn(perm(answer), CommentEntityKeys, Viewers) /\ CanRead(answer)
=============================================================================
