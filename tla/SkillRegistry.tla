--------------------------- MODULE SkillRegistry ---------------------------
(***************************************************************************)
(* Loading the skill manifests: LoadRegistryWithOptions and what it calls  *)
(* in internal/skills/registry.go.  The configured directories are         *)
(* resolved and sorted, the manifest files under each are sorted and       *)
(* loaded one by one, and the first error discards everything.             *)
(*                                                                         *)
(* The file system is a tree that does not change while it is read: the    *)
(* place each configured directory resolves to, the manifest files found   *)
(* under a place, whether all below it can be listed, the place each file  *)
(* leads to when symbolic links are followed, the places that lie within a *)
(* root, and what is in them.                                              *)
(* Parsing and Manifest.Validate decide only whether a file is a manifest  *)
(* (what a valid one may hold is SkillRun's).                              *)
(***************************************************************************)
EXTENDS Naturals, Sequences, Functions

CONSTANTS
    Places,     \* paths, as numbers in the order of sort.Strings
    Names,      \* skill names
    Trees,      \* file systems
    Configured  \* values of FEISHU_SKILLS_DIRS: sequences of directories

Nowhere == 0        \* a directory or link that does not resolve

NotAManifest == [name |-> "none", write |-> FALSE]

TreeOK(t) ==
    /\ \A d \in DOMAIN t.root : t.root[d] \in Places \cup {Nowhere}
    /\ \A p \in Places :
          /\ t.target[p] \in Places \cup {Nowhere}
          /\ t.holds[p] \in [name : Names, write : BOOLEAN]
                              \cup {NotAManifest}
          /\ t.found[p] \subseteq t.within[p]
          /\ t.within[p] \subseteq Places
          /\ t.listed[p] \in BOOLEAN

ASSUME TreeAssumption ==
    /\ Places \subseteq Nat \ {0}
    /\ \A t \in Trees : TreeOK(t)
    /\ \A t \in Trees, d \in Configured : d \in Seq(DOMAIN t.root)

VARIABLES
    tree,
    dirs,           \* cfg.SkillDirs
    enableWrite,    \* cfg.SkillsEnableWrite
    loading,        \* "idle", "roots", "files", "loaded" or "failed"
    roots,          \* the place each directory resolved to
    files,          \* what is left to load: places, by the directory they
                    \* were found in
    manifests,      \* the manifest of each name
    sources         \* and the place it was found at

registryConfig == <<tree, dirs, enableWrite>>
registryVars == <<registryConfig, loading, roots, files, manifests, sources>>

NoManifest == << >>

InitRegistry ==
    /\ tree \in Trees
    /\ dirs \in Configured
    /\ enableWrite \in BOOLEAN
    /\ loading = "idle"
    /\ roots = <<>>
    /\ files = {}
    /\ manifests = NoManifest
    /\ sources = NoManifest

\* Mutant: what was loaded before the error is kept.
FailInPlace ==
    /\ loading' = "failed"
    /\ UNCHANGED <<roots, files, manifests, sources>>

\* Every error returns the empty registry.
Fail ==
    /\ loading' = "failed"
    /\ roots' = <<>>
    /\ files' = {}
    /\ manifests' = NoManifest
    /\ sources' = NoManifest

LoadRegistry ==
    /\ loading = "idle"
    /\ loading' = "roots"
    /\ UNCHANGED <<registryConfig, roots, files, manifests, sources>>

\* validateRegistryRoot
ValidateRoot ==
    LET root == tree.root[dirs[Len(roots) + 1]] IN
    /\ loading = "roots"
    /\ Len(roots) < Len(dirs)
    /\ \/ root = Nowhere /\ Fail
       \/ /\ root # Nowhere
          /\ roots' = Append(roots, root)
          /\ UNCHANGED <<loading, files, manifests, sources>>
    /\ UNCHANGED registryConfig

FilesIn(k) == {[nth |-> k, at |-> p] : p \in tree.found[roots[k]]}

\* Mutant: a directory that is configured twice is loaded once.
WalkRootsOnce ==
    /\ loading = "roots"
    /\ Len(roots) = Len(dirs)
    /\ loading' = "files"
    /\ files' = UNION {FilesIn(k) : k \in
                         {i \in DOMAIN roots :
                             \A j \in 1..(i - 1) : roots[j] # roots[i]}}
    /\ UNCHANGED <<registryConfig, roots, manifests, sources>>

\* Mutant: a directory that cannot be listed is passed over.
WalkRootsAsFarAsListed ==
    /\ loading = "roots"
    /\ Len(roots) = Len(dirs)
    /\ loading' = "files"
    /\ files' = UNION {FilesIn(k) : k \in {i \in DOMAIN roots :
                                              tree.listed[roots[i]]}}
    /\ UNCHANGED <<registryConfig, roots, manifests, sources>>

\* WalkDir stops at the first directory below a root that cannot be listed.
\* That the code walks a root after it has loaded those before it makes no
\* difference to what an error leaves behind.
WalkRoots ==
    /\ loading = "roots"
    /\ Len(roots) = Len(dirs)
    /\ \/ (\E k \in DOMAIN roots : ~tree.listed[roots[k]]) /\ Fail
       \/ /\ \A k \in DOMAIN roots : tree.listed[roots[k]]
          /\ loading' = "files"
          /\ files' = UNION {FilesIn(k) : k \in DOMAIN roots}
          /\ UNCHANGED <<roots, manifests, sources>>
    /\ UNCHANGED registryConfig

\* The roots are sorted, and the files under each.
Before(f, g) ==
    \/ roots[f.nth] < roots[g.nth]
    \/ roots[f.nth] = roots[g.nth] /\ f.nth < g.nth
    \/ f.nth = g.nth /\ f.at < g.at

Target(f) == tree.target[f.at]

Inside(f) == Target(f) \in tree.within[roots[f.nth]]

Held(f) == tree.holds[Target(f)]

Refused(f) ==
    \/ Target(f) = Nowhere
    \/ Inside(f) /\ \/ Held(f) = NotAManifest
                    \/ Held(f).write /\ ~enableWrite
                    \/ Held(f).name \in DOMAIN manifests

\* m[n] = v in Go.
Put(m, n, v) ==
    [x \in DOMAIN m \cup {n} |-> IF x = n THEN v ELSE m[x]]

\* A link that leads out of the root is skipped; the other cases end here.
LoadFile(f) ==
    /\ loading = "files"
    /\ f \in files
    /\ \A g \in files \ {f} : Before(f, g)
    /\ \/ Refused(f) /\ Fail
       \/ /\ ~Refused(f)
          /\ files' = files \ {f}
          /\ IF ~Inside(f) THEN UNCHANGED <<manifests, sources>>
             ELSE /\ manifests' = Put(manifests, Held(f).name, Held(f))
                  /\ sources' = Put(sources, Held(f).name, f.at)
          /\ UNCHANGED <<loading, roots>>
    /\ UNCHANGED registryConfig

Loaded ==
    /\ loading = "files"
    /\ files = {}
    /\ loading' = "loaded"
    /\ UNCHANGED <<registryConfig, roots, files, manifests, sources>>

RegistryStep ==
    \/ ValidateRoot \/ WalkRoots \/ Loaded
    \/ \E f \in files : LoadFile(f)

RegistryTypeOK ==
    /\ tree \in Trees /\ dirs \in Configured /\ enableWrite \in BOOLEAN
    /\ loading \in {"idle", "roots", "files", "loaded", "failed"}
    /\ roots \in Seq(Places)
    /\ \A f \in files : f.nth \in DOMAIN roots /\ f \in FilesIn(f.nth)
    /\ DOMAIN manifests \subseteq Names /\ DOMAIN sources = DOMAIN manifests
    /\ loading \in {"idle", "roots", "failed"} => manifests = NoManifest

-----------------------------------------------------------------------------
\* What ought to be loaded, without an order: each manifest file of each
\* configured directory that does not lead out of it.
Wanted ==
    UNION {{[dir |-> k, at |-> p, holds |-> tree.holds[tree.target[p]]] :
               p \in {q \in tree.found[tree.root[dirs[k]]] :
                         tree.target[q] \in tree.within[tree.root[dirs[k]]]}}
              : k \in DOMAIN dirs}

\* Everything resolves and can be listed, is a manifest and allowed, and has
\* a name of its own.
Loadable ==
    /\ \A k \in DOMAIN dirs :
          /\ tree.root[dirs[k]] # Nowhere
          /\ tree.listed[tree.root[dirs[k]]]
          /\ \A p \in tree.found[tree.root[dirs[k]]] :
                tree.target[p] # Nowhere
    /\ \A w \in Wanted : /\ w.holds # NotAManifest
                         /\ w.holds.write => enableWrite
    /\ \A v, w \in Wanted : v.holds.name = w.holds.name => v = w

\* A registry is loaded exactly when all of it can be, and then holds every
\* manifest that lies within the configured directories and no other; so
\* nothing depends on the order in which the directories are listed, and a
\* failure leaves no part behind (lines 29-47, 100-146).
RegistryIsWhatIsThere ==
    /\ loading = "loaded" =>
          /\ Loadable
          /\ Range(manifests) = {w.holds : w \in Wanted}
          /\ Range(sources) = {w.at : w \in Wanted}
    /\ loading = "failed" => ~Loadable /\ manifests = NoManifest
=============================================================================
