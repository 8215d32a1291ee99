--------------------------- MODULE Startup_proofs ---------------------------
(***************************************************************************)
(* Proofs about SkillRegistry and Startup, for any file systems and any    *)
(* lists of directories.  The invariant of the registry says that what has *)
(* been resolved is the beginning of what is configured (Resolving), that  *)
(* the files read so far were all fit to be loaded and are what the        *)
(* registry holds (Reading), and that an error has a reason (Failed).      *)
(* That of the start says what each stage has behind it.                   *)
(***************************************************************************)
EXTENDS Startup, SequenceTheorems, TLAPS

Root(k) == tree.root[dirs[k]]

FoundIn(k) == {[nth |-> k, at |-> p] : p \in tree.found[Root(k)]}

\* All the files under all the roots, and those that have been read.
AllFiles == UNION {FoundIn(k) : k \in DOMAIN dirs}

Read == AllFiles \ files

Fit(f) ==
    /\ Target(f) # Nowhere
    /\ Inside(f) => /\ Held(f) # NotAManifest
                    /\ Held(f).write => enableWrite

AllListed == \A k \in DOMAIN dirs : tree.listed[Root(k)]

Types ==
    /\ tree \in Trees /\ dirs \in Configured /\ enableWrite \in BOOLEAN
    /\ loading \in {"idle", "roots", "files", "loaded", "failed"}
    /\ roots \in Seq(Places)

Resolving ==
    /\ Len(roots) <= Len(dirs)
    /\ \A k \in 1..Len(roots) : roots[k] = Root(k)

Empty ==
    loading \in {"idle", "roots", "failed"} =>
        files = {} /\ manifests = NoManifest /\ sources = NoManifest

Reading ==
    loading \in {"files", "loaded"} =>
        /\ Len(roots) = Len(dirs)
        /\ AllListed
        /\ files \subseteq AllFiles
        /\ \A f \in Read : Fit(f)
        /\ \A f, g \in Read :
              Inside(f) /\ Inside(g) /\ Held(f).name = Held(g).name => f = g
        /\ DOMAIN manifests = {Held(f).name : f \in {g \in Read : Inside(g)}}
        /\ DOMAIN sources = DOMAIN manifests
        /\ \A f \in Read : Inside(f) =>
              /\ manifests[Held(f).name] = Held(f)
              /\ sources[Held(f).name] = f.at

Ended ==
    /\ loading = "loaded" => files = {}
    /\ loading = "failed" => ~Loadable

RegistryInv == Types /\ Resolving /\ Empty /\ Reading /\ Ended

Behind ==
    /\ stage \in {"env", "config", "service"} => loading = "idle"
    /\ stage \in {"env", "config", "service", "skills"} => ~skills
    /\ stage # "env" => cfgKey = Trimmed(envKey)
    /\ stage \in {"service", "skills", "serving"} /\ program = "http" => Secure
    /\ stage \in {"skills", "serving"} => store = StoreFor(cfgKey)
    /\ stage = "serving" /\ program # "cli" /\ dirs # <<>> =>
          skills /\ loading = "loaded"
    /\ call.credential = "named" =>
          /\ stage = "serving" /\ program # "cli"
          /\ call.token = IF program = "http" THEN "none" ELSE TokenFor("named")

StartTypes ==
    /\ program \in {"http", "stdio", "cli"}
    /\ envKey \in Keys /\ cfgKey \in [text : Nat, blanks : {0}]
    /\ stage \in {"env", "config", "service", "skills", "serving", "failed"}
    /\ store \in {"none", "plaintext", "encrypted"}
    /\ skills \in BOOLEAN
    /\ call \in [credential : Credentials,
                 token : {"none", "tenant", "user"}]

Inv == RegistryInv /\ StartTypes /\ Behind

-----------------------------------------------------------------------------
\* What the tree and the directories are.
LEMMA TreeFacts ==
    ASSUME Types
    PROVE  /\ dirs \in Seq(DOMAIN tree.root) /\ Len(dirs) \in Nat
           /\ DOMAIN dirs = 1..Len(dirs)
           /\ \A k \in 1..Len(dirs) : Root(k) \in Places \cup {Nowhere}
           /\ Nowhere \notin Places
           /\ Len(roots) \in Nat /\ DOMAIN roots = 1..Len(roots)
           /\ \A k \in 1..Len(roots) : roots[k] \in Places
           /\ TreeOK(tree)
<1>1. dirs \in Seq(DOMAIN tree.root) /\ TreeOK(tree)
  BY TreeAssumption DEF Types
<1>2. \A k \in 1..Len(dirs) : dirs[k] \in DOMAIN tree.root
  BY <1>1, ElementOfSeq
<1>3. \A k \in 1..Len(dirs) : Root(k) \in Places \cup {Nowhere}
  BY <1>1, <1>2 DEF TreeOK, Root
<1>4. Nowhere \notin Places
  BY TreeAssumption DEF Nowhere
<1>5. \A k \in 1..Len(roots) : roots[k] \in Places
  BY ElementOfSeq DEF Types
<1> QED
  BY <1>1, <1>3, <1>4, <1>5, LenProperties DEF Types

\* Every file lies under a root that resolved.
LEMMA FileFacts ==
    ASSUME Types, Resolving, Len(roots) = Len(dirs), NEW f \in AllFiles
    PROVE  /\ f.nth \in DOMAIN dirs /\ f.nth \in DOMAIN roots
           /\ roots[f.nth] = Root(f.nth) /\ Root(f.nth) \in Places
           /\ f.at \in tree.found[Root(f.nth)] /\ f.at \in Places
           /\ f = [nth |-> f.nth, at |-> f.at]
           /\ Target(f) \in Places \cup {Nowhere}
           /\ Inside(f) => /\ Target(f) \in Places
                           /\ Held(f) \in [name : Names, write : BOOLEAN]
                                             \cup {NotAManifest}
<1>1. PICK k \in DOMAIN dirs : f \in FoundIn(k)
  BY DEF AllFiles
<1>2. PICK p \in tree.found[Root(k)] : f = [nth |-> k, at |-> p]
  BY <1>1 DEF FoundIn
<1>3. f.nth = k /\ f.at = p
  BY <1>2
<1>4. /\ k \in DOMAIN roots /\ roots[k] = Root(k) /\ Root(k) \in Places
      /\ TreeOK(tree)
  BY <1>1, TreeFacts DEF Resolving
<1>5. tree.found[Root(k)] \subseteq Places
  BY <1>4 DEF TreeOK
<1>6. f.at \in Places /\ Target(f) \in Places \cup {Nowhere}
  BY <1>2, <1>3, <1>4, <1>5 DEF TreeOK, Target
<1>7. Inside(f) => Target(f) \in Places
  BY <1>3, <1>4 DEF TreeOK, Inside
<1>8. Inside(f) => Held(f) \in [name : Names, write : BOOLEAN]
                                  \cup {NotAManifest}
  BY <1>4, <1>7 DEF TreeOK, Held
<1> QED
  BY <1>1, <1>2, <1>3, <1>4, <1>6, <1>7, <1>8

\* Wanted and Loadable in terms of the files found.
LEMMA WantedFiles ==
    ASSUME Types, Resolving, Len(roots) = Len(dirs)
    PROVE  Wanted = {[dir |-> f.nth, at |-> f.at, holds |-> Held(f)] :
                        f \in {g \in AllFiles : Inside(g)}}
<1> DEFINE W(f) == [dir |-> f.nth, at |-> f.at, holds |-> Held(f)]
           F == {g \in AllFiles : Inside(g)}
<1>1. ASSUME NEW f \in F PROVE W(f) \in Wanted
  <2>1. /\ f.nth \in DOMAIN dirs /\ roots[f.nth] = Root(f.nth)
        /\ f.at \in tree.found[Root(f.nth)]
    BY FileFacts
  <2>2. tree.target[f.at] \in tree.within[tree.root[dirs[f.nth]]]
    BY <2>1 DEF Inside, Target, Root
  <2> QED
    BY <2>1, <2>2 DEF Wanted, Held, Target, Root
<1>2. ASSUME NEW w \in Wanted PROVE \E f \in F : w = W(f)
  <2>1. PICK k \in DOMAIN dirs :
           w \in {[dir |-> k, at |-> p, holds |-> tree.holds[tree.target[p]]] :
                     p \in {q \in tree.found[Root(k)] :
                               tree.target[q] \in tree.within[Root(k)]}}
    BY DEF Wanted, Root
  <2>2. PICK p \in tree.found[Root(k)] :
           /\ tree.target[p] \in tree.within[Root(k)]
           /\ w = [dir |-> k, at |-> p, holds |-> tree.holds[tree.target[p]]]
    BY <2>1
  <2> DEFINE f == [nth |-> k, at |-> p]
  <2>3. f \in AllFiles
    BY <2>1, <2>2 DEF AllFiles, FoundIn
  <2>4. roots[k] = Root(k)
    BY <2>1, TreeFacts DEF Resolving
  <2>5. f \in F
    BY <2>2, <2>3, <2>4 DEF Inside, Target
  <2>6. w = W(f)
    BY <2>2 DEF Held, Target
  <2> QED
    BY <2>5, <2>6
<1> QED
  BY <1>1, <1>2

LEMMA LoadableFiles ==
    ASSUME Types, Resolving, Len(roots) = Len(dirs)
    PROVE  Loadable <=>
             /\ AllListed
             /\ \A f \in AllFiles : Fit(f)
             /\ \A f, g \in AllFiles :
                   Inside(f) /\ Inside(g) /\ Held(f).name = Held(g).name
                       => f = g
<1>1. \A k \in DOMAIN dirs : Root(k) # Nowhere
  BY TreeFacts DEF Resolving
<1>2. (\A k \in DOMAIN dirs : \A p \in tree.found[Root(k)] :
          tree.target[p] # Nowhere)
      <=> \A f \in AllFiles : Target(f) # Nowhere
  <2>1. ASSUME NEW f \in AllFiles,
               \A k \in DOMAIN dirs : \A p \in tree.found[Root(k)] :
                   tree.target[p] # Nowhere
        PROVE  Target(f) # Nowhere
    BY <2>1, FileFacts DEF Target
  <2>2. ASSUME NEW k \in DOMAIN dirs, NEW p \in tree.found[Root(k)],
               \A f \in AllFiles : Target(f) # Nowhere
        PROVE  tree.target[p] # Nowhere
    <3>1. [nth |-> k, at |-> p] \in AllFiles
      BY DEF AllFiles, FoundIn
    <3> QED
      BY <2>2, <3>1 DEF Target
  <2> QED
    BY <2>1, <2>2
<1> DEFINE W(f) == [dir |-> f.nth, at |-> f.at, holds |-> Held(f)]
           F == {g \in AllFiles : Inside(g)}
<1>3. Wanted = {W(f) : f \in F}
  BY WantedFiles
<1>4. (\A w \in Wanted : /\ w.holds # NotAManifest
                         /\ w.holds.write => enableWrite)
      <=> \A f \in F : /\ Held(f) # NotAManifest
                       /\ Held(f).write => enableWrite
  <2>1. \A f \in F : W(f) \in Wanted /\ W(f).holds = Held(f)
    BY <1>3
  <2>2. \A w \in Wanted : \E f \in F : w.holds = Held(f)
    BY <1>3
  <2> QED
    BY <2>1, <2>2
<1>5. (\A v, w \in Wanted : v.holds.name = w.holds.name => v = w)
      <=> \A f, g \in F : Held(f).name = Held(g).name => f = g
  <2>1. \A f, g \in F : W(f) = W(g) <=> f = g
    <3> SUFFICES ASSUME NEW f \in F, NEW g \in F, W(f) = W(g) PROVE f = g
      OBVIOUS
    <3>1. f.nth = g.nth /\ f.at = g.at
      OBVIOUS
    <3>2. f = [nth |-> f.nth, at |-> f.at] /\ g = [nth |-> g.nth, at |-> g.at]
      BY FileFacts
    <3> QED
      BY <3>1, <3>2
  <2>2. \A f \in F : W(f) \in Wanted /\ W(f).holds = Held(f)
    BY <1>3
  <2>3. \A w \in Wanted : \E f \in F : w = W(f)
    BY <1>3
  <2> HIDE DEF F, W
  <2> QED
    BY <2>1, <2>2, <2>3
<1> QED
  BY <1>1, <1>2, <1>4, <1>5 DEF Loadable, AllListed, Fit, Root

-----------------------------------------------------------------------------
\* The registry.
LEMMA InitRegistryInv == InitRegistry => RegistryInv
<1> SUFFICES ASSUME InitRegistry PROVE RegistryInv
  OBVIOUS
<1>1. Types /\ Len(roots) = 0
  BY EmptySeq DEF InitRegistry, Types
<1>2. Resolving
  BY <1>1, TreeFacts DEF Resolving
<1> QED
  BY <1>1, <1>2 DEF InitRegistry, RegistryInv, Empty, Reading, Ended

\* Whatever the error was, it leaves an empty registry.
LEMMA FailInv ==
    ASSUME RegistryInv, UNCHANGED registryConfig, Fail, ~Loadable
    PROVE  RegistryInv'
<1>1. ~Loadable'
  <2>1. tree' = tree /\ dirs' = dirs /\ enableWrite' = enableWrite
    BY DEF registryConfig
  <2>2. Wanted' = Wanted
    BY <2>1 DEF Wanted
  <2>3. Loadable' <=> Loadable
    BY <2>1, <2>2 DEF Loadable
  <2> QED
    BY <2>3
<1>2. Types' /\ Len(roots') = 0
  BY EmptySeq DEF Fail, registryConfig, RegistryInv, Types
<1>3. Resolving'
  BY <1>2, TreeFacts DEF Fail, registryConfig, RegistryInv, Resolving
<1> QED
  BY <1>1, <1>2, <1>3 DEF Fail, RegistryInv, Empty, Reading, Ended

LEMMA LoadRegistryInv == ASSUME RegistryInv, LoadRegistry PROVE RegistryInv'
BY DEF LoadRegistry, registryConfig, RegistryInv, Types, Resolving, Root,
       Empty, Reading, Ended

LEMMA ValidateRootInv == ASSUME RegistryInv, ValidateRoot PROVE RegistryInv'
<1> DEFINE k == Len(roots) + 1
<1>1. /\ loading = "roots" /\ Len(roots) < Len(dirs)
      /\ UNCHANGED registryConfig
  BY DEF ValidateRoot
<1>2. /\ Len(roots) \in Nat /\ Len(dirs) \in Nat /\ k \in DOMAIN dirs
      /\ Root(k) \in Places \cup {Nowhere}
  BY <1>1, TreeFacts DEF RegistryInv
<1>3. CASE Root(k) = Nowhere /\ Fail
  BY <1>1, <1>2, <1>3, FailInv DEF Loadable, Root
<1>4. CASE /\ Root(k) # Nowhere
           /\ roots' = Append(roots, Root(k))
           /\ UNCHANGED <<loading, files, manifests, sources>>
  <2>1. /\ roots' \in Seq(Places) /\ Len(roots') = k
        /\ \A i \in 1..Len(roots) : roots'[i] = roots[i]
        /\ roots'[k] = Root(k)
    BY <1>2, <1>4, AppendProperties DEF RegistryInv, Types
  <2>2. \A i \in 1..k : roots'[i] = Root(i)
    BY <1>2, <2>1 DEF RegistryInv, Resolving
  <2>3. Resolving'
    BY <1>1, <1>2, <2>1, <2>2 DEF Resolving, Root, registryConfig
  <2>4. Types'
    BY <1>1, <1>4, <2>1 DEF RegistryInv, Types, registryConfig
  <2>5. Empty' /\ Reading' /\ Ended'
    BY <1>1, <1>4 DEF RegistryInv, Empty, Reading, Ended
  <2> QED
    BY <2>3, <2>4, <2>5 DEF RegistryInv
<1> QED
  BY <1>3, <1>4 DEF ValidateRoot, Root

LEMMA WalkRootsInv == ASSUME RegistryInv, WalkRoots PROVE RegistryInv'
<1>1. CASE (\E k \in DOMAIN roots : ~tree.listed[roots[k]]) /\ Fail
  <2>1. /\ DOMAIN roots = DOMAIN dirs
        /\ \A k \in DOMAIN dirs : roots[k] = Root(k)
    BY TreeFacts DEF WalkRoots, RegistryInv, Resolving
  <2>2. ~Loadable
    BY <1>1, <2>1 DEF Loadable, Root
  <2> QED
    BY <1>1, <2>2, FailInv DEF WalkRoots
<1> SUFFICES ASSUME ~((\E k \in DOMAIN roots : ~tree.listed[roots[k]]) /\ Fail)
             PROVE  RegistryInv'
  BY <1>1
<1>2. /\ loading = "roots" /\ loading' = "files" /\ Len(roots) = Len(dirs)
      /\ UNCHANGED <<tree, dirs, enableWrite, roots, manifests, sources>>
      /\ \A k \in DOMAIN roots : tree.listed[roots[k]]
  BY DEF WalkRoots, registryConfig
<1>3. files' = AllFiles
  <2>1. DOMAIN roots = DOMAIN dirs /\ \A k \in DOMAIN dirs : roots[k] = Root(k)
    BY <1>2, TreeFacts DEF RegistryInv, Resolving
  <2>2. \A k \in DOMAIN dirs : FilesIn(k) = FoundIn(k)
    BY <2>1 DEF FilesIn, FoundIn
  <2> QED
    BY <2>1, <2>2 DEF WalkRoots, AllFiles
<1>4. AllFiles' = AllFiles
  BY <1>2 DEF AllFiles, FoundIn, Root
<1>5. Read' = {}
  BY <1>3, <1>4 DEF Read
<1>6. DOMAIN manifests = {} /\ DOMAIN sources = {}
  BY <1>2 DEF RegistryInv, Empty, NoManifest
<1>7. AllListed'
  <2>1. /\ DOMAIN roots = DOMAIN dirs
        /\ \A k \in DOMAIN dirs : roots[k] = Root(k)
    BY <1>2, TreeFacts DEF RegistryInv, Resolving
  <2> QED
    BY <1>2, <2>1 DEF AllListed, Root
<1>8. Reading'
  BY <1>2, <1>3, <1>4, <1>5, <1>6, <1>7 DEF Reading
<1> QED
  BY <1>2, <1>8
  DEF RegistryInv, Types, Resolving, Root, Empty, Ended

\* A file that is refused is a reason for the registry not to load.
LEMMA RefusedUnloadable ==
    ASSUME RegistryInv, loading = "files", NEW f \in files, Refused(f)
    PROVE  ~Loadable
<1>1. f \in AllFiles /\ f \notin Read
  BY DEF RegistryInv, Reading, Read
<1>2. Types /\ Resolving /\ Len(roots) = Len(dirs)
  BY DEF RegistryInv, Reading
<1>3. CASE ~Fit(f)
  BY <1>1, <1>2, <1>3, LoadableFiles
<1>4. CASE Inside(f) /\ Held(f).name \in DOMAIN manifests
  <2>1. PICK g \in Read : Inside(g) /\ Held(g).name = Held(f).name
    BY <1>4 DEF RegistryInv, Reading
  <2> QED
    BY <1>1, <1>2, <1>4, <2>1, LoadableFiles DEF Read
<1> QED
  BY <1>3, <1>4 DEF Refused, Fit

LEMMA LoadFileInv ==
    ASSUME RegistryInv, NEW f \in files, LoadFile(f) PROVE RegistryInv'
<1>1. loading = "files" /\ UNCHANGED <<tree, dirs, enableWrite>>
  BY DEF LoadFile, registryConfig
<1>2. CASE Refused(f) /\ Fail
  BY <1>1, <1>2, RefusedUnloadable, FailInv DEF registryConfig
<1>3. CASE /\ ~Refused(f)
           /\ files' = files \ {f}
           /\ IF ~Inside(f) THEN UNCHANGED <<manifests, sources>>
              ELSE /\ manifests' = Put(manifests, Held(f).name, Held(f))
                   /\ sources' = Put(sources, Held(f).name, f.at)
           /\ UNCHANGED <<loading, roots>>
  <2>1. /\ AllFiles' = AllFiles /\ f \in AllFiles
        /\ files \subseteq AllFiles
        /\ Len(roots) = Len(dirs)
    BY <1>1 DEF AllFiles, FoundIn, Root, RegistryInv, Reading
  <2>2. Read' = Read \cup {f} /\ f \notin Read
    BY <1>3, <2>1 DEF Read
  <2>3. \A g : /\ Target(g)' = Target(g) /\ Inside(g)' = Inside(g)
               /\ Held(g)' = Held(g) /\ Fit(g)' = Fit(g)
    BY <1>1, <1>3 DEF Target, Inside, Held, Fit
  <2>4. Fit(f)
    BY <1>3 DEF Refused, Fit
  <2>5. \A g \in Read' : Fit(g)'
    BY <1>1, <2>2, <2>3, <2>4 DEF RegistryInv, Reading
  <2>6. Inside(f) =>
           \A g \in Read : Inside(g) => Held(g).name # Held(f).name
    BY <1>1, <1>3 DEF RegistryInv, Reading, Refused
  <2>7. \A g, h \in Read' :
           Inside(g)' /\ Inside(h)' /\ Held(g)'.name = Held(h)'.name => g = h
    BY <1>1, <2>2, <2>3, <2>6 DEF RegistryInv, Reading
  <2>8. /\ DOMAIN manifests' = {Held(h)'.name : h \in {g \in Read' : Inside(g)'}}
        /\ DOMAIN sources' = DOMAIN manifests'
        /\ \A g \in Read' : Inside(g)' =>
              /\ manifests'[Held(g)'.name] = Held(g)'
              /\ sources'[Held(g)'.name] = g.at
    <3>1. CASE ~Inside(f)
      <4>1. {g \in Read' : Inside(g)'} = {g \in Read : Inside(g)}
        BY <2>2, <2>3, <3>1
      <4> QED
        BY <1>1, <1>3, <2>2, <2>3, <3>1, <4>1 DEF RegistryInv, Reading
    <3>2. CASE Inside(f)
      <4> DEFINE n == Held(f).name
      <4>1. {g \in Read' : Inside(g)'} = {g \in Read : Inside(g)} \cup {f}
        BY <2>2, <2>3, <3>2
      <4>2. {Held(h)'.name : h \in {g \in Read' : Inside(g)'}} =
               {Held(h).name : h \in {g \in Read : Inside(g)}} \cup {n}
        BY <2>3, <4>1
      <4>3. /\ manifests' = Put(manifests, n, Held(f))
            /\ sources' = Put(sources, n, f.at)
        BY <1>3, <3>2
      <4>4. /\ DOMAIN manifests' = DOMAIN manifests \cup {n}
            /\ DOMAIN sources' = DOMAIN sources \cup {n}
            /\ manifests'[n] = Held(f) /\ sources'[n] = f.at
            /\ \A x \in DOMAIN manifests : x # n => manifests'[x] = manifests[x]
            /\ \A x \in DOMAIN sources : x # n => sources'[x] = sources[x]
        <5> HIDE DEF n
        <5>1. /\ DOMAIN manifests' = DOMAIN manifests \cup {n}
              /\ manifests'[n] = Held(f)
              /\ \A x \in DOMAIN manifests : x # n => manifests'[x] = manifests[x]
          BY <4>3 DEF Put
        <5>2. /\ DOMAIN sources' = DOMAIN sources \cup {n}
              /\ sources'[n] = f.at
              /\ \A x \in DOMAIN sources : x # n => sources'[x] = sources[x]
          BY <4>3 DEF Put
        <5> QED
          BY <5>1, <5>2
      <4>5. /\ DOMAIN manifests = {Held(h).name : h \in {g \in Read : Inside(g)}}
            /\ DOMAIN sources = DOMAIN manifests
            /\ \A g \in Read : Inside(g) =>
                  /\ manifests[Held(g).name] = Held(g)
                  /\ sources[Held(g).name] = g.at
        BY <1>1 DEF RegistryInv, Reading
      <4>6. ASSUME NEW g \in Read, Inside(g)
            PROVE  /\ manifests'[Held(g).name] = Held(g)
                   /\ sources'[Held(g).name] = g.at
        BY <2>6, <3>2, <4>4, <4>5, <4>6
      <4>7. \A g \in Read' : Inside(g)' =>
              /\ manifests'[Held(g)'.name] = Held(g)'
              /\ sources'[Held(g)'.name] = g.at
        BY <2>2, <2>3, <4>4, <4>6
      <4>8. /\ DOMAIN manifests' =
                  {Held(h)'.name : h \in {g \in Read' : Inside(g)'}}
            /\ DOMAIN sources' = DOMAIN manifests'
        BY <4>2, <4>4, <4>5
      <4> QED
        BY <4>7, <4>8
    <3> QED
      BY <3>1, <3>2
  <2>9. AllListed'
    BY <1>1 DEF RegistryInv, Reading, AllListed, Root
  <2>10. Reading'
    BY <1>1, <1>3, <2>1, <2>5, <2>7, <2>8, <2>9 DEF Reading
  <2> QED
    BY <1>1, <1>3, <2>10
    DEF RegistryInv, Types, Resolving, Root, Empty, Ended
<1> QED
  BY <1>2, <1>3 DEF LoadFile

LEMMA LoadedInv == ASSUME RegistryInv, Loaded PROVE RegistryInv'
<1>1. /\ UNCHANGED <<tree, dirs, enableWrite, roots, files, manifests, sources>>
      /\ loading = "files" /\ loading' = "loaded" /\ files = {}
  BY DEF Loaded, registryConfig
<1>2. Reading'
  <2>1. /\ Read' = Read /\ AllFiles' = AllFiles
        /\ \A f : /\ Inside(f)' = Inside(f) /\ Held(f)' = Held(f)
                  /\ Fit(f)' = Fit(f)
    BY <1>1 DEF Read, AllFiles, FoundIn, Root, Fit, Target, Held, Inside
  <2>2. AllListed' <=> AllListed
    BY <1>1 DEF AllListed, Root
  <2> QED
    BY <1>1, <2>1, <2>2 DEF RegistryInv, Reading
<1> QED
  BY <1>1, <1>2 DEF RegistryInv, Types, Resolving, Root, Empty, Ended

LEMMA RegistryStepInv == ASSUME RegistryInv, RegistryStep PROVE RegistryInv'
BY ValidateRootInv, WalkRootsInv, LoadFileInv, LoadedInv DEF RegistryStep

LEMMA RegistryStutterInv ==
    ASSUME RegistryInv, UNCHANGED registryVars PROVE RegistryInv'
<1>1. UNCHANGED <<tree, dirs, enableWrite, loading, roots, files, manifests,
                  sources>>
  BY DEF registryVars, registryConfig
<1>2. Reading'
  <2>1. /\ Read' = Read /\ AllFiles' = AllFiles
        /\ \A f : /\ Inside(f)' = Inside(f) /\ Held(f)' = Held(f)
                  /\ Fit(f)' = Fit(f)
    BY <1>1 DEF Read, AllFiles, FoundIn, Root, Fit, Target, Held, Inside
  <2>2. AllListed' <=> AllListed
    BY <1>1 DEF AllListed, Root
  <2> QED
    BY <1>1, <2>1, <2>2 DEF RegistryInv, Reading
<1>3. Ended'
  BY <1>1 DEF RegistryInv, Ended, Loadable, Wanted
<1> QED
  BY <1>1, <1>2, <1>3 DEF RegistryInv, Types, Resolving, Root, Empty

-----------------------------------------------------------------------------
\* The start.
LEMMA InitInv == Init => Inv
<1> SUFFICES ASSUME Init PROVE Inv
  OBVIOUS
<1>1. RegistryInv /\ loading = "idle"
  BY InitRegistryInv DEF Init, InitRegistry
<1>2. call = [credential |-> "none", token |-> "none"]
  BY DEF Init, NoCall
<1>3. skills = FALSE /\ skills \in BOOLEAN
  BY DEF Init
<1>4. cfgKey \in [text : Nat, blanks : {0}]
  BY DEF Init, NoKey
<1> QED
  BY <1>1, <1>2, <1>3, <1>4 DEF Init, Inv, StartTypes, Behind, Credentials

\* The steps that leave the registry alone.
LEMMA StartInv ==
    ASSUME Inv,
           \/ LoadConfig \/ Validate \/ NewService \/ WithoutSkills
           \/ RegistryReady
    PROVE  Inv'
<1>1. UNCHANGED registryVars /\ UNCHANGED <<dirs, loading>>
  BY DEF LoadConfig, Validate, NewService, WithoutSkills, RegistryReady,
         registryVars, registryConfig
<1>2. RegistryInv'
  BY <1>1, RegistryStutterInv DEF Inv
<1>3. CASE Validate
  BY <1>1, <1>2, <1>3 DEF Inv, Validate, StartTypes, Behind, Secure
<1>4. CASE NewService
  BY <1>1, <1>2, <1>4
  DEF Inv, NewService, StartTypes, Behind, Secure, StoreFor
<1>5. CASE WithoutSkills
  BY <1>1, <1>2, <1>5 DEF Inv, WithoutSkills, StartTypes, Behind, Secure
<1>6. CASE RegistryReady
  BY <1>1, <1>2, <1>6 DEF Inv, RegistryReady, StartTypes, Behind, Secure
<1>7. CASE LoadConfig
  <2>1. Trimmed(envKey) \in [text : Nat, blanks : {0}]
    BY KeyAssumption DEF Inv, StartTypes, Trimmed
  <2> QED
    BY <1>1, <1>2, <1>7, <2>1 DEF Inv, LoadConfig, StartTypes, Behind
<1> QED
  BY <1>3, <1>4, <1>5, <1>6, <1>7

\* The steps of the registry, taken while it is being loaded.
LEMMA LoadInv == ASSUME Inv, WithSkills \/ Load PROVE Inv'
<1>1. /\ UNCHANGED <<program, envKey, cfgKey, stage, store, skills, call>>
      /\ stage = "skills"
  BY DEF WithSkills, Load, startVars
<1>2. RegistryInv'
  BY LoadRegistryInv, RegistryStepInv DEF Inv, WithSkills, Load
<1> QED
  BY <1>1, <1>2 DEF Inv, StartTypes, Behind, Secure

LEMMA CallInv ==
    ASSUME Inv, NEW credential \in Credentials, Call(credential) PROVE Inv'
<1>1. /\ UNCHANGED registryVars /\ UNCHANGED <<dirs, loading>>
      /\ UNCHANGED <<program, envKey, cfgKey, stage, store, skills>>
  BY DEF Call, registryVars, registryConfig
<1>2. RegistryInv'
  BY <1>1, RegistryStutterInv DEF Inv
<1>3. TokenFor(credential) \in {"none", "tenant", "user"}
  BY DEF TokenFor, Credentials
<1>4. call' \in [credential : Credentials, token : {"none", "tenant", "user"}]
  BY <1>3 DEF Call
<1>5. call'.credential = "named" =>
         /\ stage = "serving" /\ program # "cli"
         /\ call'.token = IF program = "http" THEN "none" ELSE TokenFor("named")
  BY DEF Call
<1>6. TokenFor("named")' = TokenFor("named")
  BY <1>1 DEF TokenFor
<1> QED
  BY <1>1, <1>2, <1>4, <1>5, <1>6 DEF Inv, StartTypes, Behind, Secure

LEMMA NextInv == Inv /\ [Next]_vars => Inv'
<1> SUFFICES ASSUME Inv, [Next]_vars PROVE Inv'
  OBVIOUS
<1>1. CASE UNCHANGED vars
  <2>1. UNCHANGED registryVars /\ UNCHANGED startVars
    BY <1>1 DEF vars
  <2>2. UNCHANGED <<dirs, loading>>
    BY <2>1 DEF registryVars, registryConfig
  <2> QED
    BY <2>1, <2>2, RegistryStutterInv
    DEF startVars, Inv, StartTypes, Behind, Secure, TokenFor
<1> QED
  BY <1>1, StartInv, LoadInv, CallInv DEF Next

LEMMA Invariance == Spec => []Inv
<1> QED
  BY InitInv, NextInv, PTL DEF Spec

-----------------------------------------------------------------------------
\* The state of the start and of the registry keeps its type, and a registry
\* that is not being filled is empty (registry.go, lines 29-47; main.go).
THEOREM TypeCorrect == Spec => []TypeOK
<1>1. ASSUME Inv PROVE TypeOK
  <2>1. Types /\ Resolving /\ Empty /\ Reading
    BY <1>1 DEF Inv, RegistryInv
  <2>2. ASSUME loading \in {"files", "loaded"}
        PROVE  /\ \A f \in files : f.nth \in DOMAIN roots /\ f \in FilesIn(f.nth)
               /\ DOMAIN manifests \subseteq Names
               /\ DOMAIN sources = DOMAIN manifests
    <3>1. Len(roots) = Len(dirs) /\ files \subseteq AllFiles
      BY <2>1, <2>2 DEF Reading
    <3>2. \A f \in files : f.nth \in DOMAIN roots /\ f \in FilesIn(f.nth)
      <4> TAKE f \in files
      <4>1. /\ f.nth \in DOMAIN roots /\ roots[f.nth] = Root(f.nth)
            /\ f.at \in tree.found[Root(f.nth)]
            /\ f = [nth |-> f.nth, at |-> f.at]
        BY <2>1, <3>1, FileFacts
      <4> QED
        BY <4>1 DEF FilesIn
    <3>3. ASSUME NEW f \in Read, Inside(f) PROVE Held(f).name \in Names
      <4>1. Held(f) # NotAManifest
        BY <2>1, <2>2, <3>3 DEF Reading, Fit
      <4>2. Held(f) \in [name : Names, write : BOOLEAN]
        BY <2>1, <3>1, <3>3, <4>1, FileFacts DEF Read
      <4> QED
        BY <4>2
    <3> QED
      BY <2>1, <2>2, <3>2, <3>3 DEF Reading
  <2>3. ASSUME loading \notin {"files", "loaded"}
        PROVE  /\ files = {} /\ manifests = NoManifest
               /\ DOMAIN manifests = {} /\ DOMAIN sources = {}
    BY <2>1, <2>3 DEF Types, Empty, NoManifest
  <2>4. RegistryTypeOK
    BY <2>1, <2>2, <2>3 DEF Types, Empty, RegistryTypeOK
  <2> QED
    BY <1>1, <2>4 DEF Inv, StartTypes, TypeOK
<1> QED
  BY <1>1, Invariance, PTL

\* Whatever the file system and however the directories overlap, repeat or
\* are ordered: the registry that is loaded holds exactly the manifests under
\* the configured directories, one for each name, and one that failed to load
\* had a reason and holds nothing (registry.go, lines 29-47 and 119-146).
THEOREM RegistryIsComplete == Spec => []RegistryIsWhatIsThere
<1>1. ASSUME Inv, loading = "loaded"
      PROVE  /\ Loadable
             /\ Range(manifests) = {w.holds : w \in Wanted}
             /\ Range(sources) = {w.at : w \in Wanted}
  <2>1. Types /\ Resolving /\ Reading /\ Len(roots) = Len(dirs)
    BY <1>1 DEF Inv, RegistryInv, Reading
  <2>2. Read = AllFiles
    BY <1>1 DEF Inv, RegistryInv, Ended, Read
  <2>3. Loadable
    BY <1>1, <2>1, <2>2, LoadableFiles DEF Reading
  <2> DEFINE F == {g \in AllFiles : Inside(g)}
             W(f) == [dir |-> f.nth, at |-> f.at, holds |-> Held(f)]
  <2>4. Wanted = {W(f) : f \in F}
    BY <2>1, WantedFiles
  <2>5. /\ {w.holds : w \in Wanted} = {Held(f) : f \in F}
        /\ {w.at : w \in Wanted} = {f.at : f \in F}
    <3>1. \A f \in F : W(f).holds = Held(f) /\ W(f).at = f.at
      OBVIOUS
    <3> HIDE DEF F, W
    <3> QED
      BY <2>4, <3>1
  <2>6. /\ DOMAIN manifests = {Held(f).name : f \in F}
        /\ DOMAIN sources = DOMAIN manifests
        /\ \A f \in F : /\ manifests[Held(f).name] = Held(f)
                        /\ sources[Held(f).name] = f.at
    BY <1>1, <2>1, <2>2 DEF Reading
  <2>7. /\ Range(manifests) = {Held(f) : f \in F}
        /\ Range(sources) = {f.at : f \in F}
    <3> HIDE DEF F
    <3> QED
      BY <2>6 DEF Range
  <2> QED
    BY <2>3, <2>5, <2>7
<1>2. ASSUME Inv PROVE RegistryIsWhatIsThere
  BY <1>1, <1>2 DEF Inv, RegistryInv, Empty, Ended, RegistryIsWhatIsThere
<1> QED
  BY <1>2, Invariance, PTL

\* A remote server that serves has a store that encrypts and, if it was given
\* directories, every skill in them (main.go, lines 22-31).
THEOREM RemoteServesWhole == Spec => []RemoteStartsWhole
<1>1. ASSUME Inv PROVE RemoteStartsWhole
  <2> SUFFICES ASSUME program = "http", stage = "serving"
               PROVE  /\ store = "encrypted"
                      /\ dirs # <<>> => skills /\ Loadable
    BY DEF RemoteStartsWhole
  <2>1. store = "encrypted"
    <3>1. store = StoreFor(cfgKey) /\ Bytes(Trimmed(cfgKey)) \in KeyLengths
      BY <1>1 DEF Inv, Behind, Secure
    <3>2. Trimmed(cfgKey) = cfgKey
      BY <1>1 DEF Inv, StartTypes, Trimmed
    <3> QED
      BY <3>1, <3>2 DEF StoreFor, KeyLengths
  <2>2. dirs # <<>> => skills /\ loading = "loaded"
    BY <1>1 DEF Inv, Behind
  <2>3. ASSUME loading = "loaded" PROVE Loadable
    <3>1. Types /\ Resolving /\ Reading /\ Len(roots) = Len(dirs)
      BY <1>1, <2>3 DEF Inv, RegistryInv, Reading
    <3>2. Read = AllFiles
      BY <1>1, <2>3 DEF Inv, RegistryInv, Ended, Read
    <3> QED
      BY <2>3, <3>1, <3>2, LoadableFiles DEF Reading
  <2> QED
    BY <2>1, <2>2, <2>3
<1> QED
  BY <1>1, Invariance, PTL

\* Whatever the key in the environment, whichever program was started and
\* whatever skills it loaded: a call that names a credential is made with the
\* user's token exactly where one may be named and the key, without its blanks,
\* is empty or fit for AES, and with a store in plaintext only when no key was
\* given (config.go, lines 100 and 106-118; service.go, lines 30-37 and 49-57;
\* token_source.go, lines 33-50).
THEOREM UserCallsAreKeyed == Spec => []UserCallsFollowTheKey
<1>1. ASSUME Inv, call.credential = "named"
      PROVE  /\ call.token = IF /\ program = "stdio"
                                /\ envKey.text \in KeyLengths \cup {0}
                             THEN "user" ELSE "none"
             /\ store = "plaintext" => envKey.text = 0
  <2>1. /\ stage = "serving" /\ program \in {"http", "stdio"}
        /\ call.token = IF program = "http" THEN "none" ELSE TokenFor("named")
    BY <1>1 DEF Inv, Behind, StartTypes
  <2>2. store = StoreFor(Trimmed(envKey))
    BY <1>1, <2>1 DEF Inv, Behind
  <2>3. Bytes(Trimmed(envKey)) = envKey.text /\ envKey.text \in Nat
    BY <1>1, KeyAssumption DEF Inv, StartTypes, Trimmed, Bytes
  <2>4. /\ store = "none" <=> envKey.text \notin KeyLengths \cup {0}
        /\ store = "plaintext" <=> envKey.text = 0
    BY <2>2, <2>3 DEF StoreFor, KeyLengths
  <2>5. TokenFor("named") = IF store # "none" THEN "user" ELSE "none"
    BY DEF TokenFor
  <2> QED
    BY <2>1, <2>4, <2>5
<1>2. Inv => UserCallsFollowTheKey
  BY <1>1 DEF UserCallsFollowTheKey
<1> QED
  BY <1>2, Invariance, PTL
=============================================================================
