-------------------------- MODULE InstallerProofs --------------------------
(***************************************************************************)
(* Types of the installer; that the artifacts of one repository are all    *)
(* from one commit; and that what is collected is the tree of profiles,    *)
(* for every tree and however the repositories move.                       *)
(***************************************************************************)
EXTENDS Installer, TLAPS

\* A branch or tag points, and a clone pointed, at a commit of its history.
FromHistory ==
    /\ \A k \in Keys : upstream[k] \in History[k]
    /\ \A k \in Keys : clones[k] # NoSnapshot => clones[k] \in History[k]

\* The calls in progress are of repositories that are cloned, and what is collected
\* comes from the clone: a clone is never replaced during a run.
FromClones ==
    /\ \A i \in DOMAIN stack : clones[stack[i].key] # NoSnapshot
    /\ \A i \in DOMAIN artifacts :
          artifacts[i].from = clones[artifacts[i].key] /\ artifacts[i].from # NoSnapshot

Inv == TypeOK /\ FromHistory /\ FromClones

LEMMA KeysOfFrames ==
    ASSUME TypeOK
    PROVE  /\ \A i \in DOMAIN stack : stack[i].key \in Keys
           /\ \A i \in DOMAIN artifacts : artifacts[i].key \in Keys
<1>1. \A i \in DOMAIN stack : stack[i] \in Frames
  BY DEF TypeOK
<1>2. \A i \in DOMAIN artifacts : artifacts[i] \in Wrappers
  BY DEF TypeOK
<1>3. (\A x \in Frames : x.key \in Keys) /\ (\A x \in Wrappers : x.key \in Keys)
  BY DEF Frames, Wrappers
<1>4. QED
  BY <1>1, <1>2, <1>3

LEMMA InitInv ==
    ASSUME Init
    PROVE  Inv
<1>1. /\ stack = <<>> /\ artifacts = <<>>
      /\ stack \in Seq(Frames) /\ artifacts \in Seq(Wrappers)
      /\ Len(artifacts) = 0 /\ DOMAIN stack = {} /\ DOMAIN artifacts = {}
  BY DEF Init
<1>2. /\ call = NoCall /\ todo = <<>> /\ written = 0 /\ gitRepo = FALSE /\ pc = "idle"
      /\ runs = 0 /\ moves = 0 /\ marker = NoMarker
      /\ upstream \in [Keys -> Snapshots \cup {NoSnapshot}]
      /\ clones = [k \in Keys |-> NoSnapshot]
  BY DEF Init
<1>3. 0 \in 0..MaxRuns /\ 0 \in 0..MaxMoves
  BY InstallerAssumption
<1>4. clones \in [Keys -> Snapshots \cup {NoSnapshot}]
  BY <1>2
<1>5. written \in 0..Len(artifacts) /\ marker \in (1..runs) \cup {NoMarker}
  BY <1>1, <1>2
<1>6. TypeOK
  BY <1>1, <1>2, <1>3, <1>4, <1>5 DEF TypeOK
<1>7. QED
  BY <1>1, <1>2, <1>6 DEF Init, Inv, FromHistory, FromClones

LEMMA MoveInv ==
    ASSUME Inv, NEW k \in Keys, Move(k)
    PROVE  Inv'
<1>1. PICK s \in History[k] \ {upstream[k]} : upstream' = [upstream EXCEPT ![k] = s]
  BY DEF Move
<1>2. s \in Snapshots \cup {NoSnapshot}
  BY <1>1, InstallerAssumption
<1>3. UNCHANGED <<clones, call, stack, artifacts, written, todo, marker, gitRepo, pc, runs>>
      /\ moves' \in 0..MaxMoves
  BY InstallerAssumption DEF Move, Inv, TypeOK
<1>4. TypeOK'
  BY <1>1, <1>2, <1>3 DEF Inv, TypeOK
<1>5. QED
  BY <1>1, <1>3, <1>4 DEF Inv, FromHistory, FromClones, TypeOK

LEMMA InstallInv ==
    ASSUME Inv, Install
    PROVE  Inv'
<1>1. /\ stack' = <<>> /\ artifacts' = <<>> /\ todo' = <<>> /\ written' = 0
      /\ stack' \in Seq(Frames) /\ artifacts' \in Seq(Wrappers)
      /\ Len(artifacts') = 0 /\ DOMAIN stack' = {} /\ DOMAIN artifacts' = {}
  BY DEF Install
<1>2. /\ call' \in Calls
      /\ clones' = [k \in Keys |-> NoSnapshot]
      /\ UNCHANGED <<upstream, marker, moves>>
  BY InstallerAssumption DEF Install, Calls
<1>3. runs' \in 0..MaxRuns /\ runs' > 0 /\ 1..runs \subseteq 1..runs'
  BY InstallerAssumption DEF Install, Inv, TypeOK
<1>4. TypeOK'
  BY <1>1, <1>2, <1>3 DEF Install, Inv, TypeOK
<1>5. QED
  BY <1>1, <1>2, <1>4 DEF Inv, FromHistory, FromClones

\* Only a repository without a clone is cloned, so nothing collected is from it.
LEMMA CloneInv ==
    ASSUME Inv, Clone
    PROVE  Inv'
<1> USE DEF CloneCacheKey
<1>1. /\ call \in Calls /\ call.key \in Keys /\ clones[call.key] = NoSnapshot
      /\ clones' = [clones EXCEPT ![call.key] = upstream[call.key]]
      /\ UNCHANGED <<upstream, call, stack, artifacts, written, todo, marker, gitRepo, pc,
                     runs, moves>>
  BY DEF Clone, Inv, TypeOK, Calls
<1>2. TypeOK'
  BY <1>1 DEF Inv, TypeOK
<1>3. FromHistory'
  BY <1>1 DEF Inv, TypeOK, FromHistory
<1>4. FromClones'
  BY <1>1, KeysOfFrames DEF Inv, TypeOK, FromClones
<1>5. QED
  BY <1>2, <1>3, <1>4 DEF Inv

LEMMA ReadDefinitionInv ==
    ASSUME Inv, ReadDefinition
    PROVE  Inv'
<1> USE DEF CloneCacheKey
<1> DEFINE def == Definition(clones[call.key], call.path)
           frame == [key |-> call.key, dir |-> call.dir, rest |-> def]
<1>1. /\ call \in Calls /\ def # NoProfile
      /\ stack' = Append(stack, frame) /\ call' = NoCall
      /\ UNCHANGED <<upstream, clones, artifacts, written, todo, marker, gitRepo, pc,
                     runs, moves>>
  BY DEF ReadDefinition, Inv, TypeOK
<1>2. clones[call.key] # NoSnapshot /\ clones[call.key] \in Snapshots
  BY <1>1 DEF Definition, Inv, TypeOK, Calls
<1>3. def \in Seq(Artifact)
  BY <1>1, <1>2, InstallerAssumption DEF Definition, Calls
<1>4. frame \in Frames
  BY <1>1, <1>3 DEF Frames, Calls
<1> HIDE DEF def
<1>5. stack' \in Seq(Frames) /\ stack' # <<>>
  BY <1>1, <1>4 DEF Inv, TypeOK
<1>6. pc # "writing"
  BY DEF ReadDefinition, Inv, TypeOK
<1>7. TypeOK'
  BY <1>1, <1>5, <1>6 DEF Inv, TypeOK
<1>8. \A i \in DOMAIN stack' : clones[stack'[i].key] # NoSnapshot
  <2>1. \A i \in DOMAIN stack' :
          (i \in DOMAIN stack /\ stack'[i] = stack[i]) \/ stack'[i] = frame
    BY <1>1 DEF Inv, TypeOK
  <2>2. frame.key = call.key
    OBVIOUS
  <2>3. QED
    BY <1>2, <2>1, <2>2 DEF Inv, FromClones
<1>9. QED
  BY <1>1, <1>7, <1>8 DEF Inv, FromHistory, FromClones

LEMMA CollectingFacts ==
    ASSUME Inv, Collecting
    PROVE  /\ Len(stack) \in DOMAIN stack /\ Top = stack[Len(stack)]
           /\ Top \in Frames /\ clones[Top.key] # NoSnapshot
           /\ Top.rest # <<>> =>
                 /\ Head(Top.rest) \in Artifact
                 /\ Popped \in Seq(Frames) /\ DOMAIN Popped = DOMAIN stack
                 /\ \A i \in DOMAIN stack : Popped[i].key = stack[i].key
<1>1. /\ stack \in Seq(Frames) /\ stack # <<>>
      /\ Len(stack) \in DOMAIN stack /\ Top = stack[Len(stack)]
  BY DEF Inv, TypeOK, Collecting, Top, Last
<1>2. Top \in Frames /\ clones[Top.key] # NoSnapshot
  BY <1>1 DEF Inv, FromClones
<1>3. ASSUME Top.rest # <<>>
      PROVE  /\ Head(Top.rest) \in Artifact
             /\ Popped \in Seq(Frames) /\ DOMAIN Popped = DOMAIN stack
             /\ \A i \in DOMAIN stack : Popped[i].key = stack[i].key
  <2>1. Top.rest \in Seq(Artifact)
    BY <1>2 DEF Frames
  <2>2. Head(Top.rest) \in Artifact /\ Tail(Top.rest) \in Seq(Artifact)
    BY <1>3, <2>1
  <2>3. Popped = [stack EXCEPT ![Len(stack)] = [Top EXCEPT !.rest = Tail(Top.rest)]]
    BY <1>1 DEF Popped
  <2>4. [Top EXCEPT !.rest = Tail(Top.rest)] \in Frames
    BY <1>2, <2>2 DEF Frames
  <2>5. [Top EXCEPT !.rest = Tail(Top.rest)].key = Top.key
    BY <1>2 DEF Frames
  <2>6. QED
    BY <1>1, <2>2, <2>3, <2>4, <2>5
<1>4. QED
  BY <1>1, <1>2, <1>3

LEMMA NestedProfileInv ==
    ASSUME Inv, NestedProfile
    PROVE  Inv'
<1> DEFINE a == Head(Top.rest)
<1>1. /\ Collecting /\ Top.rest # <<>> /\ a.profile # NoSource
      /\ call' = [key |-> a.profile.key, path |-> NestedPath(a.profile),
                  dir |-> Append(Top.dir, a.name)]
      /\ stack' = Popped
      /\ UNCHANGED <<upstream, clones, artifacts, written, todo, marker, gitRepo, pc,
                     runs, moves>>
  BY DEF NestedProfile, Source, NestedDir
<1>2. a \in Artifact /\ a.profile \in Sources
  BY <1>1, CollectingFacts DEF Artifact
<1>3. NestedPath(a.profile) \in Paths
  BY <1>2, InstallerAssumption DEF NestedPath, Sources
<1>4. Append(Top.dir, a.name) \in Seq(Names)
  BY <1>1, <1>2, CollectingFacts DEF Frames, Artifact
<1>5. call' \in Calls
  BY <1>1, <1>2, <1>3, <1>4 DEF Calls, Sources
<1>6. TypeOK'
  BY <1>1, <1>5, CollectingFacts DEF Inv, TypeOK, Collecting
<1>7. QED
  BY <1>1, <1>6, CollectingFacts DEF Inv, FromHistory, FromClones

LEMMA PlainArtifactInv ==
    ASSUME Inv, PlainArtifact
    PROVE  Inv'
<1> DEFINE w == Wrapped(Top, Head(Top.rest))
<1>1. /\ Collecting /\ Top.rest # <<>>
      /\ artifacts' = Append(artifacts, w) /\ stack' = Popped
      /\ UNCHANGED <<upstream, clones, call, written, todo, marker, gitRepo, pc, runs, moves>>
  BY DEF PlainArtifact
<1>2. /\ Top.key \in Keys /\ clones[Top.key] \in Snapshots
      /\ Top.dir \in Seq(Names)
  BY <1>1, CollectingFacts DEF Frames, Inv, TypeOK
<1>3. w \in Wrappers /\ w.key = Top.key /\ w.from = clones[Top.key]
  BY <1>1, <1>2, CollectingFacts DEF Wrapped, CloneCacheKey, Wrappers, Artifact
<1> HIDE DEF w
<1>4. artifacts' \in Seq(Wrappers) /\ Len(artifacts') = Len(artifacts) + 1
  BY <1>1, <1>3 DEF Inv, TypeOK
<1>5. TypeOK'
  BY <1>1, <1>4, CollectingFacts DEF Inv, TypeOK, Collecting
<1>6. \A i \in DOMAIN artifacts' :
        artifacts'[i].from = clones[artifacts'[i].key] /\ artifacts'[i].from # NoSnapshot
  <2>1. \A i \in DOMAIN artifacts' :
          (i \in DOMAIN artifacts /\ artifacts'[i] = artifacts[i]) \/ artifacts'[i] = w
    BY <1>1 DEF Inv, TypeOK
  <2>2. QED
    BY <1>2, <1>3, <2>1, InstallerAssumption DEF Inv, FromClones
<1>7. QED
  BY <1>1, <1>5, <1>6, CollectingFacts DEF Inv, FromHistory, FromClones

LEMMA ReturnInv ==
    ASSUME Inv, Return
    PROVE  Inv'
<1>1. /\ Collecting /\ stack' = Front(stack)
      /\ pc' = (IF Len(stack) = 1 THEN "writing" ELSE pc)
      /\ UNCHANGED <<upstream, clones, call, artifacts, written, todo, marker, gitRepo,
                     runs, moves>>
  BY DEF Return
<1>2. /\ stack' \in Seq(Frames)
      /\ Len(stack) = 1 => stack' = <<>>
      /\ \A i \in DOMAIN stack' : i \in DOMAIN stack /\ stack'[i] = stack[i]
  BY <1>1, CollectingFacts DEF Front, Inv, TypeOK
<1>3. TypeOK'
  BY <1>1, <1>2 DEF Inv, TypeOK, Collecting
<1>4. QED
  BY <1>1, <1>2, <1>3 DEF Inv, FromHistory, FromClones

\* The steps that write, and the failing one, collect nothing.
LEMMA WritingInv ==
    ASSUME Inv, BeginArtifact \/ WriteFile \/ WriteMarker \/ Fail
    PROVE  Inv'
<1>1. UNCHANGED <<upstream, clones, stack, artifacts, gitRepo, runs, moves>>
  BY DEF BeginArtifact, WriteFile, WriteMarker, Fail
<1>2. CASE BeginArtifact
  BY <1>1, <1>2 DEF BeginArtifact, Inv, TypeOK, FromHistory, FromClones
<1>3. CASE WriteFile
  <2>1. /\ written' = (IF todo' = <<>> THEN written + 1 ELSE written)
        /\ written < Len(artifacts)
    BY <1>3 DEF WriteFile, Inv, TypeOK
  <2>2. written' \in 0..Len(artifacts) /\ (todo' # <<>> => written' < Len(artifacts))
    BY <2>1 DEF Inv, TypeOK
  <2>3. QED
    BY <1>1, <1>3, <2>2 DEF WriteFile, Inv, TypeOK, FromHistory, FromClones
<1>4. CASE WriteMarker
  BY <1>1, <1>4 DEF WriteMarker, Inv, TypeOK, FromHistory, FromClones
<1>5. CASE Fail
  BY <1>1, <1>5 DEF Fail, Inv, TypeOK, FromHistory, FromClones
<1>6. QED
  BY <1>2, <1>3, <1>4, <1>5

LEMMA StutterInv == Inv /\ UNCHANGED vars => Inv'
  BY DEF vars, Inv, TypeOK, FromHistory, FromClones

LEMMA Invariance == Spec => []Inv
<1>1. Inv /\ [Next]_vars => Inv'
  BY MoveInv, InstallInv, CloneInv, ReadDefinitionInv, NestedProfileInv, PlainArtifactInv,
     ReturnInv, WritingInv, StutterInv DEF Next, Step
<1>2. QED
  BY InitInv, <1>1, PTL DEF Spec

\* Every variable keeps its type, and the phases of an installation follow each
\* other: collecting ends before writing starts.
THEOREM TypeCorrect == Spec => []TypeOK
<1>1. Inv => TypeOK
  BY DEF Inv
<1>2. QED
  BY Invariance, <1>1, PTL

\* installer.go:146-157.  Whatever the tree of profiles, and however branches and
\* tags move, one repository contributes one commit to an installation.
THEOREM OneCommit == Spec => []OneCommitPerRepository
<1>1. ASSUME Inv
      PROVE  OneCommitPerRepository
  <2>1. \A i \in DOMAIN artifacts : artifacts[i].key \in Keys
    BY <1>1, KeysOfFrames DEF Inv
  <2>2. QED
    BY <1>1, <2>1 DEF Inv, FromHistory, FromClones, OneCommitPerRepository
<1>2. QED
  BY Invariance, <1>1, PTL
-----------------------------------------------------------------------------
(* Paths in the tree of profiles *)

LEMMA PrefixIs ==
    ASSUME NEW s \in Seq(Names), NEW t \in Seq(Names)
    PROVE  /\ IsPrefix(s, t) <=> Len(s) <= Len(t) /\ \A n \in 1..Len(s) : s[n] = t[n]
           /\ s \in Prefixes(t) <=> IsPrefix(s, t)
<1>1. ASSUME NEW u \in Seq(Names), NEW l \in 0..Len(u)
      PROVE  /\ SubSeq(u, 1, l) \in Seq(Names) /\ Len(SubSeq(u, 1, l)) = l
             /\ \A n \in 1..l : SubSeq(u, 1, l)[n] = u[n]
  OBVIOUS
<1>2. Len(s) \in Nat /\ Len(t) \in Nat
  OBVIOUS
<1>3. SubSeq(s, 1, Len(s)) = s
  OBVIOUS
<1>4. ASSUME NEW l \in 0..Len(t), l = Len(s), \A n \in 1..Len(s) : s[n] = t[n]
      PROVE  s = SubSeq(t, 1, l)
  <2> DEFINE u == SubSeq(t, 1, l)
  <2>1. u \in Seq(Names) /\ Len(u) = Len(s) /\ \A n \in 1..Len(s) : u[n] = s[n]
    BY <1>1, <1>4
  <2> HIDE DEF u
  <2>2. /\ s = [n \in 1..Len(s) |-> s[n]]
        /\ u = [n \in 1..Len(s) |-> u[n]]
    BY <2>1
  <2>3. s = u
    BY <2>1, <2>2
  <2>4. QED
    BY <2>3 DEF u
<1>5. IsPrefix(s, t) <=> Len(s) <= Len(t) /\ \A n \in 1..Len(s) : s[n] = t[n]
  <2>1. CASE Len(s) <= Len(t)
    <3>1. Len(s) \in 0..Len(t)
      BY <1>2, <2>1
    <3>2. IsPrefix(s, t) <=> s = SubSeq(t, 1, Len(s))
      BY <1>3, <2>1 DEF IsPrefix
    <3>3. QED
      BY <1>1, <1>4, <2>1, <3>1, <3>2
  <2>2. QED
    BY <2>1 DEF IsPrefix
<1>6. s \in Prefixes(t) <=> IsPrefix(s, t)
  BY <1>1, <1>2, <1>4, <1>5 DEF Prefixes
<1>7. QED
  BY <1>5, <1>6

LEMMA PrefixTransitive ==
    ASSUME NEW s \in Seq(Names), NEW t \in Seq(Names), NEW u \in Seq(Names),
           IsPrefix(s, t), IsPrefix(t, u)
    PROVE  IsPrefix(s, u)
<1>1. Len(s) \in Nat /\ Len(t) \in Nat /\ Len(u) \in Nat
  OBVIOUS
<1>2. QED
  BY <1>1, PrefixIs

\* What a path has below it, and what has the path above it.
LEMMA PrefixAppend ==
    ASSUME NEW s \in Seq(Names), NEW x \in Names
    PROVE  /\ Append(s, x) \in Seq(Names)
           /\ IsPrefix(s, s) /\ IsPrefix(s, Append(s, x))
           /\ Front(Append(s, x)) = s /\ Last(Append(s, x)) = x /\ Append(s, x) # <<>>
           /\ \A t \in Seq(Names) : IsPrefix(t, s) => IsPrefix(t, Append(s, x))
           /\ \A t \in Seq(Names) : IsPrefix(Append(s, x), t) =>
                 IsPrefix(s, t) /\ Len(s) + 1 <= Len(t) /\ t[Len(s) + 1] = x
           /\ Prefixes(Append(s, x)) = Prefixes(s) \cup {Append(s, x)}
<1> DEFINE a == Append(s, x)
<1>1. /\ a \in Seq(Names) /\ Len(a) = Len(s) + 1 /\ a[Len(s) + 1] = x
      /\ \A n \in 1..Len(s) : a[n] = s[n]
      /\ Len(s) \in Nat
  OBVIOUS
<1>2. IsPrefix(s, s) /\ IsPrefix(s, a)
  <2> HIDE DEF a
  <2>1. IsPrefix(s, s) <=> Len(s) <= Len(s) /\ \A n \in 1..Len(s) : s[n] = s[n]
    BY PrefixIs
  <2>2. IsPrefix(s, a) <=> Len(s) <= Len(a) /\ \A n \in 1..Len(s) : s[n] = a[n]
    BY <1>1, PrefixIs
  <2>3. QED
    BY <1>1, <2>1, <2>2
<1>3. Front(a) = s /\ Last(a) = x /\ a # <<>>
  <2>1. SubSeq(a, 1, Len(s)) = s
    OBVIOUS
  <2> HIDE DEF a
  <2>2. Len(a) - 1 = Len(s)
    BY <1>1
  <2>3. Front(a) = s
    BY <2>1, <2>2 DEF Front
  <2>4. QED
    BY <1>1, <2>3 DEF Last
<1> HIDE DEF a
<1>4. ASSUME NEW t \in Seq(Names), IsPrefix(t, s) PROVE IsPrefix(t, a)
  BY <1>1, <1>2, <1>4, PrefixTransitive
<1>5. ASSUME NEW t \in Seq(Names), IsPrefix(a, t)
      PROVE  IsPrefix(s, t) /\ Len(s) + 1 <= Len(t) /\ t[Len(s) + 1] = x
  <2>1. Len(a) <= Len(t) /\ \A n \in 1..Len(a) : a[n] = t[n]
    BY <1>1, <1>5, PrefixIs
  <2>2. IsPrefix(s, t)
    BY <1>1, <1>2, <1>5, PrefixTransitive
  <2>3. QED
    BY <1>1, <2>1, <2>2
<1>6. Prefixes(a) = Prefixes(s) \cup {a}
  <2>1. \A l \in 0..Len(s) : SubSeq(a, 1, l) = SubSeq(s, 1, l)
    BY DEF a
  <2>2. SubSeq(a, 1, Len(s) + 1) = a
    BY DEF a
  <2>3. 0..Len(a) = (0..Len(s)) \cup {Len(s) + 1}
    BY <1>1
  <2>4. QED
    BY <1>1, <2>1, <2>2, <2>3 DEF Prefixes
<1>7. QED
  BY <1>1, <1>2, <1>3, <1>4, <1>5, <1>6 DEF a

LEMMA PrefixFront ==
    ASSUME NEW d \in Seq(Names), d # <<>>
    PROVE  Front(d) \in Prefixes(d)
<1>1. Len(d) - 1 \in 0..Len(d)
  OBVIOUS
<1>2. QED
  BY <1>1 DEF Front, Prefixes
-----------------------------------------------------------------------------
(* The tree of profiles *)

\* The directories of the profiles read so far: those of the calls in progress and
\* those whose artifacts are all collected.
Open == {stack[j].dir : j \in DOMAIN stack}
Known == Open \cup UNION {Prefixes(artifacts[i].dir) : i \in DOMAIN artifacts}

\* at says of which profile a known directory is.  The calls in progress have gone
\* through the first Taken artifacts of theirs, and are done with all of these but
\* the nested profile they wait for.
Def(at, j) == Entries(at[stack[j].dir])
Taken(at, j) == Len(Def(at, j)) - Len(stack[j].rest)
Done(at, j) ==
    IF j = Len(stack) /\ call = NoCall THEN Taken(at, j) ELSE Taken(at, j) - 1

\* Frame j waits for the profile l, in directory d.
WaitsIn(at, j, l, d) ==
    /\ Taken(at, j) \in DOMAIN Def(at, j)
    /\ LET a == Def(at, j)[Taken(at, j)] IN
         Source(a) # NoSource /\ l = Target(Source(a)) /\ d = Append(stack[j].dir, a.name)

FrameInv(at, j) ==
    /\ Len(stack[j].dir) = j - 1
    /\ \A k \in DOMAIN stack : j <= k => IsPrefix(stack[j].dir, stack[k].dir)
    /\ at[stack[j].dir][1] = stack[j].key
    /\ Taken(at, j) \in Nat
    /\ \A q \in DOMAIN stack[j].rest : stack[j].rest[q] = Def(at, j)[Taken(at, j) + q]
    /\ j < Len(stack) => WaitsIn(at, j, at[stack[j + 1].dir], stack[j + 1].dir)

FramesInv(at) == \A j \in DOMAIN stack : FrameInv(at, j)

CallInv(at) ==
    call # NoCall =>
        IF stack = <<>>
        THEN /\ artifacts = <<>> /\ call.dir = <<>>
             /\ <<call.key, call.path>> = <<Root.key, Root.path>>
        ELSE WaitsIn(at, Len(stack), <<call.key, call.path>>, call.dir)

KnownInv(at) ==
    \A d \in Known :
        /\ Prefixes(d) \subseteq Known
        /\ ValidateDefinition(Entries(at[d]))
        /\ d = <<>> => at[d] = <<Root.key, Root.path>>
        /\ d # <<>> => \E a \in ToSet(Entries(at[Front(d)])) :
              Source(a) # NoSource /\ a.name = Last(d) /\ at[d] = Target(Source(a))

\* What a profile's artifact stands for is collected.
Settled(at, d, a) ==
    IF Source(a) = NoSource
    THEN \E i \in DOMAIN artifacts :
            Leaf(i) = [dir |-> d, name |-> a.name, key |-> at[d][1]]
    ELSE Append(d, a.name) \in Known \ Open

SettledInv(at) ==
    /\ \A d \in Known \ Open : \A a \in ToSet(Entries(at[d])) : Settled(at, d, a)
    /\ \A j \in DOMAIN stack : \A q \in DOMAIN Def(at, j) :
          q <= Done(at, j) => Settled(at, stack[j].dir, Def(at, j)[q])

\* s is, or is below, what a call in progress is done with.
BelowDone(at, s) ==
    \E j \in DOMAIN stack : \E q \in DOMAIN Def(at, j) :
        q <= Done(at, j) /\ IsPrefix(Append(stack[j].dir, Def(at, j)[q].name), s)

CollectedInv(at) ==
    /\ \A d \in Known \ Open : BelowDone(at, d)
    /\ \A i \in DOMAIN artifacts :
          BelowDone(at, Address(i)) /\ Leaf(i) \in Leaves(at, artifacts[i].dir)
    /\ \A i, j \in DOMAIN artifacts : i < j => Before(at, i, j)

\* While a run collects, some assignment of profiles to the known directories
\* accounts for all that is collected and all that is in progress.
TreeInv(at) ==
    FramesInv(at) /\ CallInv(at) /\ KnownInv(at) /\ SettledInv(at) /\ CollectedInv(at)

TreeSoFar == pc = "collecting" => \E at \in [Known -> Found] : TreeInv(at)

LEMMA PathsKnown ==
    ASSUME Inv
    PROVE  /\ Known \subseteq Seq(Names) /\ Open \subseteq Known
           /\ \A j \in DOMAIN stack :
                 stack[j] \in Frames /\ stack[j].dir \in Open /\ stack[j].dir \in Seq(Names)
           /\ \A i \in DOMAIN artifacts :
                 /\ artifacts[i].dir \in Known /\ artifacts[i].dir \in Seq(Names)
                 /\ artifacts[i].name \in Names /\ Address(i) \in Seq(Names)
                 /\ Prefixes(artifacts[i].dir) \subseteq Known
<1>1. /\ \A j \in DOMAIN stack : stack[j] \in Frames
      /\ \A i \in DOMAIN artifacts : artifacts[i] \in Wrappers
  BY DEF Inv, TypeOK
<1>2. /\ \A j \in DOMAIN stack : stack[j].dir \in Seq(Names)
      /\ \A i \in DOMAIN artifacts :
            artifacts[i].dir \in Seq(Names) /\ artifacts[i].name \in Names
  BY <1>1 DEF Frames, Wrappers
<1>3. \A d \in Seq(Names) : Prefixes(d) \subseteq Seq(Names)
  BY DEF Prefixes
<1>4. ASSUME NEW i \in DOMAIN artifacts
      PROVE  /\ artifacts[i].dir \in Prefixes(artifacts[i].dir)
             /\ Address(i) \in Seq(Names)
  BY <1>2, PrefixIs, PrefixAppend DEF Address
<1>5. QED
  BY <1>1, <1>2, <1>3, <1>4 DEF Known, Open

LEMMA FoundTypes ==
    ASSUME Inv, NEW l \in Found
    PROVE  /\ l \in Keys \X Paths /\ clones[l[1]] \in Snapshots /\ clones[l[1]] # NoSnapshot
           /\ Entries(l) \in Seq(Artifact)
           /\ \A q \in DOMAIN Entries(l) : Entries(l)[q].name \in Names
<1>1. l \in Keys \X Paths /\ Entries(l) # NoProfile
  BY DEF Found, Entries
<1>2. clones[l[1]] # NoSnapshot
  BY <1>1 DEF Entries, Definition
<1>3. clones[l[1]] \in Snapshots
  BY <1>1, <1>2 DEF Inv, TypeOK
<1>4. Entries(l) \in Seq(Artifact)
  BY <1>1, <1>2, <1>3, InstallerAssumption DEF Entries, Definition
<1>5. \A a \in Artifact : a.name \in Names
  BY DEF Artifact
<1> HIDE DEF Entries
<1>6. \A q \in DOMAIN Entries(l) : Entries(l)[q].name \in Names
  BY <1>4, <1>5
<1>7. QED
  BY <1>1, <1>2, <1>3, <1>4, <1>6

LEMMA FrameTypes ==
    ASSUME Inv, NEW at \in [Known -> Found], FramesInv(at), NEW j \in DOMAIN stack
    PROVE  /\ j \in Nat /\ j > 0 /\ j <= Len(stack) /\ Len(stack) \in DOMAIN stack
           /\ at[stack[j].dir] \in Found
           /\ Def(at, j) \in Seq(Artifact)
           /\ stack[j].rest \in Seq(Artifact)
           /\ Taken(at, j) \in 0..Len(Def(at, j)) /\ Done(at, j) \in Int
           /\ Done(at, j) <= Taken(at, j)
           /\ Len(stack[j].rest) + Taken(at, j) = Len(Def(at, j))
           /\ \A q \in DOMAIN Def(at, j) : Def(at, j)[q].name \in Names
<1>1. j \in Nat /\ j > 0 /\ j <= Len(stack) /\ Len(stack) \in DOMAIN stack
  BY DEF Inv, TypeOK
<1>2. at[stack[j].dir] \in Found
  BY PathsKnown
<1>3. Def(at, j) \in Seq(Artifact) /\ \A q \in DOMAIN Def(at, j) : Def(at, j)[q].name \in Names
  BY <1>2, FoundTypes DEF Def
<1>4. stack[j].rest \in Seq(Artifact)
  BY PathsKnown DEF Frames
<1>5. Taken(at, j) \in Nat
  BY DEF FramesInv, FrameInv
<1> HIDE DEF Def
<1>6. /\ Taken(at, j) \in 0..Len(Def(at, j))
      /\ Len(stack[j].rest) + Taken(at, j) = Len(Def(at, j))
  BY <1>3, <1>4, <1>5 DEF Taken
<1>7. Done(at, j) \in Int /\ Done(at, j) <= Taken(at, j)
  BY <1>5 DEF Done
<1>8. QED
  BY <1>1, <1>2, <1>3, <1>4, <1>6, <1>7

LEMMA DirsKnown ==
    ASSUME Inv, NEW i \in DOMAIN artifacts
    PROVE  Dirs \subseteq Known /\ <<>> \in Known /\ Prefixes(artifacts[i].dir) \subseteq Dirs
<1>1. SubSeq(artifacts[i].dir, 1, 0) = <<>> /\ 0 \in 0..Len(artifacts[i].dir)
  <2> DEFINE d == artifacts[i].dir
  <2>1. d \in Seq(Names)
    BY PathsKnown
  <2> HIDE DEF d
  <2>2. SubSeq(d, 1, 0) = <<>> /\ 0 \in 0..Len(d)
    BY <2>1
  <2>3. QED
    BY <2>2 DEF d
<1>2. <<>> \in Prefixes(artifacts[i].dir)
  BY <1>1, PathsKnown DEF Prefixes
<1>3. QED
  BY <1>2, PathsKnown DEF Dirs

\* What is collected stays so when the calls in progress are the same, are done
\* with the same, and the profiles read do not change.
LEMMA SameDone ==
    ASSUME Inv, NEW at \in [Known -> Found],
           KnownInv(at), SettledInv(at), CollectedInv(at),
           UNCHANGED artifacts, DOMAIN stack' = DOMAIN stack,
           \A l \in Found : l \in Found' /\ Entries(l)' = Entries(l),
           \A j \in DOMAIN stack :
              stack'[j].dir = stack[j].dir /\ Done(at, j)' = Done(at, j)
    PROVE  /\ at \in [Known' -> Found']
           /\ KnownInv(at)' /\ SettledInv(at)' /\ CollectedInv(at)'
<1>1. /\ Known' = Known /\ Open' = Open /\ Dirs' = Dirs
      /\ \A i : Leaf(i)' = Leaf(i) /\ Address(i)' = Address(i)
  BY DEF Known, Open, Dirs, Leaf, Address
<1>2. at \in [Known' -> Found']
  BY <1>1
<1>3. ASSUME NEW d \in Known
      PROVE  Entries(at[d])' = Entries(at[d]) /\ Leaves(at, d)' = Leaves(at, d)
  <2>1. Entries(at[d])' = Entries(at[d])
    OBVIOUS
  <2>2. QED
    BY <2>1 DEF Leaves, Source
<1>4. \A j \in DOMAIN stack : stack[j].dir \in Known /\ Def(at, j)' = Def(at, j)
  BY <1>3, PathsKnown DEF Def
<1>5. KnownInv(at)'
  <2>1. ASSUME NEW d \in Known, d # <<>> PROVE Front(d) \in Known
    <3>1. d \in Seq(Names) /\ Prefixes(d) \subseteq Known
      BY PathsKnown DEF KnownInv
    <3>2. QED
      BY <2>1, <3>1, PrefixFront
  <2>2. QED
    BY <1>1, <1>3, <2>1 DEF KnownInv
<1>6. SettledInv(at)'
  BY <1>1, <1>3, <1>4 DEF SettledInv, Settled
<1>7. CollectedInv(at)'
  <2>1. \A s : BelowDone(at, s) => BelowDone(at, s)'
    BY <1>4 DEF BelowDone
  <2>2. \A i, j \in DOMAIN artifacts : Before(at, i, j) => Before(at, i, j)'
    BY <1>1, <1>3, DirsKnown DEF Before
  <2>3. QED
    BY <1>1, <1>3, <2>1, <2>2, PathsKnown DEF CollectedInv
<1>8. QED
  BY <1>2, <1>5, <1>6, <1>7

\* What is known of the tree rests on the clones that are there, the calls in
\* progress and the artifacts collected.
LEMMA SameTree ==
    ASSUME Inv, NEW at \in [Known -> Found], TreeInv(at),
           UNCHANGED <<call, stack, artifacts>>,
           \A l \in Found : l \in Found' /\ Entries(l)' = Entries(l)
    PROVE  at \in [Known' -> Found'] /\ TreeInv(at)'
<1>1. ASSUME NEW j \in DOMAIN stack
      PROVE  /\ Def(at, j)' = Def(at, j) /\ Taken(at, j)' = Taken(at, j)
             /\ Done(at, j)' = Done(at, j)
  <2>1. at[stack[j].dir] \in Found
    BY PathsKnown
  <2>2. Def(at, j)' = Def(at, j)
    BY <2>1 DEF Def
  <2>3. QED
    BY <2>2 DEF Taken, Done
<1>2. FramesInv(at)'
  BY <1>1 DEF TreeInv, FramesInv, FrameInv, WaitsIn
<1>3. CallInv(at)'
  <2>1. stack # <<>> => Len(stack) \in DOMAIN stack
    BY DEF Inv, TypeOK
  <2>2. QED
    BY <1>1, <2>1 DEF TreeInv, CallInv, WaitsIn
<1>4. QED
  BY <1>1, <1>2, <1>3, SameDone DEF TreeInv

\* A repository is cloned only when nothing is read from it yet.
LEMMA CloneFound ==
    ASSUME Inv, Clone, NEW l \in Found
    PROVE  l \in Found' /\ Entries(l)' = Entries(l)
<1>1. l \in Keys \X Paths /\ clones[l[1]] # NoSnapshot
  BY FoundTypes
<1>2. clones'[l[1]] = clones[l[1]]
  BY <1>1 DEF Clone, CloneCacheKey, Inv, TypeOK
<1>3. Entries(l)' = Entries(l)
  BY <1>2 DEF Entries
<1>4. QED
  BY <1>1, <1>2 DEF Found, Entries, Definition

\* The next artifact of the profile that is gone through.
LEMMA PoppedFrame ==
    ASSUME Inv, NEW at \in [Known -> Found], FramesInv(at), Collecting, Top.rest # <<>>
    PROVE  LET h == Len(stack)  t == Taken(at, h) IN
           /\ h \in DOMAIN stack /\ Top = stack[h] /\ t \in Nat
           /\ t + 1 \in DOMAIN Def(at, h) /\ Head(Top.rest) = Def(at, h)[t + 1]
           /\ Len(Popped) = h /\ DOMAIN Popped = DOMAIN stack
           /\ \A j \in DOMAIN stack :
                 /\ Popped[j].dir = stack[j].dir /\ Popped[j].key = stack[j].key
                 /\ j # h => Popped[j] = stack[j]
           /\ Len(Popped[h].rest) + t + 1 = Len(Def(at, h))
           /\ \A q \in DOMAIN Popped[h].rest : Popped[h].rest[q] = Def(at, h)[t + 1 + q]
<1> DEFINE h == Len(stack)
           t == Taken(at, h)
           def == Def(at, h)
<1>1. h \in DOMAIN stack /\ h \in Nat /\ Top = stack[h] /\ stack \in Seq(Frames)
  BY CollectingFacts DEF Inv, TypeOK
<1>2. /\ Top.rest \in Seq(Artifact) /\ def \in Seq(Artifact)
      /\ t \in Nat /\ Len(Top.rest) + t = Len(def)
      /\ \A q \in DOMAIN Top.rest : Top.rest[q] = def[t + q]
  <2>1. \A q \in DOMAIN stack[h].rest : stack[h].rest[q] = def[t + q]
    BY <1>1 DEF FramesInv, FrameInv
  <2>2. QED
    BY <1>1, <2>1, FrameTypes
<1> DEFINE r == Top.rest
<1>3. /\ Len(r) \in Nat /\ Len(r) >= 1 /\ Head(r) = r[1] /\ 1 \in DOMAIN r
      /\ Tail(r) \in Seq(Artifact) /\ Len(Tail(r)) = Len(r) - 1
      /\ \A q \in DOMAIN Tail(r) : q \in Nat /\ Tail(r)[q] = r[q + 1] /\ q + 1 \in DOMAIN r
  <2> HIDE DEF r
  <2>1. r \in Seq(Artifact) /\ r # <<>>
    BY <1>2 DEF r
  <2>2. QED
    BY <2>1
<1>4. Popped = [stack EXCEPT ![h] = [Top EXCEPT !.rest = Tail(r)]]
  BY <1>1 DEF Popped
<1>5. Top \in Frames
  BY <1>1
<1>6. /\ [Top EXCEPT !.rest = Tail(r)].rest = Tail(r)
      /\ [Top EXCEPT !.rest = Tail(r)].dir = Top.dir
      /\ [Top EXCEPT !.rest = Tail(r)].key = Top.key
  BY <1>5 DEF Frames
<1>7. /\ Popped \in Seq(Frames) /\ DOMAIN Popped = DOMAIN stack
      /\ Popped[h] = [Top EXCEPT !.rest = Tail(r)]
      /\ \A j \in DOMAIN stack : j # h => Popped[j] = stack[j]
  BY <1>1, <1>4, CollectingFacts
<1>8. Len(Popped) = h
  BY <1>1, <1>7
<1> HIDE DEF def, t, r
<1>9. t + 1 \in DOMAIN def /\ Head(r) = def[t + 1]
  BY <1>2, <1>3 DEF r
<1>10. /\ Len(Tail(r)) + t + 1 = Len(def)
       /\ \A q \in DOMAIN Tail(r) : Tail(r)[q] = def[t + 1 + q]
  <2>1. \A q \in DOMAIN Tail(r) : r[q + 1] = def[t + (q + 1)]
    BY <1>2, <1>3 DEF r
  <2>2. \A q \in DOMAIN Tail(r) : t + (q + 1) = t + 1 + q
    BY <1>2, <1>3
  <2>3. QED
    BY <1>2, <1>3, <2>1, <2>2 DEF r
<1>11. Popped[h].rest = Tail(r)
  BY <1>6, <1>7 DEF r
<1>12. \A j \in DOMAIN stack : Popped[j].dir = stack[j].dir /\ Popped[j].key = stack[j].key
  BY <1>1, <1>6, <1>7
<1>13. /\ Len(Popped[h].rest) + t + 1 = Len(def)
       /\ \A q \in DOMAIN Popped[h].rest : Popped[h].rest[q] = def[t + 1 + q]
  BY <1>10, <1>11
<1>14. QED
  BY <1>1, <1>2, <1>7, <1>8, <1>9, <1>12, <1>13 DEF def, t, r

LEMMA PoppedFrames ==
    ASSUME Inv, NEW at \in [Known -> Found], FramesInv(at), Collecting, Top.rest # <<>>,
           stack' = Popped, UNCHANGED clones
    PROVE  /\ Open' = Open /\ Len(stack') = Len(stack) /\ DOMAIN stack' = DOMAIN stack
           /\ \A j \in DOMAIN stack :
                 /\ stack'[j].dir = stack[j].dir /\ Def(at, j)' = Def(at, j)
                 /\ Taken(at, j)' =
                       (IF j = Len(stack) THEN Taken(at, j) + 1 ELSE Taken(at, j))
           /\ FramesInv(at)'
<1> DEFINE h == Len(stack)
<1>1. /\ h \in DOMAIN stack /\ Taken(at, h) \in Nat
      /\ Len(stack') = h /\ DOMAIN stack' = DOMAIN stack
      /\ \A j \in DOMAIN stack :
            /\ stack'[j].dir = stack[j].dir /\ stack'[j].key = stack[j].key
            /\ j # h => stack'[j] = stack[j]
      /\ Len(stack'[h].rest) + Taken(at, h) + 1 = Len(Def(at, h))
      /\ \A q \in DOMAIN stack'[h].rest :
            stack'[h].rest[q] = Def(at, h)[Taken(at, h) + 1 + q]
  BY PoppedFrame
<1>2. Open' = Open
  BY <1>1 DEF Open
<1>3. \A j \in DOMAIN stack : Def(at, j)' = Def(at, j)
  BY <1>1 DEF Def, Entries
<1>4. ASSUME NEW j \in DOMAIN stack
      PROVE  Taken(at, j)' = IF j = h THEN Taken(at, j) + 1 ELSE Taken(at, j)
  <2>1. CASE j = h
    <3>1. stack'[h].rest \in Seq(Artifact)
      <4>1. stack'[h] \in Frames
        BY <1>1, CollectingFacts
      <4>2. QED
        BY <4>1 DEF Frames
    <3>2. Len(stack'[h].rest) \in Nat /\ Len(Def(at, h)) \in Nat
      BY <1>1, <3>1, FrameTypes
    <3>3. Len(Def(at, h)) - Len(stack'[h].rest) = Taken(at, h) + 1
      BY <1>1, <3>2
    <3>4. QED
      BY <1>3, <2>1, <3>3 DEF Taken
  <2>2. CASE j # h
    BY <1>1, <1>3, <2>2 DEF Taken
  <2>3. QED
    BY <2>1, <2>2
<1>5. ASSUME NEW j \in DOMAIN stack PROVE FrameInv(at, j)'
  <2>1. FrameInv(at, j)
    BY DEF FramesInv
  <2>2. /\ Len(stack'[j].dir) = j - 1
        /\ \A k \in DOMAIN stack : j <= k => IsPrefix(stack'[j].dir, stack'[k].dir)
        /\ at[stack'[j].dir][1] = stack'[j].key
        /\ Taken(at, j)' \in Nat
    BY <1>1, <1>4, <2>1 DEF FrameInv
  <2>3. \A q \in DOMAIN stack'[j].rest :
           stack'[j].rest[q] = Def(at, j)'[Taken(at, j)' + q]
    <3>1. CASE j = h
      BY <1>1, <1>3, <1>4, <3>1
    <3>2. CASE j # h
      BY <1>1, <1>3, <1>4, <2>1, <3>2 DEF FrameInv
    <3>3. QED
      BY <3>1, <3>2
  <2>4. ASSUME j < h PROVE WaitsIn(at, j, at[stack[j + 1].dir], stack[j + 1].dir)'
    <3>1. j + 1 \in DOMAIN stack /\ j # h
      BY <2>4 DEF Inv, TypeOK
    <3>2. /\ stack'[j].dir = stack[j].dir /\ stack'[j + 1].dir = stack[j + 1].dir
          /\ Def(at, j)' = Def(at, j) /\ Taken(at, j)' = Taken(at, j)
      BY <1>1, <1>3, <1>4, <3>1
    <3>3. WaitsIn(at, j, at[stack[j + 1].dir], stack[j + 1].dir)
      BY <2>1, <2>4 DEF FrameInv
    <3>4. QED
      BY <3>2, <3>3 DEF WaitsIn
  <2>5. QED
    BY <1>1, <2>2, <2>3, <2>4 DEF FrameInv
<1>6. FramesInv(at)'
  BY <1>1, <1>5 DEF FramesInv
<1>7. QED
  BY <1>1, <1>2, <1>3, <1>4, <1>6

LEMMA NestedProfileTree ==
    ASSUME Inv, NEW at \in [Known -> Found], TreeInv(at), NestedProfile
    PROVE  at \in [Known' -> Found'] /\ TreeInv(at)'
<1> DEFINE h == Len(stack)
           a == Head(Top.rest)
<1>1. /\ Collecting /\ Top.rest # <<>> /\ Source(a) # NoSource /\ stack' = Popped
      /\ call' = [key |-> Source(a).key, path |-> NestedPath(Source(a)),
                  dir |-> Append(Top.dir, a.name)]
      /\ UNCHANGED <<clones, artifacts>> /\ call = NoCall
  BY DEF NestedProfile, NestedDir, Collecting
<1>2. /\ FramesInv(at) /\ FramesInv(at)' /\ Len(stack') = h /\ DOMAIN stack' = DOMAIN stack
      /\ \A j \in DOMAIN stack :
            /\ stack'[j].dir = stack[j].dir /\ Def(at, j)' = Def(at, j)
            /\ Taken(at, j)' = (IF j = h THEN Taken(at, j) + 1 ELSE Taken(at, j))
  BY <1>1, PoppedFrames DEF TreeInv
<1>3. call' # NoCall
  <2>1. "key" \in DOMAIN call'
    BY <1>1
  <2>2. QED
    BY <2>1 DEF NoCall
<1>4. ASSUME NEW j \in DOMAIN stack PROVE Done(at, j)' = Done(at, j)
  <2>1. Taken(at, j) \in Nat
    BY <1>2 DEF FramesInv, FrameInv
  <2>2. QED
    BY <1>1, <1>2, <1>3, <2>1 DEF Done
<1>5. \A l \in Found : l \in Found' /\ Entries(l)' = Entries(l)
  BY <1>1 DEF Found, Entries
<1>6. CallInv(at)'
  <2>1. /\ h \in DOMAIN stack /\ Top = stack[h]
        /\ Taken(at, h) + 1 \in DOMAIN Def(at, h) /\ a = Def(at, h)[Taken(at, h) + 1]
    BY <1>1, <1>2, PoppedFrame
  <2>2. /\ Def(at, h)' = Def(at, h) /\ Taken(at, h)' = Taken(at, h) + 1
        /\ stack'[h].dir = stack[h].dir
    BY <1>2, <2>1
  <2>3. /\ <<call'.key, call'.path>> = Target(Source(a))
        /\ call'.dir = Append(stack[h].dir, a.name)
    BY <1>1, <2>1 DEF Target
  <2> HIDE DEF a
  <2>4. WaitsIn(at, h, <<call.key, call.path>>, call.dir)'
    BY <1>1, <1>2, <2>1, <2>2, <2>3 DEF WaitsIn, a
  <2>5. stack' # <<>>
    BY <1>2, <2>1
  <2>6. QED
    BY <1>2, <2>4, <2>5 DEF CallInv
<1>7. QED
  BY <1>1, <1>2, <1>4, <1>5, <1>6, SameDone DEF TreeInv

\* What a call in progress is done with comes before what it waits for, and before
\* its next artifact.
LEMMA NextComesAfter ==
    ASSUME Inv, NEW at \in [Known -> Found], FramesInv(at), Collecting, Top.rest # <<>>,
           NEW s \in Seq(Names), BelowDone(at, s)
    PROVE  LET h == Len(stack)
               next == Append(stack[h].dir, Def(at, h)[Taken(at, h) + 1].name)
           IN  \E j \in DOMAIN stack : \E p, q \in DOMAIN Def(at, j) :
                  /\ IsPrefix(stack[j].dir, stack[h].dir) /\ p < q
                  /\ IsPrefix(Append(stack[j].dir, Def(at, j)[p].name), s)
                  /\ IsPrefix(Append(stack[j].dir, Def(at, j)[q].name), next)
<1> PICK h, t, d, x, next :
         /\ h = Len(stack) /\ t = Taken(at, h) /\ d = stack[h].dir
         /\ x = Def(at, h)[t + 1].name /\ next = Append(d, x)
  OBVIOUS
<1>1. /\ h \in DOMAIN stack /\ t \in Nat /\ t + 1 \in DOMAIN Def(at, h) /\ x \in Names
      /\ d \in Seq(Names) /\ call = NoCall
  BY PoppedFrame, FrameTypes, PathsKnown DEF Collecting
<1>2. next \in Seq(Names) /\ IsPrefix(next, next)
  BY <1>1, PrefixAppend
<1>3. PICK j \in DOMAIN stack : \E p \in DOMAIN Def(at, j) :
         p <= Done(at, j) /\ IsPrefix(Append(stack[j].dir, Def(at, j)[p].name), s)
  BY DEF BelowDone
<1>4. PICK p \in DOMAIN Def(at, j) :
         p <= Done(at, j) /\ IsPrefix(Append(stack[j].dir, Def(at, j)[p].name), s)
  BY <1>3
<1>5. FrameInv(at, j) /\ j <= h /\ p \in Nat /\ j \in Nat
  BY <1>4, FrameTypes DEF FramesInv
<1>6. IsPrefix(stack[j].dir, d)
  BY <1>1, <1>5 DEF FrameInv
<1> SUFFICES \E q \in DOMAIN Def(at, j) :
                p < q /\ IsPrefix(Append(stack[j].dir, Def(at, j)[q].name), next)
  BY <1>4, <1>6
<1>7. CASE j = h
  <2>1. Done(at, h) = t
    BY <1>1 DEF Done
  <2>2. p < t + 1
    BY <1>1, <1>4, <1>5, <1>7, <2>1
  <2>3. QED
    BY <1>1, <1>2, <1>7, <2>2
<1>8. CASE j # h
  <2>1. j < h /\ j + 1 \in DOMAIN stack /\ j + 1 <= h /\ Taken(at, j) \in Nat
    <3>1. Taken(at, j) \in Nat
      BY <1>5 DEF FrameInv
    <3>2. DOMAIN stack = 1..h
      BY DEF Inv, TypeOK
    <3>3. QED
      BY <1>1, <1>5, <1>8, <3>1, <3>2
  <2>2. p < Taken(at, j)
    BY <1>4, <1>5, <1>8, <2>1 DEF Done
  <2>3. /\ Taken(at, j) \in DOMAIN Def(at, j)
        /\ stack[j + 1].dir = Append(stack[j].dir, Def(at, j)[Taken(at, j)].name)
    BY <1>5, <2>1 DEF FrameInv, WaitsIn
  <2>4. IsPrefix(stack[j + 1].dir, d) /\ stack[j + 1].dir \in Seq(Names)
    BY <1>1, <2>1, PathsKnown DEF FramesInv, FrameInv
  <2>5. IsPrefix(stack[j + 1].dir, next)
    BY <1>1, <2>4, PrefixAppend
  <2>6. QED
    BY <2>2, <2>3, <2>5
<1>9. QED
  BY <1>7, <1>8

LEMMA PlainArtifactTree ==
    ASSUME Inv, NEW at \in [Known -> Found], TreeInv(at), PlainArtifact
    PROVE  at \in [Known' -> Found'] /\ TreeInv(at)'
<1> PICK h, t, a, n, w, dir :
         /\ h = Len(stack) /\ t = Taken(at, h) /\ a = Head(Top.rest)
         /\ n = Len(artifacts) + 1 /\ w = Wrapped(Top, a) /\ dir = stack[h].dir
  OBVIOUS
<1>1. /\ Collecting /\ Top.rest # <<>> /\ Source(a) = NoSource /\ stack' = Popped
      /\ artifacts' = Append(artifacts, w)
      /\ UNCHANGED <<clones, call>> /\ call = NoCall
  BY DEF PlainArtifact, Collecting
<1>2. /\ FramesInv(at) /\ FramesInv(at)' /\ Len(stack') = h /\ DOMAIN stack' = DOMAIN stack
      /\ Open' = Open
      /\ \A j \in DOMAIN stack :
            /\ stack'[j].dir = stack[j].dir /\ Def(at, j)' = Def(at, j)
            /\ Taken(at, j)' = (IF j = h THEN t + 1 ELSE Taken(at, j))
  BY <1>1, PoppedFrames DEF TreeInv
<1>3. /\ h \in DOMAIN stack /\ Top = stack[h] /\ t \in Nat
      /\ t + 1 \in DOMAIN Def(at, h) /\ a = Def(at, h)[t + 1] /\ a.name \in Names
      /\ at[dir][1] = stack[h].key /\ dir \in Seq(Names) /\ dir \in Known
  <2>1. /\ h \in DOMAIN stack /\ Top = stack[h] /\ t \in Nat
        /\ t + 1 \in DOMAIN Def(at, h) /\ a = Def(at, h)[t + 1]
    BY <1>1, <1>2, PoppedFrame
  <2>2. FrameInv(at, h)
    BY <1>2, <2>1 DEF FramesInv
  <2>3. QED
    BY <1>2, <2>1, <2>2, FrameTypes, PathsKnown DEF FrameInv
<1>4. /\ w.dir = dir /\ w.name = a.name /\ w.key = stack[h].key
  BY <1>3 DEF Wrapped
<1>5. /\ DOMAIN artifacts' = DOMAIN artifacts \cup {n}
      /\ n \notin DOMAIN artifacts /\ \A i \in DOMAIN artifacts : i < n
      /\ \A i \in DOMAIN artifacts : artifacts'[i] = artifacts[i]
      /\ artifacts'[n] = w
  <2>1. artifacts \in Seq(Wrappers) /\ artifacts' \in Seq(Wrappers)
    BY <1>1, PlainArtifactInv DEF Inv, TypeOK
  <2>2. QED
    BY <1>1, <2>1
<1>6. /\ \A i \in DOMAIN artifacts : Leaf(i)' = Leaf(i) /\ Address(i)' = Address(i)
      /\ Leaf(n)' = [dir |-> dir, name |-> a.name, key |-> stack[h].key]
      /\ Address(n)' = Append(dir, a.name)
  BY <1>4, <1>5 DEF Leaf, Address
<1>7. /\ Known' = Known /\ Dirs \subseteq Dirs' /\ Prefixes(dir) \subseteq Dirs'
  <2> DEFINE Above == UNION {Prefixes(artifacts[i].dir) : i \in DOMAIN artifacts}
  <2>1. Prefixes(dir) \subseteq Known
    BY <1>3 DEF TreeInv, KnownInv
  <2>2. Above' = Above \cup Prefixes(dir)
    <3>1. \A i \in DOMAIN artifacts : Prefixes(artifacts'[i].dir) = Prefixes(artifacts[i].dir)
      BY <1>5
    <3>2. Prefixes(artifacts'[n].dir) = Prefixes(dir)
      BY <1>4, <1>5
    <3>3. {Prefixes(artifacts'[i].dir) : i \in DOMAIN artifacts'} =
             {Prefixes(artifacts[i].dir) : i \in DOMAIN artifacts} \cup {Prefixes(dir)}
      BY <1>5, <3>1, <3>2
    <3>4. QED
      BY <3>3
  <2>3. Known = Open \cup Above /\ Dirs = {<<>>} \cup Above
    BY DEF Known, Dirs
  <2>4. Known' = Open' \cup Above' /\ Dirs' = {<<>>} \cup Above'
    BY DEF Known, Dirs
  <2> HIDE DEF Above
  <2>5. QED
    BY <1>2, <2>1, <2>2, <2>3, <2>4
<1>8. /\ \A l : Entries(l)' = Entries(l) /\ Found' = Found
      /\ \A d : Leaves(at, d)' = Leaves(at, d)
  BY <1>1 DEF Entries, Found, Leaves, Source
<1>9. \A j \in DOMAIN stack : Done(at, j)' = IF j = h THEN t + 1 ELSE Done(at, j)
  BY <1>1, <1>2 DEF Done
<1>10. Done(at, h) = t
  BY <1>1 DEF Done
<1>11. CallInv(at)' /\ KnownInv(at)'
  BY <1>1, <1>7, <1>8 DEF TreeInv, CallInv, KnownInv
<1>12. SettledInv(at)'
  <2>1. ASSUME NEW d, NEW b, Settled(at, d, b) PROVE Settled(at, d, b)'
    BY <1>2, <1>5, <1>6, <1>7, <2>1 DEF Settled, Source
  <2>2. Settled(at, dir, a)'
    BY <1>1, <1>3, <1>5, <1>6 DEF Settled, Source
  <2>3. ASSUME NEW d \in Known \ Open, NEW b \in ToSet(Entries(at[d]))
        PROVE  Settled(at, d, b)'
    BY <2>1 DEF TreeInv, SettledInv
  <2>4. ASSUME NEW j \in DOMAIN stack, NEW q \in DOMAIN Def(at, j), q <= Done(at, j)'
        PROVE  Settled(at, stack[j].dir, Def(at, j)[q])'
    <3> PICK d, b : d = stack[j].dir /\ b = Def(at, j)[q]
      OBVIOUS
    <3>1. d = stack'[j].dir /\ b = Def(at, j)'[q]
      BY <1>2
    <3>2. CASE q <= Done(at, j)
      <4>1. Settled(at, d, b)
        BY <3>2 DEF TreeInv, SettledInv
      <4>2. QED
        BY <2>1, <3>1, <4>1 DEF Settled
    <3>3. CASE ~(q <= Done(at, j))
      <4>1. q \in Nat /\ Def(at, j) \in Seq(Artifact)
        BY <1>2, FrameTypes
      <4>2. j = h /\ q = t + 1
        BY <1>3, <1>9, <1>10, <2>4, <3>3, <4>1
      <4>3. QED
        BY <1>3, <2>2, <3>1, <4>2 DEF Settled
    <3>4. QED
      BY <3>2, <3>3
  <2>5. QED
    BY <1>2, <1>7, <1>8, <2>3, <2>4 DEF SettledInv
<1>13. CollectedInv(at)'
  <2>1. ASSUME NEW s, BelowDone(at, s) PROVE BelowDone(at, s)'
    <3>1. PICK j \in DOMAIN stack : \E q \in DOMAIN Def(at, j) :
             q <= Done(at, j) /\ IsPrefix(Append(stack[j].dir, Def(at, j)[q].name), s)
      BY <2>1 DEF BelowDone
    <3>2. PICK q \in DOMAIN Def(at, j) :
             q <= Done(at, j) /\ IsPrefix(Append(stack[j].dir, Def(at, j)[q].name), s)
      BY <3>1
    <3>3. q <= Done(at, j)'
      <4>1. Def(at, j) \in Seq(Artifact)
        BY <1>2, FrameTypes
      <4>2. q \in Nat
        BY <4>1
      <4>3. QED
        BY <1>3, <1>9, <1>10, <3>2, <4>2
    <3>4. QED
      BY <1>2, <3>2, <3>3 DEF BelowDone
  <2>2. BelowDone(at, Address(n))'
    <3>1. IsPrefix(Append(dir, a.name), Append(dir, a.name))
      BY <1>3, PrefixAppend
    <3>2. t + 1 <= Done(at, h)' /\ Def(at, h)'[t + 1] = a /\ stack'[h].dir = dir
      BY <1>2, <1>3, <1>9
    <3>3. QED
      BY <1>2, <1>3, <1>6, <3>1, <3>2 DEF BelowDone
  <2>3. Leaf(n)' \in Leaves(at, dir)
    <3>1. a \in ToSet(Entries(at[dir]))
      BY <1>3 DEF ToSet, Def
    <3>2. QED
      BY <1>1, <1>3, <1>6, <3>1 DEF Leaves
  <2>4. ASSUME NEW i \in DOMAIN artifacts'
        PROVE  BelowDone(at, Address(i))' /\ Leaf(i)' \in Leaves(at, artifacts'[i].dir)
    <3>1. CASE i = n
      BY <1>4, <1>5, <2>2, <2>3, <3>1
    <3>2. CASE i # n
      <4> PICK s : s = Address(i)
        OBVIOUS
      <4>1. i \in DOMAIN artifacts /\ s = Address(i)'
        BY <1>5, <1>6, <3>2
      <4>2. BelowDone(at, s) /\ Leaf(i) \in Leaves(at, artifacts[i].dir)
        BY <4>1 DEF TreeInv, CollectedInv
      <4>3. BelowDone(at, s)'
        BY <2>1, <4>2
      <4>4. QED
        BY <1>5, <1>6, <4>1, <4>2, <4>3 DEF BelowDone
    <3>3. QED
      BY <3>1, <3>2
  <2>5. ASSUME NEW i \in DOMAIN artifacts PROVE Before(at, i, n)'
    <3>1. BelowDone(at, Address(i)) /\ Address(i) \in Seq(Names)
      BY PathsKnown DEF TreeInv, CollectedInv
    <3>2. PICK j \in DOMAIN stack : \E p, q \in DOMAIN Def(at, j) :
             /\ IsPrefix(stack[j].dir, dir) /\ p < q
             /\ IsPrefix(Append(stack[j].dir, Def(at, j)[p].name), Address(i))
             /\ IsPrefix(Append(stack[j].dir, Def(at, j)[q].name), Append(dir, a.name))
      BY <1>1, <1>2, <1>3, <3>1, NextComesAfter
    <3> PICK d : d = stack[j].dir
      OBVIOUS
    <3>3. d \in Dirs'
      BY <1>3, <1>7, <3>2, PathsKnown, PrefixIs
    <3>4. QED
      BY <1>6, <1>8, <3>2, <3>3 DEF Before, Def
  <2>6. ASSUME NEW i \in DOMAIN artifacts, NEW j \in DOMAIN artifacts, i < j
        PROVE  Before(at, i, j)'
    <3>1. Before(at, i, j)
      BY <2>6 DEF TreeInv, CollectedInv
    <3>2. QED
      BY <1>6, <1>7, <1>8, <3>1 DEF Before
  <2>7. ASSUME NEW i \in DOMAIN artifacts', NEW j \in DOMAIN artifacts', i < j
        PROVE  Before(at, i, j)'
    <3>1. i \in DOMAIN artifacts
      <4>1. i # n
        <5>1. DOMAIN artifacts = 1..Len(artifacts)
          BY DEF Inv, TypeOK
        <5>2. j \in Nat /\ j <= n
          BY <1>5, <2>7, <5>1
        <5>3. QED
          BY <1>5, <2>7, <5>2
      <4>2. QED
        BY <1>5, <4>1
    <3>2. CASE j = n
      BY <2>5, <3>1, <3>2
    <3>3. CASE j # n
      BY <1>5, <2>6, <2>7, <3>1, <3>3
    <3>4. QED
      BY <3>2, <3>3
  <2>8. QED
    BY <1>2, <1>7, <1>8, <2>1, <2>4, <2>7 DEF TreeInv, CollectedInv
<1>14. QED
  BY <1>2, <1>7, <1>8, <1>11, <1>12, <1>13 DEF TreeInv

\* The calls in progress lead to the directory of the profile that is fetched, each
\* by the nested profile it waits for.
LEMMA CallBelow ==
    ASSUME Inv, NEW at \in [Known -> Found], TreeInv(at), call # NoCall,
           NEW j \in DOMAIN stack
    PROVE  /\ Taken(at, j) \in DOMAIN Def(at, j)
           /\ IsPrefix(Append(stack[j].dir, Def(at, j)[Taken(at, j)].name), call.dir)
           /\ Done(at, j) = Taken(at, j) - 1
<1> PICK n, cd, t, child :
         /\ n = Len(stack) /\ cd = call.dir /\ t = Taken(at, j)
         /\ child = Append(stack[j].dir, Def(at, j)[t].name)
  OBVIOUS
<1>1. /\ j \in Nat /\ j <= n /\ n \in DOMAIN stack /\ stack # <<>> /\ FrameInv(at, j)
      /\ stack[n].dir \in Seq(Names) /\ cd \in Seq(Names)
  <2>1. call \in Calls
    BY DEF Inv, TypeOK
  <2>2. cd \in Seq(Names)
    BY <2>1 DEF Calls
  <2>3. j \in Nat /\ j <= n /\ n \in DOMAIN stack
    BY FrameTypes DEF TreeInv
  <2>4. QED
    BY <2>2, <2>3, PathsKnown DEF TreeInv, FramesInv
<1>2. WaitsIn(at, n, <<call.key, call.path>>, cd)
  BY <1>1 DEF TreeInv, CallInv
<1>3. /\ Taken(at, n) \in DOMAIN Def(at, n)
      /\ cd = Append(stack[n].dir, Def(at, n)[Taken(at, n)].name)
  BY <1>2 DEF WaitsIn
<1>4. Def(at, n)[Taken(at, n)].name \in Names
  BY <1>1, <1>3, FrameTypes DEF TreeInv
<1>5. IsPrefix(stack[n].dir, cd) /\ IsPrefix(cd, cd)
  <2>1. IsPrefix(cd, cd)
    BY <1>1, PrefixIs
  <2>2. IsPrefix(stack[n].dir, Append(stack[n].dir, Def(at, n)[Taken(at, n)].name))
    BY <1>1, <1>4, PrefixAppend
  <2>3. QED
    BY <1>3, <2>1, <2>2
<1>6. Done(at, j) = t - 1
  <2>1. Taken(at, j) \in Nat
    BY <1>1 DEF FrameInv
  <2>2. QED
    BY <2>1 DEF Done
<1>7. CASE j = n
  BY <1>3, <1>5, <1>6, <1>7
<1>8. CASE j # n
  <2>1. j < n /\ j + 1 \in DOMAIN stack /\ j + 1 <= n
    <3>1. DOMAIN stack = 1..n /\ n \in Nat
      BY DEF Inv, TypeOK
    <3>2. QED
      BY <1>1, <1>8, <3>1
  <2>2. t \in DOMAIN Def(at, j) /\ stack[j + 1].dir = child
    BY <1>1, <2>1 DEF FrameInv, WaitsIn
  <2>3. IsPrefix(stack[j + 1].dir, stack[n].dir) /\ stack[j + 1].dir \in Seq(Names)
    BY <1>1, <2>1, PathsKnown DEF TreeInv, FramesInv, FrameInv
  <2>4. IsPrefix(child, cd)
    BY <1>1, <1>5, <2>2, <2>3, PrefixTransitive
  <2>5. QED
    BY <1>6, <2>2, <2>4
<1>9. QED
  BY <1>7, <1>8

\* The directory of the profile that is fetched is new: the artifacts of a profile
\* have different names.
LEMMA CallIsNew ==
    ASSUME Inv, NEW at \in [Known -> Found], TreeInv(at), call # NoCall
    PROVE  /\ call.dir \in Seq(Names) /\ Len(call.dir) = Len(stack)
           /\ \A j \in DOMAIN stack : IsPrefix(stack[j].dir, call.dir)
           /\ call.dir \notin Known
           /\ stack = <<>> => call.dir = <<>>
<1> PICK n, cd : n = Len(stack) /\ cd = call.dir
  OBVIOUS
<1>1. cd \in Seq(Names)
  <2>1. call \in Calls
    BY DEF Inv, TypeOK
  <2>2. QED
    BY <2>1 DEF Calls
<1>2. CASE stack = <<>>
  <2>1. artifacts = <<>> /\ cd = <<>>
    BY <1>2 DEF TreeInv, CallInv
  <2>2. Known = {}
    BY <1>2, <2>1 DEF Known, Open
  <2>3. QED
    BY <1>1, <1>2, <2>1, <2>2
<1>3. CASE stack # <<>>
  <2>1. n \in DOMAIN stack /\ n \in Nat /\ DOMAIN stack = 1..n
    BY <1>3 DEF Inv, TypeOK
  <2>2. ASSUME NEW j \in DOMAIN stack
        PROVE  /\ stack[j].dir \in Seq(Names) /\ Len(stack[j].dir) = j - 1
               /\ IsPrefix(stack[j].dir, cd)
    <3>1. Taken(at, j) \in DOMAIN Def(at, j) /\ Def(at, j)[Taken(at, j)].name \in Names
      BY CallBelow, FrameTypes DEF TreeInv
    <3>2. stack[j].dir \in Seq(Names) /\ Len(stack[j].dir) = j - 1
      BY PathsKnown DEF TreeInv, FramesInv, FrameInv
    <3>3. IsPrefix(stack[j].dir, cd)
      BY <1>1, <3>1, <3>2, CallBelow, PrefixAppend
    <3>4. QED
      BY <3>2, <3>3
  <2>3. Len(cd) = n
    <3>1. WaitsIn(at, n, <<call.key, call.path>>, cd)
      BY <1>3 DEF TreeInv, CallInv
    <3>2. cd = Append(stack[n].dir, Def(at, n)[Taken(at, n)].name)
      BY <3>1 DEF WaitsIn
    <3>3. Len(Append(stack[n].dir, Def(at, n)[Taken(at, n)].name)) = n
      <4>1. stack[n].dir \in Seq(Names) /\ Len(stack[n].dir) = n - 1
        BY <2>1, <2>2
      <4>2. QED
        BY <2>1, <4>1
    <3>4. QED
      BY <3>2, <3>3
  <2>4. cd \notin Open
    BY <2>1, <2>2, <2>3 DEF Open
  <2>5. ~BelowDone(at, cd)
    <3> SUFFICES ASSUME NEW j \in DOMAIN stack, NEW q \in DOMAIN Def(at, j),
                        q <= Done(at, j),
                        IsPrefix(Append(stack[j].dir, Def(at, j)[q].name), cd)
                 PROVE  FALSE
      BY DEF BelowDone
    <3>1. /\ Taken(at, j) \in DOMAIN Def(at, j)
          /\ IsPrefix(Append(stack[j].dir, Def(at, j)[Taken(at, j)].name), cd)
          /\ q <= Taken(at, j) - 1
      BY CallBelow
    <3>2. Def(at, j)[q].name \in Names /\ Def(at, j)[Taken(at, j)].name \in Names
      BY <3>1, FrameTypes DEF TreeInv
    <3>3. Def(at, j)[q].name = Def(at, j)[Taken(at, j)].name
      BY <1>1, <2>2, <3>1, <3>2, PrefixAppend
    <3>4. q = Taken(at, j)
      BY <3>1, <3>3, PathsKnown DEF TreeInv, KnownInv, ValidateDefinition, Def
    <3>5. Taken(at, j) \in Nat
      BY FrameTypes DEF TreeInv
    <3>6. QED
      BY <3>1, <3>4, <3>5
  <2>6. QED
    BY <1>1, <1>3, <2>2, <2>3, <2>4, <2>5 DEF TreeInv, CollectedInv
<1>4. QED
  BY <1>2, <1>3

\* A call starts: its profile is of the directory the call is for.
LEMMA ReadDefinitionTree ==
    ASSUME Inv, NEW at \in [Known -> Found], TreeInv(at), ReadDefinition
    PROVE  \E new \in [Known' -> Found'] : TreeInv(new)'
<1> PICK n, cd, l, new :
         /\ n = Len(stack) /\ cd = call.dir /\ l = <<call.key, call.path>>
         /\ new = [d \in Known \cup {cd} |-> IF d = cd THEN l ELSE at[d]]
  OBVIOUS
<1> PICK def : def = Entries(l)
  OBVIOUS
<1>1. /\ call # NoCall /\ call \in Calls /\ ValidateDefinition(def) /\ def # NoProfile
      /\ stack' = Append(stack, [key |-> call.key, dir |-> cd, rest |-> def])
      /\ call' = NoCall /\ UNCHANGED <<clones, artifacts>>
  BY DEF ReadDefinition, CloneCacheKey, Entries, Inv, TypeOK
<1>2. l \in Found /\ def \in Seq(Artifact)
  <2>1. l \in Found
    BY <1>1 DEF Found, Entries, Calls
  <2>2. QED
    BY <2>1, FoundTypes
<1>3. /\ cd \in Seq(Names) /\ Len(cd) = n /\ cd \notin Known
      /\ \A j \in DOMAIN stack : IsPrefix(stack[j].dir, cd)
      /\ stack = <<>> => cd = <<>>
  BY <1>1, CallIsNew
<1>4. /\ n \in Nat /\ Len(stack') = n + 1 /\ DOMAIN stack = 1..n
      /\ DOMAIN stack' = DOMAIN stack \cup {n + 1}
      /\ \A j \in DOMAIN stack : stack'[j] = stack[j] /\ j # n + 1
      /\ stack'[n + 1].dir = cd /\ stack'[n + 1].key = call.key
      /\ stack'[n + 1].rest = def
  <2>1. stack \in Seq(Frames)
    BY DEF Inv, TypeOK
  <2>2. [key |-> call.key, dir |-> cd, rest |-> def] \in Frames
    BY <1>1, <1>2, <1>3 DEF Frames, Calls
  <2>3. QED
    BY <1>1, <2>1, <2>2
<1>5. Open' = Open \cup {cd} /\ Known' = Known \cup {cd} /\ Known' \ Open' = Known \ Open
  <2>1. Open' = Open \cup {cd}
    BY <1>4 DEF Open
  <2>2. Known' = Known \cup {cd}
    BY <1>1, <2>1 DEF Known
  <2>3. QED
    BY <1>3, <2>1, <2>2
<1>6. /\ \A k : Entries(k)' = Entries(k) /\ Found' = Found /\ Dirs' = Dirs
      /\ \A i : Leaf(i)' = Leaf(i) /\ Address(i)' = Address(i)
  BY <1>1 DEF Entries, Found, Dirs, Leaf, Address
<1>7. /\ new \in [Known' -> Found'] /\ new[cd] = l
      /\ \A d \in Known : new[d] = at[d]
  BY <1>2, <1>3, <1>5, <1>6
<1>8. ASSUME NEW j \in DOMAIN stack
      PROVE  /\ Def(new, j)' = Def(at, j) /\ Taken(new, j)' = Taken(at, j)
             /\ Done(new, j)' = Done(at, j)
  <2>1. Def(new, j)' = Def(at, j)
    BY <1>4, <1>6, <1>7, PathsKnown DEF Def
  <2>2. Taken(new, j)' = Taken(at, j)
    BY <1>4, <2>1 DEF Taken
  <2>3. Done(at, j) = Taken(at, j) - 1
    BY <1>1, CallBelow
  <2>4. j # Len(stack')
    BY <1>4
  <2>5. QED
    BY <2>1, <2>2, <2>3, <2>4 DEF Done
<1>9. Def(new, n + 1)' = def /\ Taken(new, n + 1)' = 0 /\ Done(new, n + 1)' = 0
  <2>1. Def(new, n + 1)' = def
    BY <1>4, <1>6, <1>7 DEF Def
  <2>2. Len(def) - Len(def) = 0
    BY <1>2
  <2>3. Taken(new, n + 1)' = 0
    BY <1>4, <2>1, <2>2 DEF Taken
  <2>4. QED
    BY <1>1, <1>4, <2>1, <2>3 DEF Done
<1>10. FramesInv(new)'
  <2>1. ASSUME NEW j \in DOMAIN stack PROVE FrameInv(new, j)'
    <3>1. FrameInv(at, j) /\ stack[j].dir \in Known /\ j \in Nat /\ j <= n
      BY <1>4, PathsKnown DEF TreeInv, FramesInv
    <3>2. /\ Len(stack'[j].dir) = j - 1
          /\ \A k \in DOMAIN stack' : j <= k => IsPrefix(stack'[j].dir, stack'[k].dir)
          /\ new[stack'[j].dir][1] = stack'[j].key
          /\ Taken(new, j)' \in Nat
          /\ \A q \in DOMAIN stack'[j].rest :
                stack'[j].rest[q] = Def(new, j)'[Taken(new, j)' + q]
      BY <1>3, <1>4, <1>7, <1>8, <3>1 DEF FrameInv
    <3>3. WaitsIn(new, j, new[stack[j + 1].dir], stack[j + 1].dir)'
      <4>1. CASE j = n
        <5>1. WaitsIn(at, j, l, cd)
          BY <1>1, <1>4, <4>1 DEF TreeInv, CallInv
        <5>2. stack'[j + 1].dir = cd /\ new[cd] = l /\ stack'[j].dir = stack[j].dir
          BY <1>4, <1>7, <4>1
        <5>3. QED
          BY <1>8, <5>1, <5>2 DEF WaitsIn
      <4>2. CASE j # n
        <5>1. j + 1 \in DOMAIN stack /\ j < n
          BY <1>4, <3>1, <4>2
        <5>2. WaitsIn(at, j, at[stack[j + 1].dir], stack[j + 1].dir)
          BY <3>1, <5>1 DEF FrameInv
        <5>3. /\ stack'[j + 1].dir = stack[j + 1].dir /\ stack'[j].dir = stack[j].dir
              /\ new[stack[j + 1].dir] = at[stack[j + 1].dir]
          BY <1>4, <1>7, <5>1, PathsKnown
        <5>4. QED
          BY <1>8, <5>2, <5>3 DEF WaitsIn
      <4>3. QED
        BY <4>1, <4>2
    <3>4. QED
      BY <3>2, <3>3 DEF FrameInv
  <2>2. FrameInv(new, n + 1)'
    <3>1. IsPrefix(cd, cd)
      BY <1>3, PrefixIs
    <3>2. \A k \in DOMAIN stack' : n + 1 <= k => k = n + 1
      BY <1>4
    <3>3. /\ Len(stack'[n + 1].dir) = n + 1 - 1
          /\ \A k \in DOMAIN stack' : n + 1 <= k => IsPrefix(stack'[n + 1].dir, stack'[k].dir)
          /\ new[stack'[n + 1].dir][1] = stack'[n + 1].key
      BY <1>3, <1>4, <1>7, <3>1, <3>2
    <3>4. \A q \in DOMAIN def : def[q] = def[0 + q]
      BY <1>2
    <3>5. QED
      BY <1>4, <1>9, <3>3, <3>4 DEF FrameInv
  <2>3. QED
    BY <1>4, <2>1, <2>2 DEF FramesInv
<1>11. CallInv(new)'
  BY <1>1 DEF CallInv
<1>12. KnownInv(new)'
  <2>1. ASSUME NEW d \in Known
        PROVE  /\ Prefixes(d) \subseteq Known'
               /\ ValidateDefinition(Entries(new[d])')
               /\ d = <<>> => new[d] = <<Root.key, Root.path>>
               /\ d # <<>> => \E a \in ToSet(Entries(new[Front(d)])') :
                     Source(a) # NoSource /\ a.name = Last(d) /\ new[d] = Target(Source(a))
    <3>1. /\ Prefixes(d) \subseteq Known /\ ValidateDefinition(Entries(at[d]))
          /\ d = <<>> => at[d] = <<Root.key, Root.path>>
          /\ d # <<>> => \E a \in ToSet(Entries(at[Front(d)])) :
                Source(a) # NoSource /\ a.name = Last(d) /\ at[d] = Target(Source(a))
      BY DEF TreeInv, KnownInv
    <3>2. d # <<>> => Front(d) \in Known
      BY <3>1, PathsKnown, PrefixFront
    <3>3. QED
      BY <1>5, <1>6, <1>7, <3>1, <3>2
  <2>2. /\ Prefixes(cd) \subseteq Known'
        /\ cd = <<>> => l = <<Root.key, Root.path>>
        /\ cd # <<>> => \E a \in ToSet(Entries(new[Front(cd)])') :
              Source(a) # NoSource /\ a.name = Last(cd) /\ l = Target(Source(a))
    <3>1. CASE stack = <<>>
      <4>1. cd = <<>> /\ l = <<Root.key, Root.path>>
        BY <1>1, <3>1 DEF TreeInv, CallInv
      <4>2. Prefixes(<<>>) = {<<>>}
        <5>1. Len(<<>>) = 0 /\ SubSeq(<<>>, 1, 0) = <<>> /\ 0..0 = {0}
          OBVIOUS
        <5>2. QED
          BY <5>1 DEF Prefixes
      <4>3. QED
        BY <1>5, <4>1, <4>2
    <3>2. CASE stack # <<>>
      <4>1. n \in DOMAIN stack /\ WaitsIn(at, n, l, cd)
        <5>1. n \in DOMAIN stack
          BY <3>2 DEF Inv, TypeOK
        <5>2. QED
          BY <1>1, <3>2, <5>1 DEF TreeInv, CallInv
      <4> PICK d, a, x :
               d = stack[n].dir /\ a = Def(at, n)[Taken(at, n)] /\ x = a.name
        OBVIOUS
      <4>2. /\ Taken(at, n) \in DOMAIN Def(at, n) /\ Source(a) # NoSource
            /\ l = Target(Source(a)) /\ cd = Append(d, x)
        BY <4>1 DEF WaitsIn
      <4>3. d \in Known /\ d \in Seq(Names) /\ x \in Names
        BY <4>1, <4>2, PathsKnown, FrameTypes DEF TreeInv
      <4>4. /\ Front(cd) = d /\ Last(cd) = x /\ cd # <<>>
            /\ Prefixes(cd) = Prefixes(d) \cup {cd}
        <5>1. /\ Front(Append(d, x)) = d /\ Last(Append(d, x)) = x
              /\ Append(d, x) # <<>>
              /\ Prefixes(Append(d, x)) = Prefixes(d) \cup {Append(d, x)}
          BY <4>3, PrefixAppend
        <5>2. QED
          BY <4>2, <5>1
      <4>5. Prefixes(d) \subseteq Known
        BY <4>3 DEF TreeInv, KnownInv
      <4>6. a \in ToSet(Entries(new[Front(cd)])')
        <5>1. a \in ToSet(Def(at, n))
          BY <4>2 DEF ToSet
        <5>2. Entries(new[Front(cd)])' = Def(at, n)
          BY <1>6, <1>7, <4>3, <4>4 DEF Def
        <5>3. QED
          BY <5>1, <5>2
      <4>7. QED
        BY <1>5, <4>2, <4>4, <4>5, <4>6
    <3>3. QED
      BY <3>1, <3>2
  <2>3. QED
    BY <1>1, <1>5, <1>6, <1>7, <2>1, <2>2 DEF KnownInv
<1>13. SettledInv(new)'
  <2>1. ASSUME NEW d \in Known, NEW a, Settled(at, d, a) PROVE Settled(new, d, a)'
    BY <1>1, <1>5, <1>6, <1>7, <2>1 DEF Settled
  <2>2. ASSUME NEW d \in Known \ Open, NEW a \in ToSet(Entries(at[d]))
        PROVE  Settled(new, d, a)'
    BY <2>1 DEF TreeInv, SettledInv
  <2>3. ASSUME NEW j \in DOMAIN stack', NEW q \in DOMAIN Def(new, j)',
               q <= Done(new, j)'
        PROVE  Settled(new, stack[j].dir, Def(new, j)[q])'
    <3>1. j \in DOMAIN stack
      <4>1. CASE j = n + 1
        <5>1. q \in DOMAIN def /\ q <= 0
          BY <1>9, <2>3, <4>1
        <5>2. QED
          BY <1>2, <5>1
      <4>2. QED
        BY <1>4, <4>1
    <3> PICK d, a : d = stack[j].dir /\ a = Def(at, j)[q]
      OBVIOUS
    <3>2. /\ d = stack'[j].dir /\ a = Def(new, j)'[q] /\ d \in Known
          /\ q \in DOMAIN Def(at, j) /\ q <= Done(at, j)
      BY <1>4, <1>8, <2>3, <3>1, PathsKnown
    <3>3. Settled(at, d, a)
      BY <3>1, <3>2 DEF TreeInv, SettledInv
    <3>4. Settled(new, d, a)'
      BY <2>1, <3>2, <3>3
    <3>5. QED
      BY <3>2, <3>4 DEF Settled
  <2>4. \A d \in Known \ Open : Entries(new[d])' = Entries(at[d])
    BY <1>6, <1>7
  <2>5. QED
    BY <1>5, <2>2, <2>3, <2>4 DEF SettledInv
<1>14. CollectedInv(new)'
  <2>1. ASSUME NEW s, BelowDone(at, s) PROVE BelowDone(new, s)'
    <3>1. PICK j \in DOMAIN stack : \E q \in DOMAIN Def(at, j) :
             q <= Done(at, j) /\ IsPrefix(Append(stack[j].dir, Def(at, j)[q].name), s)
      BY <2>1 DEF BelowDone
    <3>2. QED
      BY <1>4, <1>8, <3>1 DEF BelowDone
  <2>2. ASSUME NEW i \in DOMAIN artifacts, NEW j \in DOMAIN artifacts, Before(at, i, j)
        PROVE  Before(new, i, j)'
    <3>1. Dirs \subseteq Known
      BY DirsKnown
    <3>2. \A d \in Dirs : Entries(new[d])' = Entries(at[d])
      BY <1>6, <1>7, <3>1
    <3>3. QED
      BY <1>6, <2>2, <3>2 DEF Before
  <2>3. ASSUME NEW i \in DOMAIN artifacts
        PROVE  BelowDone(new, Address(i))' /\ Leaf(i)' \in Leaves(new, artifacts[i].dir)'
    <3> PICK s : s = Address(i)
      OBVIOUS
    <3>1. BelowDone(at, s) /\ Leaf(i) \in Leaves(at, artifacts[i].dir)
      BY DEF TreeInv, CollectedInv
    <3>2. BelowDone(new, s)' /\ s = Address(i)'
      BY <1>6, <2>1, <3>1
    <3>3. BelowDone(new, Address(i))'
      BY <3>2 DEF BelowDone
    <3>4. Leaf(i)' \in Leaves(new, artifacts[i].dir)'
      <4> PICK d : d = artifacts[i].dir
        OBVIOUS
      <4>1. PICK a \in ToSet(Entries(at[d])) :
               /\ Source(a) = NoSource
               /\ Leaf(i) = [dir |-> d, name |-> a.name, key |-> at[d][1]]
        BY <3>1 DEF Leaves
      <4>2. d \in Known /\ d = artifacts'[i].dir
        BY <1>1, PathsKnown
      <4>3. a \in ToSet(Entries(new[d])') /\ new[d] = at[d]
        BY <1>6, <1>7, <4>2
      <4>4. QED
        BY <1>6, <4>1, <4>2, <4>3 DEF Leaves, Source
    <3>5. QED
      BY <3>3, <3>4
  <2>4. QED
    BY <1>1, <1>5, <2>1, <2>2, <2>3 DEF TreeInv, CollectedInv
<1>15. QED
  BY <1>7, <1>10, <1>11, <1>12, <1>13, <1>14 DEF TreeInv

\* A call that returns is done with all artifacts of its profile, of which there is
\* at least one.
LEMMA ReturnFrame ==
    ASSUME Inv, NEW at \in [Known -> Found], TreeInv(at), Return
    PROVE  LET h == Len(stack)  e == stack[h].dir IN
           /\ h \in DOMAIN stack /\ call = NoCall /\ DOMAIN stack = 1..h /\ h \in Nat
           /\ e \in Known /\ e \in Seq(Names) /\ Len(e) = h - 1
           /\ Taken(at, h) = Len(Def(at, h)) /\ Done(at, h) = Taken(at, h)
           /\ \A a \in ToSet(Def(at, h)) : Settled(at, e, a) /\ a.name \in Names
           /\ e \in UNION {Prefixes(artifacts[i].dir) : i \in DOMAIN artifacts}
<1> PICK h, e, def : h = Len(stack) /\ e = stack[h].dir /\ def = Def(at, h)
  OBVIOUS
<1>1. /\ Collecting /\ Top.rest = <<>> /\ call = NoCall /\ FramesInv(at)
  BY DEF Return, Collecting, TreeInv
<1>2. /\ h \in DOMAIN stack /\ Top = stack[h] /\ DOMAIN stack = 1..h /\ h \in Nat
  BY <1>1, CollectingFacts DEF Inv, TypeOK
<1>3. e \in Known /\ e \in Seq(Names) /\ Len(e) = h - 1
  BY <1>1, <1>2, PathsKnown DEF FramesInv, FrameInv
<1>4. /\ def \in Seq(Artifact) /\ Taken(at, h) = Len(def) /\ Done(at, h) = Taken(at, h)
      /\ \A q \in DOMAIN def : def[q].name \in Names
  <2>1. def \in Seq(Artifact) /\ \A q \in DOMAIN def : def[q].name \in Names
    BY <1>1, <1>2, FrameTypes
  <2>2. Len(stack[h].rest) = 0
    BY <1>1, <1>2
  <2>3. Taken(at, h) = Len(def) - 0
    BY <2>2 DEF Taken
  <2>4. QED
    BY <1>1, <2>1, <2>3 DEF Done
<1>5. ASSUME NEW a \in ToSet(def)
      PROVE  Settled(at, e, a) /\ a.name \in Names
  <2>1. PICK q \in DOMAIN def : a = def[q]
    BY DEF ToSet
  <2>2. q <= Done(at, h)
    BY <1>4
  <2>3. Settled(at, e, def[q])
    BY <1>2, <2>2 DEF TreeInv, SettledInv
  <2>4. QED
    BY <1>4, <2>1, <2>3
<1>6. PICK a, x : a \in ToSet(def) /\ x = a.name
  <2>1. ValidateDefinition(def)
    BY <1>3 DEF TreeInv, KnownInv, Def
  <2>2. 1 \in DOMAIN def
    BY <1>4, <2>1 DEF ValidateDefinition
  <2>3. def[1] \in ToSet(def)
    BY <2>2 DEF ToSet
  <2>4. QED
    BY <2>3
<1>7. PICK i \in DOMAIN artifacts : IsPrefix(e, artifacts[i].dir)
  <2>1. CASE Source(a) = NoSource
    <3>1. PICK i \in DOMAIN artifacts :
             Leaf(i) = [dir |-> e, name |-> a.name, key |-> at[e][1]]
      BY <1>5, <1>6, <2>1 DEF Settled
    <3>2. artifacts[i].dir = e
      BY <3>1 DEF Leaf
    <3>3. IsPrefix(e, e)
      BY <1>3, PrefixIs
    <3>4. QED
      BY <3>2, <3>3
  <2>2. CASE Source(a) # NoSource
    <3>1. Append(e, x) \in Known \ Open
      BY <1>5, <1>6, <2>2 DEF Settled
    <3>2. PICK i \in DOMAIN artifacts : Append(e, x) \in Prefixes(artifacts[i].dir)
      BY <3>1 DEF Known
    <3>3. x \in Names /\ artifacts[i].dir \in Seq(Names) /\ Append(e, x) \in Seq(Names)
      BY <1>5, <1>6, <3>1, PathsKnown
    <3>4. IsPrefix(Append(e, x), artifacts[i].dir)
      BY <3>2, <3>3, PrefixIs
    <3>5. IsPrefix(e, artifacts[i].dir)
      BY <1>3, <3>3, <3>4, PrefixAppend
    <3>6. QED
      BY <3>5
  <2>3. QED
    BY <2>1, <2>2
<1>8. e \in Prefixes(artifacts[i].dir)
  BY <1>3, <1>7, PathsKnown, PrefixIs
<1>9. QED
  BY <1>1, <1>2, <1>3, <1>4, <1>5, <1>8

\* A call returns to the call that waits for it, which is now done with the nested
\* profile and whatever is below it.
LEMMA ReturnTree ==
    ASSUME Inv, NEW at \in [Known -> Found], TreeInv(at), Return, Len(stack) # 1
    PROVE  at \in [Known' -> Found'] /\ TreeInv(at)'
<1> PICK h, e, k, x :
         /\ h = Len(stack) /\ e = stack[h].dir /\ k = h - 1
         /\ x = Def(at, k)[Taken(at, k)].name
  OBVIOUS
<1>1. /\ stack' = Front(stack) /\ call = NoCall
      /\ UNCHANGED <<clones, call, artifacts>> /\ FramesInv(at)
  BY DEF Return, Collecting, TreeInv
<1>2. /\ h \in DOMAIN stack /\ DOMAIN stack = 1..h /\ h \in Nat
      /\ e \in Known /\ e \in Seq(Names) /\ Len(e) = h - 1
      /\ \A a \in ToSet(Def(at, h)) : Settled(at, e, a)
      /\ e \in UNION {Prefixes(artifacts[i].dir) : i \in DOMAIN artifacts}
  BY ReturnFrame
<1>3. /\ k \in DOMAIN stack /\ k \in Nat /\ k + 1 = h /\ k < h
  BY <1>2
<1>4. /\ Len(stack') = k /\ DOMAIN stack' = 1..k /\ DOMAIN stack = DOMAIN stack' \cup {h}
      /\ h \notin DOMAIN stack' /\ k \in DOMAIN stack'
      /\ \A j \in DOMAIN stack' : j \in DOMAIN stack /\ j < h /\ stack'[j] = stack[j]
  <2>1. stack \in Seq(Frames)
    BY DEF Inv, TypeOK
  <2>2. stack' = SubSeq(stack, 1, k) /\ k \in 1..h
    BY <1>1, <1>2, <1>3 DEF Front
  <2>3. Len(stack') = k /\ DOMAIN stack' = 1..k /\ \A j \in 1..k : stack'[j] = stack[j]
    BY <2>1, <2>2
  <2>4. QED
    BY <1>2, <1>3, <2>3
<1>5. /\ Open' = Open \ {e} /\ Known' = Known /\ Known' \ Open' = (Known \ Open) \cup {e}
  <2>1. \A j \in DOMAIN stack : Len(stack[j].dir) = j - 1
    BY <1>1 DEF FramesInv, FrameInv
  <2>2. \A j \in DOMAIN stack' : stack[j].dir # e
    BY <1>2, <1>4, <2>1
  <2>3. Open = Open' \cup {e} /\ e \notin Open'
    BY <1>4, <2>2 DEF Open
  <2>4. Known' = Known
    BY <1>1, <1>2, <2>3 DEF Known
  <2>5. QED
    BY <1>2, <2>3, <2>4
<1>6. /\ \A l : Entries(l)' = Entries(l) /\ Found' = Found /\ Dirs' = Dirs
      /\ \A i : Leaf(i)' = Leaf(i) /\ Address(i)' = Address(i)
      /\ \A d : Leaves(at, d)' = Leaves(at, d)
  BY <1>1 DEF Entries, Found, Dirs, Leaf, Address, Leaves, Source
<1>7. ASSUME NEW j \in DOMAIN stack'
      PROVE  /\ Def(at, j)' = Def(at, j) /\ Taken(at, j)' = Taken(at, j)
             /\ Done(at, j) = Taken(at, j) - 1
             /\ Done(at, j)' = IF j = k THEN Taken(at, j) ELSE Taken(at, j) - 1
             /\ Taken(at, j) \in Nat
  <2>1. Def(at, j)' = Def(at, j)
    BY <1>4, <1>6 DEF Def
  <2>2. Taken(at, j)' = Taken(at, j)
    BY <1>4, <2>1 DEF Taken
  <2>3. Taken(at, j) \in Nat
    BY <1>1, <1>4 DEF FramesInv, FrameInv
  <2>4. j # Len(stack)
    BY <1>4
  <2>5. QED
    BY <1>1, <1>4, <2>1, <2>2, <2>3, <2>4 DEF Done
<1>8. FramesInv(at)'
  <2>1. ASSUME NEW j \in DOMAIN stack' PROVE FrameInv(at, j)'
    <3>1. FrameInv(at, j) /\ j \in DOMAIN stack
      BY <1>1, <1>4 DEF FramesInv
    <3>2. /\ Len(stack'[j].dir) = j - 1
          /\ \A i \in DOMAIN stack' : j <= i => IsPrefix(stack'[j].dir, stack'[i].dir)
          /\ at[stack'[j].dir][1] = stack'[j].key
          /\ Taken(at, j)' \in Nat
          /\ \A q \in DOMAIN stack'[j].rest :
                stack'[j].rest[q] = Def(at, j)'[Taken(at, j)' + q]
      BY <1>4, <1>7, <3>1 DEF FrameInv
    <3>3. ASSUME j < k PROVE WaitsIn(at, j, at[stack[j + 1].dir], stack[j + 1].dir)'
      <4>1. j + 1 \in DOMAIN stack' /\ j < h
        BY <1>3, <1>4, <3>3
      <4>2. WaitsIn(at, j, at[stack[j + 1].dir], stack[j + 1].dir)
        BY <3>1, <4>1 DEF FrameInv
      <4>3. stack'[j + 1].dir = stack[j + 1].dir /\ stack'[j].dir = stack[j].dir
        BY <1>4, <4>1
      <4>4. QED
        BY <1>7, <4>2, <4>3 DEF WaitsIn
    <3>4. QED
      BY <1>4, <3>2, <3>3 DEF FrameInv
  <2>2. QED
    BY <2>1 DEF FramesInv
<1>9. CallInv(at)' /\ KnownInv(at)'
  BY <1>1, <1>5, <1>6 DEF TreeInv, CallInv, KnownInv
<1>10. /\ Taken(at, k) \in DOMAIN Def(at, k) /\ e = Append(stack[k].dir, x)
       /\ Source(Def(at, k)[Taken(at, k)]) # NoSource /\ IsPrefix(e, e)
  <2>1. WaitsIn(at, k, at[stack[h].dir], stack[h].dir)
    BY <1>1, <1>3 DEF FramesInv, FrameInv
  <2>2. IsPrefix(e, e)
    BY <1>2, PrefixIs
  <2>3. QED
    BY <2>1, <2>2 DEF WaitsIn
<1>11. SettledInv(at)'
  <2>1. ASSUME NEW d, NEW a, Settled(at, d, a) PROVE Settled(at, d, a)'
    BY <1>1, <1>5, <1>6, <2>1 DEF Settled
  <2>2. ASSUME NEW d \in (Known \ Open) \cup {e}, NEW a \in ToSet(Entries(at[d]))
        PROVE  Settled(at, d, a)'
    <3>1. CASE d = e
      BY <1>2, <2>1, <2>2, <3>1 DEF Def
    <3>2. CASE d \in Known \ Open
      BY <2>1, <3>2 DEF TreeInv, SettledInv
    <3>3. QED
      BY <3>1, <3>2
  <2>3. ASSUME NEW j \in DOMAIN stack', NEW q \in DOMAIN Def(at, j), q <= Done(at, j)'
        PROVE  Settled(at, stack[j].dir, Def(at, j)[q])'
    <3> PICK d, a : d = stack[j].dir /\ a = Def(at, j)[q]
      OBVIOUS
    <3>1. d = stack'[j].dir /\ a = Def(at, j)'[q] /\ j \in DOMAIN stack
      BY <1>4, <1>7
    <3>2. CASE q <= Done(at, j)
      <4>1. Settled(at, d, a)
        BY <3>1, <3>2 DEF TreeInv, SettledInv
      <4>2. Settled(at, d, a)'
        BY <2>1, <4>1
      <4>3. QED
        BY <3>1, <4>2 DEF Settled
    <3>3. CASE ~(q <= Done(at, j))
      <4>1. q \in Nat
        <5>1. Def(at, j) \in Seq(Artifact)
          BY <1>1, <3>1, FrameTypes
        <5>2. QED
          BY <5>1
      <4>2. j = k /\ q = Taken(at, k)
        BY <1>7, <2>3, <3>3, <4>1
      <4>3. Settled(at, d, a)'
        BY <1>5, <1>10, <4>2 DEF Settled, Source
      <4>4. QED
        BY <3>1, <4>3 DEF Settled
    <3>4. QED
      BY <3>2, <3>3
  <2>4. QED
    BY <1>5, <1>6, <1>7, <2>2, <2>3 DEF SettledInv
<1>12. CollectedInv(at)'
  <2>1. ASSUME NEW s, IsPrefix(e, s) PROVE BelowDone(at, s)'
    <3>1. Taken(at, k) <= Done(at, k)'
      BY <1>4, <1>7
    <3>2. /\ stack'[k].dir = stack[k].dir /\ Def(at, k)' = Def(at, k)
      BY <1>4, <1>7
    <3>3. IsPrefix(Append(stack'[k].dir, Def(at, k)'[Taken(at, k)].name), s)
      BY <1>10, <2>1, <3>2
    <3>4. QED
      BY <1>4, <1>10, <3>1, <3>2, <3>3 DEF BelowDone
  <2>2. ASSUME NEW s \in Seq(Names), BelowDone(at, s) PROVE BelowDone(at, s)'
    <3>1. PICK j \in DOMAIN stack : \E q \in DOMAIN Def(at, j) :
             q <= Done(at, j) /\ IsPrefix(Append(stack[j].dir, Def(at, j)[q].name), s)
      BY <2>2 DEF BelowDone
    <3>2. PICK q \in DOMAIN Def(at, j) :
             q <= Done(at, j) /\ IsPrefix(Append(stack[j].dir, Def(at, j)[q].name), s)
      BY <3>1
    <3>3. q \in Nat /\ Def(at, j)[q].name \in Names
      <4>1. Def(at, j) \in Seq(Artifact) /\ Def(at, j)[q].name \in Names
        BY <1>1, FrameTypes
      <4>2. QED
        BY <4>1
    <3>4. CASE j = h
      <4>1. IsPrefix(e, s)
        BY <1>2, <3>2, <3>3, <3>4, PrefixAppend
      <4>2. QED
        BY <2>1, <4>1
    <3>5. CASE j # h
      <4>1. j \in DOMAIN stack'
        BY <1>4, <3>5
      <4>2. q <= Done(at, j)'
        BY <1>7, <3>2, <3>3, <4>1
      <4>3. QED
        BY <1>4, <1>7, <3>2, <4>1, <4>2 DEF BelowDone
    <3>6. QED
      BY <3>4, <3>5
  <2>3. ASSUME NEW d \in Known' \ Open' PROVE BelowDone(at, d)'
    <3>1. CASE d = e
      BY <1>10, <2>1, <3>1
    <3>2. CASE d \in Known \ Open
      <4>1. BelowDone(at, d) /\ d \in Seq(Names)
        BY <3>2, PathsKnown DEF TreeInv, CollectedInv
      <4>2. QED
        BY <2>2, <4>1
    <3>3. QED
      BY <1>5, <3>1, <3>2
  <2>4. ASSUME NEW i \in DOMAIN artifacts
        PROVE  BelowDone(at, Address(i))' /\ Leaf(i)' \in Leaves(at, artifacts'[i].dir)
    <3> PICK s : s = Address(i)
      OBVIOUS
    <3>1. BelowDone(at, s) /\ Leaf(i) \in Leaves(at, artifacts[i].dir) /\ s \in Seq(Names)
      BY PathsKnown DEF TreeInv, CollectedInv
    <3>2. BelowDone(at, s)' /\ s = Address(i)'
      BY <1>6, <2>2, <3>1
    <3>3. QED
      BY <1>1, <1>6, <3>1, <3>2 DEF BelowDone
  <2>5. ASSUME NEW i \in DOMAIN artifacts, NEW j \in DOMAIN artifacts, i < j
        PROVE  Before(at, i, j)'
    <3>1. Before(at, i, j)
      BY <2>5 DEF TreeInv, CollectedInv
    <3>2. QED
      BY <1>6, <3>1 DEF Before
  <2>6. QED
    BY <1>1, <1>6, <2>3, <2>4, <2>5 DEF CollectedInv
<1>13. QED
  BY <1>5, <1>6, <1>8, <1>9, <1>11, <1>12 DEF TreeInv

\* When the first call returns nothing is open, and all that is known is collected.
LEMMA ReturnLast ==
    ASSUME Inv, NEW at \in [Known -> Found], TreeInv(at), Return, Len(stack) = 1
    PROVE  CollectsTheTree'
<1> PICK h : h = Len(stack)
  OBVIOUS
<1>1. /\ h = 1 /\ h \in DOMAIN stack /\ DOMAIN stack = {1} /\ stack[h].dir = <<>>
      /\ \A a \in ToSet(Def(at, h)) : Settled(at, <<>>, a)
      /\ <<>> \in UNION {Prefixes(artifacts[i].dir) : i \in DOMAIN artifacts}
  <2> PICK e : e = stack[h].dir
    OBVIOUS
  <2>1. /\ h = 1 /\ h \in DOMAIN stack /\ DOMAIN stack = 1..h
        /\ e \in Seq(Names) /\ Len(e) = h - 1
        /\ \A a \in ToSet(Def(at, h)) : Settled(at, e, a)
        /\ e \in UNION {Prefixes(artifacts[i].dir) : i \in DOMAIN artifacts}
    BY ReturnFrame
  <2>2. e = <<>>
    BY <2>1
  <2>3. QED
    BY <2>1, <2>2
<1>2. /\ Open = {<<>>} /\ Known = Dirs
  BY <1>1 DEF Open, Known, Dirs
<1>3. \A d \in Dirs : \A a \in ToSet(Entries(at[d])) : Settled(at, d, a)
  BY <1>1, <1>2 DEF TreeInv, SettledInv, Def
<1>4. IsTree(at)
  <2>1. at[<<>>] = <<Root.key, Root.path>>
    BY <1>1, <1>2 DEF TreeInv, KnownInv, Dirs
  <2>2. ASSUME NEW d \in Dirs, NEW a \in ToSet(Entries(at[d])), Source(a) # NoSource
        PROVE  Append(d, a.name) \in Dirs /\ at[Append(d, a.name)] = Target(Source(a))
    <3> PICK c, x : c = Append(d, x) /\ x = a.name
      OBVIOUS
    <3>1. c \in Known
      BY <1>3, <2>2 DEF Settled
    <3>2. d \in Seq(Names) /\ at[d] \in Found
      BY <1>2, PathsKnown
    <3>3. PICK p \in DOMAIN Entries(at[d]) : a = Entries(at[d])[p]
      BY DEF ToSet
    <3>4. x \in Names
      BY <3>2, <3>3, FoundTypes
    <3>5. Front(c) = d /\ Last(c) = x /\ c # <<>>
      <4>1. /\ Front(Append(d, x)) = d /\ Last(Append(d, x)) = x
            /\ Append(d, x) # <<>>
        BY <3>2, <3>4, PrefixAppend
      <4>2. QED
        BY <4>1
    <3>6. PICK b \in ToSet(Entries(at[d])) :
             Source(b) # NoSource /\ b.name = x /\ at[c] = Target(Source(b))
      BY <3>1, <3>5 DEF TreeInv, KnownInv
    <3>7. PICK q \in DOMAIN Entries(at[d]) : b = Entries(at[d])[q]
      BY DEF ToSet
    <3>8. ValidateDefinition(Entries(at[d]))
      BY <1>2 DEF TreeInv, KnownInv
    <3>9. a = b
      BY <3>3, <3>6, <3>7, <3>8 DEF ValidateDefinition
    <3>10. QED
      BY <1>2, <3>1, <3>6, <3>9
  <2>3. ASSUME NEW d \in Dirs \ {<<>>}
        PROVE  \E a \in ToSet(Entries(at[Front(d)])) : Source(a) # NoSource /\ a.name = Last(d)
    BY <1>2 DEF TreeInv, KnownInv
  <2>4. QED
    BY <2>1, <2>2, <2>3 DEF IsTree
<1>5. {Leaf(i) : i \in DOMAIN artifacts} = UNION {Leaves(at, d) : d \in Dirs}
  <2>1. ASSUME NEW i \in DOMAIN artifacts
        PROVE  Leaf(i) \in UNION {Leaves(at, d) : d \in Dirs}
    <3>1. Leaf(i) \in Leaves(at, artifacts[i].dir)
      BY DEF TreeInv, CollectedInv
    <3>2. artifacts[i].dir \in Dirs
      BY <1>2, PathsKnown
    <3>3. QED
      BY <3>1, <3>2
  <2>2. ASSUME NEW d \in Dirs, NEW f \in Leaves(at, d)
        PROVE  f \in {Leaf(i) : i \in DOMAIN artifacts}
    <3>1. PICK a \in ToSet(Entries(at[d])) :
             Source(a) = NoSource /\ f = [dir |-> d, name |-> a.name, key |-> at[d][1]]
      BY DEF Leaves
    <3>2. PICK i \in DOMAIN artifacts : Leaf(i) = f
      BY <1>3, <3>1 DEF Settled
    <3>3. QED
      BY <3>2
  <2>3. QED
    BY <2>1, <2>2
<1>6. \A i, j \in DOMAIN artifacts : i < j => Before(at, i, j)
  BY DEF TreeInv, CollectedInv
<1>7. at \in [Dirs -> Found]
  BY <1>2
<1>8. /\ UNCHANGED <<clones, artifacts>>
  BY DEF Return
<1>9. /\ \A l : Entries(l)' = Entries(l) /\ Found' = Found /\ Dirs' = Dirs
      /\ \A i : Leaf(i)' = Leaf(i) /\ Address(i)' = Address(i)
      /\ \A d : Leaves(at, d)' = Leaves(at, d)
  BY <1>8 DEF Entries, Found, Dirs, Leaf, Address, Leaves, Source
<1>10. IsTree(at)' /\ \A i, j \in DOMAIN artifacts : Before(at, i, j)' = Before(at, i, j)
  BY <1>4, <1>9 DEF IsTree, Before
<1>11. {Leaf(i) : i \in DOMAIN artifacts}' = UNION {Leaves(at, d) : d \in Dirs}'
  BY <1>5, <1>8, <1>9
<1>12. QED
  BY <1>6, <1>7, <1>8, <1>9, <1>10, <1>11 DEF CollectsTheTree

\* A new run has read nothing yet.
LEMMA InstallTree ==
    ASSUME Inv, Install
    PROVE  TreeSoFar'
<1>1. /\ stack' = <<>> /\ artifacts' = <<>>
      /\ call' = [key |-> Root.key, path |-> Root.path, dir |-> <<>>]
  BY DEF Install
<1>2. DOMAIN stack' = {} /\ DOMAIN artifacts' = {}
  BY <1>1
<1>3. Known' = {}
  BY <1>2 DEF Known, Open
<1> PICK at : at = [d \in {} |-> <<Root.key, Root.path>>]
  OBVIOUS
<1>4. at \in [Known' -> Found']
  BY <1>3
<1>5. FramesInv(at)' /\ KnownInv(at)' /\ SettledInv(at)' /\ CollectedInv(at)'
  BY <1>2, <1>3 DEF FramesInv, KnownInv, SettledInv, CollectedInv
<1>6. CallInv(at)'
  BY <1>1 DEF CallInv
<1>7. QED
  BY <1>4, <1>5, <1>6 DEF TreeInv, TreeSoFar

\* What is handed to the writer stays as it is, and so do the clones it is from.
LEMMA SameCollected ==
    ASSUME CollectsTheTree, pc' = "writing" => pc = "writing", UNCHANGED <<clones, artifacts>>
    PROVE  CollectsTheTree'
<1>1. ASSUME pc' = "writing" PROVE CollectsTheTree'
  <2>1. PICK at \in [Dirs -> Found] :
           /\ IsTree(at)
           /\ {Leaf(i) : i \in DOMAIN artifacts} = UNION {Leaves(at, d) : d \in Dirs}
           /\ \A i, j \in DOMAIN artifacts : i < j => Before(at, i, j)
    BY <1>1 DEF CollectsTheTree
  <2>2. /\ \A l : Entries(l)' = Entries(l) /\ Found' = Found /\ Dirs' = Dirs
        /\ \A i : Leaf(i)' = Leaf(i) /\ Address(i)' = Address(i)
        /\ \A d : Leaves(at, d)' = Leaves(at, d)
    BY DEF Entries, Found, Dirs, Leaf, Address, Leaves, Source
  <2>3. IsTree(at)' /\ \A i, j \in DOMAIN artifacts : Before(at, i, j)' = Before(at, i, j)
    BY <2>1, <2>2 DEF IsTree, Before
  <2>4. {Leaf(i) : i \in DOMAIN artifacts}' = UNION {Leaves(at, d) : d \in Dirs}'
    BY <2>1, <2>2
  <2>5. QED
    BY <2>1, <2>2, <2>3, <2>4 DEF CollectsTheTree
<1>2. QED
  BY <1>1 DEF CollectsTheTree

\* Profiles are fetched only while a run collects.
OnlyCollecting == call # NoCall => pc = "collecting"

LEMMA OnlyCollectingStep ==
    ASSUME Inv, OnlyCollecting, [Next]_vars
    PROVE  OnlyCollecting'
<1>1. CASE Install
  BY <1>1 DEF Install, OnlyCollecting
<1>2. CASE Clone \/ ReadDefinition \/ BeginArtifact \/ WriteFile \/ Fail
  BY <1>2 DEF Clone, ReadDefinition, BeginArtifact, WriteFile, Fail, OnlyCollecting
<1>3. CASE NestedProfile
  BY <1>3 DEF NestedProfile, Collecting, OnlyCollecting
<1>4. CASE PlainArtifact \/ Return
  BY <1>4 DEF PlainArtifact, Return, Collecting, OnlyCollecting
<1>5. CASE WriteMarker
  BY <1>5 DEF WriteMarker, OnlyCollecting, Inv, TypeOK
<1>6. CASE (\E k \in Keys : Move(k)) \/ UNCHANGED vars
  BY <1>6 DEF Move, vars, OnlyCollecting
<1>7. QED
  BY <1>1, <1>2, <1>3, <1>4, <1>5, <1>6 DEF Next, Step

LEMMA TreeSteps ==
    ASSUME Inv, OnlyCollecting, TreeSoFar, CollectsTheTree, [Next]_vars
    PROVE  TreeSoFar' /\ CollectsTheTree'
<1>1. Inv /\ TreeSoFar /\ CollectsTheTree
  OBVIOUS
<1>2. CASE Install
  BY <1>1, <1>2, InstallTree DEF Install, CollectsTheTree
<1>3. ASSUME call # NoCall \/ Collecting PROVE pc = "collecting"
  BY <1>3 DEF OnlyCollecting, Collecting
<1>4. CASE Clone
  <2>1. /\ pc' = "collecting" /\ UNCHANGED <<call, stack, artifacts>>
    BY <1>3, <1>4 DEF Clone
  <2>2. PICK at \in [Known -> Found] : TreeInv(at)
    BY <1>1, <2>1, <1>4 DEF TreeSoFar, Clone
  <2>3. \A l \in Found : l \in Found' /\ Entries(l)' = Entries(l)
    BY <1>1, <1>4, CloneFound
  <2>4. at \in [Known' -> Found'] /\ TreeInv(at)'
    BY <1>1, <2>1, <2>2, <2>3, SameTree
  <2>5. QED
    BY <2>1, <2>4 DEF TreeSoFar, CollectsTheTree
<1>5. CASE ReadDefinition
  <2>1. pc = "collecting" /\ pc' = "collecting"
    BY <1>3, <1>5 DEF ReadDefinition
  <2>2. PICK at \in [Known -> Found] : TreeInv(at)
    BY <1>1, <2>1 DEF TreeSoFar
  <2>3. \E new \in [Known' -> Found'] : TreeInv(new)'
    BY <1>1, <1>5, <2>2, ReadDefinitionTree
  <2>4. QED
    BY <2>1, <2>3 DEF TreeSoFar, CollectsTheTree
<1>6. CASE NestedProfile \/ PlainArtifact
  <2>1. pc = "collecting" /\ pc' = "collecting"
    BY <1>3, <1>6 DEF NestedProfile, PlainArtifact
  <2>2. PICK at \in [Known -> Found] : TreeInv(at)
    BY <1>1, <2>1 DEF TreeSoFar
  <2>3. at \in [Known' -> Found'] /\ TreeInv(at)'
    BY <1>1, <1>6, <2>2, NestedProfileTree, PlainArtifactTree
  <2>4. QED
    BY <2>1, <2>3 DEF TreeSoFar, CollectsTheTree
<1>7. CASE Return
  <2>1. pc = "collecting" /\ pc' = IF Len(stack) = 1 THEN "writing" ELSE pc
    BY <1>3, <1>7 DEF Return
  <2>2. PICK at \in [Known -> Found] : TreeInv(at)
    BY <1>1, <2>1 DEF TreeSoFar
  <2>3. CASE Len(stack) = 1
    BY <1>1, <1>7, <2>1, <2>2, <2>3, ReturnLast DEF TreeSoFar
  <2>4. CASE Len(stack) # 1
    <3>1. at \in [Known' -> Found'] /\ TreeInv(at)'
      BY <1>1, <1>7, <2>2, <2>4, ReturnTree
    <3>2. QED
      BY <2>1, <2>4, <3>1 DEF TreeSoFar, CollectsTheTree
  <2>5. QED
    BY <2>3, <2>4
<1>8. CASE BeginArtifact \/ WriteFile \/ WriteMarker \/ Fail
  <2>1. /\ pc' # "collecting" /\ (pc' = "writing" => pc = "writing")
        /\ UNCHANGED <<clones, artifacts>>
    BY <1>8 DEF BeginArtifact, WriteFile, WriteMarker, Fail
  <2>2. QED
    BY <1>1, <2>1, SameCollected DEF TreeSoFar
<1>9. CASE (\E k \in Keys : Move(k)) \/ UNCHANGED vars
  <2>1. UNCHANGED <<pc, clones, call, stack, artifacts>>
    BY <1>9 DEF Move, vars
  <2>2. CollectsTheTree'
    BY <1>1, <2>1, SameCollected
  <2>3. ASSUME pc' = "collecting" PROVE \E at \in [Known' -> Found'] : TreeInv(at)'
    <3>1. PICK at \in [Known -> Found] : TreeInv(at)
      BY <1>1, <2>1, <2>3 DEF TreeSoFar
    <3>2. \A l \in Found : l \in Found' /\ Entries(l)' = Entries(l)
      BY <2>1 DEF Found, Entries
    <3>3. QED
      BY <1>1, <2>1, <3>1, <3>2, SameTree
  <2>4. QED
    BY <2>2, <2>3 DEF TreeSoFar
<1>10. QED
  BY <1>2, <1>4, <1>5, <1>6, <1>7, <1>8, <1>9 DEF Next, Step

\* installer.go:65-119.  For every tree of profiles, of whatever depth and however
\* branches and tags move while it is walked: what is handed to the writer is that
\* tree, as the clones of the run have it.
THEOREM TreeCollected == Spec => []CollectsTheTree
<1>1. Init => OnlyCollecting /\ TreeSoFar /\ CollectsTheTree
  BY DEF Init, OnlyCollecting, TreeSoFar, CollectsTheTree
<1>2. Inv /\ OnlyCollecting /\ TreeSoFar /\ CollectsTheTree /\ [Next]_vars
         => OnlyCollecting' /\ TreeSoFar' /\ CollectsTheTree'
  BY OnlyCollectingStep, TreeSteps
<1>3. QED
  BY Invariance, <1>1, <1>2, PTL DEF Spec
=============================================================================
