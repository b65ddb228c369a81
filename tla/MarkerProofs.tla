--------------------------- MODULE MarkerProofs ---------------------------
(***************************************************************************)
(* The marker of an installation stands for a complete one, in which       *)
(* nothing is referred to that is not there: for every tree of profiles,   *)
(* and whatever runs have failed in the same directory before.             *)
(***************************************************************************)
EXTENDS InstallerProofs, WellFoundedInduction

-----------------------------------------------------------------------------
(* Directories none of which is another's, or below it.                    *)

Apart(s, t) == \E k \in (DOMAIN s) \cap (DOMAIN t) : s[k] # t[k]

\* The directory of an artifact that is yet to be gone through.
Pending(i, j) == Append(stack[i].dir, stack[i].rest[j].name)

\* The artifacts collected and those to come, and the nested profile that is being
\* fetched, all have directories of their own.
PlacesApart ==
    /\ \A i, j \in DOMAIN artifacts : i # j => Apart(DirOf(artifacts[i]), DirOf(artifacts[j]))
    /\ \A i \in DOMAIN artifacts, s \in DOMAIN stack : \A e \in DOMAIN stack[s].rest :
          Apart(DirOf(artifacts[i]), Pending(s, e))
    /\ \A s, t \in DOMAIN stack : \A e \in DOMAIN stack[s].rest, f \in DOMAIN stack[t].rest :
          s # t \/ e # f => Apart(Pending(s, e), Pending(t, f))
    /\ call # NoCall =>
          /\ \A i \in DOMAIN artifacts : Apart(DirOf(artifacts[i]), call.dir)
          /\ \A s \in DOMAIN stack : \A e \in DOMAIN stack[s].rest : Apart(Pending(s, e), call.dir)

\* A file is in its place: with what it holds, unless another file takes the place.
InPlace(i, f) == f.at \in DOMAIN disk /\ (f \in Replaced(i) \/ disk[f.at] = f.holds)

KnownAt(i) == \A d \in artifacts[i].dependsOn : Matches(artifacts, d) # {}

\* After a file that is copied come all the files that are generated.
GeneratedAfter(i, files) ==
    \A k \in DOMAIN files : files[k].holds.kind = "copied" =>
        \A g \in FilesAt(i) : g.holds.kind # "copied" =>
            \E l \in DOMAIN files : l > k /\ files[l] = g

\* What is written is on disk; of the artifact that is being written, what is not
\* to be written any more is.
Progress ==
    /\ pc = "idle" => call = NoCall
    /\ pc = "collecting" => written = 0 /\ todo = <<>>
    /\ pc = "writing" =>
          /\ \A i \in 1..written : KnownAt(i) /\ \A f \in FilesAt(i) : InPlace(i, f)
          /\ todo # <<>> =>
                /\ KnownAt(written + 1)
                /\ todo \in Seq(FilesAt(written + 1))
                /\ GeneratedAfter(written + 1, todo)
                /\ \A f \in FilesAt(written + 1) : f \in ToSet(todo) \/ InPlace(written + 1, f)

\* No run finds a marker of its own before it writes it, and then all is there.
Marked ==
    marker = runs =>
        /\ pc = "idle"
        /\ \A i \in DOMAIN artifacts : KnownAt(i) /\ \A f \in FilesAt(i) : InPlace(i, f)

MInv == Inv /\ PlacesApart /\ Progress /\ Marked

-----------------------------------------------------------------------------
(* Directories.                                                            *)

\* What is below one of two directories that are apart is apart from the other, and
\* so are two entries of one directory.
LEMMA ApartBelow ==
    ASSUME NEW s \in Seq(Names), NEW t \in Seq(Names), NEW x \in Names, Apart(s, t)
    PROVE  Apart(Append(s, x), t)
<1>1. PICK k \in (DOMAIN s) \cap (DOMAIN t) : s[k] # t[k]
  BY DEF Apart
<1>2. k \in DOMAIN Append(s, x) /\ Append(s, x)[k] = s[k]
  BY <1>1
<1>3. QED
  BY <1>1, <1>2 DEF Apart

LEMMA ApartSiblings ==
    ASSUME NEW s \in Seq(Names), NEW x \in Names, NEW y \in Names, x # y
    PROVE  Apart(Append(s, x), Append(s, y))
<1>1. /\ Len(s) + 1 \in (DOMAIN Append(s, x)) \cap (DOMAIN Append(s, y))
      /\ Append(s, x)[Len(s) + 1] = x /\ Append(s, y)[Len(s) + 1] = y
  OBVIOUS
<1>2. QED
  BY <1>1 DEF Apart

LEMMA ApartSymmetric ==
    ASSUME NEW s, NEW t, Apart(s, t)
    PROVE  Apart(t, s)
BY DEF Apart

LEMMA PlacesTyped ==
    ASSUME TypeOK
    PROVE  /\ \A i \in DOMAIN artifacts :
                 DirOf(artifacts[i]) \in Seq(Names) /\ artifacts[i] \in Wrappers
           /\ \A s \in DOMAIN stack : stack[s].dir \in Seq(Names) /\ stack[s].rest \in Seq(Artifact)
           /\ \A s \in DOMAIN stack : \A e \in DOMAIN stack[s].rest : Pending(s, e) \in Seq(Names)
           /\ call # NoCall => call.dir \in Seq(Names) /\ call \in Calls
<1>1. ASSUME NEW i \in DOMAIN artifacts
      PROVE  DirOf(artifacts[i]) \in Seq(Names) /\ artifacts[i] \in Wrappers
  <2>1. artifacts[i] \in Wrappers
    BY DEF TypeOK
  <2>2. artifacts[i].dir \in Seq(Names) /\ artifacts[i].name \in Names
    BY <2>1 DEF Wrappers
  <2>3. QED
    BY <2>1, <2>2 DEF DirOf
<1>2. ASSUME NEW s \in DOMAIN stack
      PROVE  /\ stack[s].dir \in Seq(Names) /\ stack[s].rest \in Seq(Artifact)
             /\ \A e \in DOMAIN stack[s].rest : Pending(s, e) \in Seq(Names)
  <2>1. stack[s] \in Frames
    BY DEF TypeOK
  <2>2. stack[s].dir \in Seq(Names) /\ stack[s].rest \in Seq(Artifact)
    BY <2>1 DEF Frames
  <2>3. \A e \in DOMAIN stack[s].rest : stack[s].rest[e] \in Artifact
    BY <2>2
  <2>4. \A x \in Artifact : x.name \in Names
    BY DEF Artifact
  <2>5. QED
    BY <2>2, <2>3, <2>4 DEF Pending
<1>3. call # NoCall => call.dir \in Seq(Names) /\ call \in Calls
  BY DEF TypeOK, Calls
<1>4. QED
  BY <1>1, <1>2, <1>3

\* The names of a profile are different, so its artifacts take the place of the
\* nested profile without coming near each other or anything else.
LEMMA ReadDefinitionApart ==
    ASSUME Inv, PlacesApart, ReadDefinition
    PROVE  PlacesApart'
<1> USE DEF CloneCacheKey
<1> DEFINE def == Definition(clones[call.key], call.path)
           frame == [key |-> call.key, dir |-> call.dir, rest |-> def]
<1>0. PICK n \in Nat : n = Len(stack) + 1
  BY DEF Inv, TypeOK
<1>1. /\ call \in Calls /\ call # NoCall /\ def # NoProfile /\ ValidateDefinition(def)
      /\ stack' = Append(stack, frame) /\ call' = NoCall
      /\ UNCHANGED <<clones, artifacts>>
  BY DEF ReadDefinition, Inv, TypeOK
<1>2. def \in Seq(Artifact)
  <2>1. clones[call.key] # NoSnapshot /\ clones[call.key] \in Snapshots
    BY <1>1 DEF Definition, Inv, TypeOK, Calls
  <2>2. QED
    BY <1>1, <2>1, InstallerAssumption DEF Definition, Calls
<1>3. frame.dir = call.dir /\ frame.rest = def
  OBVIOUS
<1> HIDE DEF def, frame
<1>4. /\ DOMAIN stack' = DOMAIN stack \cup {n} /\ n \notin DOMAIN stack
      /\ stack'[n] = frame
      /\ \A s \in DOMAIN stack : stack'[s] = stack[s]
  BY <1>0, <1>1 DEF Inv, TypeOK
<1>5. \A e \in DOMAIN def : def[e].name \in Names
  <2>1. \A e \in DOMAIN def : def[e] \in Artifact
    BY <1>2
  <2>2. \A x \in Artifact : x.name \in Names
    BY DEF Artifact
  <2>3. QED
    BY <2>1, <2>2
<1>6. /\ \A e \in DOMAIN def : Pending(n, e)' = Append(call.dir, def[e].name)
      /\ \A s \in DOMAIN stack : \A e \in DOMAIN stack[s].rest : Pending(s, e)' = Pending(s, e)
  BY <1>1, <1>3, <1>4 DEF Pending
<1>7. \A i \in DOMAIN artifacts, e \in DOMAIN def :
        Apart(DirOf(artifacts[i]), Append(call.dir, def[e].name))
  BY <1>1, <1>5, PlacesTyped, ApartBelow, ApartSymmetric DEF PlacesApart, Inv
<1>8. \A s \in DOMAIN stack : \A f \in DOMAIN stack[s].rest, e \in DOMAIN def :
        /\ Apart(Pending(s, f), Append(call.dir, def[e].name))
        /\ Apart(Append(call.dir, def[e].name), Pending(s, f))
  BY <1>1, <1>5, PlacesTyped, ApartBelow, ApartSymmetric DEF PlacesApart, Inv
<1>9. \A e, f \in DOMAIN def :
        e # f => Apart(Append(call.dir, def[e].name), Append(call.dir, def[f].name))
  BY <1>1, <1>5, PlacesTyped, ApartSiblings DEF ValidateDefinition, Inv
<1>10. \A i \in DOMAIN artifacts' : \A s \in DOMAIN stack' : \A e \in DOMAIN stack'[s].rest :
         Apart(DirOf(artifacts'[i]), Pending(s, e)')
  <2> SUFFICES ASSUME NEW i \in DOMAIN artifacts', NEW s \in DOMAIN stack',
                      NEW e \in DOMAIN stack'[s].rest
               PROVE  Apart(DirOf(artifacts'[i]), Pending(s, e)')
    OBVIOUS
  <2>1. CASE s \in DOMAIN stack
    BY <1>1, <1>4, <1>6, <2>1 DEF PlacesApart
  <2>2. CASE s = n
    BY <1>1, <1>3, <1>4, <1>6, <1>7, <2>2
  <2>3. QED
    BY <1>4, <2>1, <2>2
<1>11. \A s, t \in DOMAIN stack' : \A e \in DOMAIN stack'[s].rest, f \in DOMAIN stack'[t].rest :
         s # t \/ e # f => Apart(Pending(s, e)', Pending(t, f)')
  <2> SUFFICES ASSUME NEW s \in DOMAIN stack', NEW t \in DOMAIN stack',
                      NEW e \in DOMAIN stack'[s].rest, NEW f \in DOMAIN stack'[t].rest,
                      s # t \/ e # f
               PROVE  Apart(Pending(s, e)', Pending(t, f)')
    OBVIOUS
  <2>1. CASE s \in DOMAIN stack /\ t \in DOMAIN stack
    BY <1>4, <1>6, <2>1 DEF PlacesApart
  <2>a. /\ s = n => e \in DOMAIN def /\ Pending(s, e)' = Append(call.dir, def[e].name)
        /\ t = n => f \in DOMAIN def /\ Pending(t, f)' = Append(call.dir, def[f].name)
    BY <1>3, <1>4, <1>6
  <2>b. /\ s \in DOMAIN stack => e \in DOMAIN stack[s].rest /\ Pending(s, e)' = Pending(s, e)
        /\ t \in DOMAIN stack => f \in DOMAIN stack[t].rest /\ Pending(t, f)' = Pending(t, f)
    BY <1>4, <1>6
  <2>2. CASE s = n /\ t \in DOMAIN stack
    BY <1>8, <2>2, <2>a, <2>b
  <2>3. CASE s \in DOMAIN stack /\ t = n
    BY <1>8, <2>3, <2>a, <2>b
  <2>4. CASE s = n /\ t = n
    BY <1>9, <2>4, <2>a
  <2>5. QED
    BY <1>4, <2>1, <2>2, <2>3, <2>4
<1>12. \A i, j \in DOMAIN artifacts' : i # j => Apart(DirOf(artifacts'[i]), DirOf(artifacts'[j]))
  BY <1>1 DEF PlacesApart
<1>13. QED
  BY <1>1, <1>10, <1>11, <1>12 DEF PlacesApart

\* What is gone through in a frame, the rest of its artifacts have their places from
\* before, and the first of them is free.
LEMMA PoppedPlaces ==
    ASSUME Inv, Collecting, Top.rest # <<>>, stack' = Popped
    PROVE  /\ Len(stack) \in DOMAIN stack /\ 1 \in DOMAIN stack[Len(stack)].rest
           /\ Pending(Len(stack), 1) = Append(Top.dir, Head(Top.rest).name)
           /\ DOMAIN stack' = DOMAIN stack
           /\ \A s \in DOMAIN stack' : \A e \in DOMAIN stack'[s].rest :
                 IF s = Len(stack)
                 THEN e + 1 \in DOMAIN stack[s].rest /\ Pending(s, e)' = Pending(s, e + 1)
                 ELSE e \in DOMAIN stack[s].rest /\ Pending(s, e)' = Pending(s, e)
<1> DEFINE n == Len(stack)
<1>1. /\ stack \in Seq(Frames) /\ n \in DOMAIN stack /\ Top = stack[n] /\ Top \in Frames
      /\ DOMAIN stack' = DOMAIN stack
  BY CollectingFacts DEF Inv, TypeOK
<1>2. Top.rest \in Seq(Artifact) /\ Top.rest # <<>>
  BY <1>1 DEF Frames
<1>3. stack' = [stack EXCEPT ![n] = [Top EXCEPT !.rest = Tail(Top.rest)]]
  BY <1>1 DEF Popped
<1>4. /\ \A s \in DOMAIN stack : s # n => stack'[s] = stack[s]
      /\ stack'[n].dir = Top.dir /\ stack'[n].rest = Tail(Top.rest)
  BY <1>1, <1>3 DEF Frames
<1>5. /\ 1 \in DOMAIN Top.rest /\ Top.rest[1] = Head(Top.rest)
      /\ \A e \in DOMAIN Tail(Top.rest) :
            e + 1 \in DOMAIN Top.rest /\ Tail(Top.rest)[e] = Top.rest[e + 1]
  BY <1>2
<1>6. ASSUME NEW s \in DOMAIN stack', NEW e \in DOMAIN stack'[s].rest
      PROVE  IF s = n
             THEN e + 1 \in DOMAIN stack[s].rest /\ Pending(s, e)' = Pending(s, e + 1)
             ELSE e \in DOMAIN stack[s].rest /\ Pending(s, e)' = Pending(s, e)
  <2>1. CASE s = n
    <3>1. stack'[s].rest = Tail(Top.rest) /\ stack[s] = Top /\ stack'[s].dir = stack[s].dir
      BY <1>1, <1>4, <2>1
    <3>2. e + 1 \in DOMAIN stack[s].rest /\ stack'[s].rest[e] = stack[s].rest[e + 1]
      BY <1>5, <3>1
    <3>3. QED
      BY <2>1, <3>1, <3>2 DEF Pending
  <2>2. CASE s # n
    BY <1>1, <1>4, <2>2 DEF Pending
  <2>3. QED
    BY <2>1, <2>2
<1>7. Pending(n, 1) = Append(Top.dir, Head(Top.rest).name)
  BY <1>1, <1>5 DEF Pending
<1>8. QED
  BY <1>1, <1>5, <1>6, <1>7

LEMMA NestedProfileApart ==
    ASSUME Inv, PlacesApart, NestedProfile
    PROVE  PlacesApart'
<1> DEFINE a == Head(Top.rest)
<1>0. PICK n \in DOMAIN stack : n = Len(stack)
  BY CollectingFacts DEF NestedProfile
<1>1. /\ Collecting /\ Top.rest # <<>> /\ stack' = Popped
      /\ call'.dir = Append(Top.dir, a.name)
      /\ UNCHANGED <<clones, artifacts>>
  BY DEF NestedProfile, NestedDir
<1>2. /\ 1 \in DOMAIN stack[n].rest /\ call'.dir = Pending(n, 1)
      /\ DOMAIN stack' = DOMAIN stack
      /\ \A s \in DOMAIN stack' : \A e \in DOMAIN stack'[s].rest :
            \E e0 \in DOMAIN stack[s].rest :
               /\ Pending(s, e)' = Pending(s, e0)
               /\ e0 = (IF s = n THEN e + 1 ELSE e)
  BY <1>0, <1>1, PoppedPlaces
<1>3. \A s \in DOMAIN stack' : DOMAIN stack'[s].rest \subseteq Nat \ {0}
  <2>1. \A s \in DOMAIN stack' : stack'[s] \in Frames
    BY <1>1, CollectingFacts
  <2>2. \A x \in Frames : DOMAIN x.rest \subseteq Nat \ {0}
    BY DEF Frames
  <2>3. QED
    BY <2>1, <2>2
<1>4. \A i \in DOMAIN artifacts' : \A s \in DOMAIN stack' : \A e \in DOMAIN stack'[s].rest :
         Apart(DirOf(artifacts'[i]), Pending(s, e)')
  BY <1>1, <1>2 DEF PlacesApart
<1>5. \A s, t \in DOMAIN stack' : \A e \in DOMAIN stack'[s].rest, f \in DOMAIN stack'[t].rest :
         s # t \/ e # f => Apart(Pending(s, e)', Pending(t, f)')
  <2> SUFFICES ASSUME NEW s \in DOMAIN stack', NEW t \in DOMAIN stack',
                      NEW e \in DOMAIN stack'[s].rest, NEW f \in DOMAIN stack'[t].rest,
                      s # t \/ e # f
               PROVE  Apart(Pending(s, e)', Pending(t, f)')
    OBVIOUS
  <2>1. PICK e0 \in DOMAIN stack[s].rest :
           Pending(s, e)' = Pending(s, e0) /\ e0 = (IF s = n THEN e + 1 ELSE e)
    BY <1>2
  <2>2. PICK f0 \in DOMAIN stack[t].rest :
           Pending(t, f)' = Pending(t, f0) /\ f0 = (IF t = n THEN f + 1 ELSE f)
    BY <1>2
  <2>3. s # t \/ e0 # f0
    BY <1>3, <2>1, <2>2
  <2>4. QED
    BY <1>2, <2>1, <2>2, <2>3 DEF PlacesApart
<1>6. \A i \in DOMAIN artifacts' : Apart(DirOf(artifacts'[i]), call'.dir)
  <2>1. \A i \in DOMAIN artifacts : Apart(DirOf(artifacts[i]), Pending(n, 1))
    BY <1>2 DEF PlacesApart
  <2>2. QED
    BY <1>1, <1>2, <2>1
<1>7. \A s \in DOMAIN stack' : \A e \in DOMAIN stack'[s].rest : Apart(Pending(s, e)', call'.dir)
  <2> SUFFICES ASSUME NEW s \in DOMAIN stack', NEW e \in DOMAIN stack'[s].rest
               PROVE  Apart(Pending(s, e)', call'.dir)
    OBVIOUS
  <2>1. PICK e0 \in DOMAIN stack[s].rest :
           Pending(s, e)' = Pending(s, e0) /\ e0 = (IF s = n THEN e + 1 ELSE e)
    BY <1>2
  <2>2. s # n \/ e0 # 1
    BY <1>3, <2>1
  <2>3. QED
    BY <1>0, <1>2, <2>1, <2>2 DEF PlacesApart
<1>8. \A i, j \in DOMAIN artifacts' : i # j => Apart(DirOf(artifacts'[i]), DirOf(artifacts'[j]))
  BY <1>1 DEF PlacesApart
<1>9. QED
  BY <1>4, <1>5, <1>6, <1>7, <1>8 DEF PlacesApart

LEMMA PlainArtifactApart ==
    ASSUME Inv, PlacesApart, PlainArtifact
    PROVE  PlacesApart'
<1> DEFINE w == Wrapped(Top, Head(Top.rest))
<1>0. PICK n \in DOMAIN stack : n = Len(stack)
  BY CollectingFacts DEF PlainArtifact
<1>1. /\ Collecting /\ call = NoCall /\ Top.rest # <<>> /\ stack' = Popped
      /\ artifacts' = Append(artifacts, w) /\ UNCHANGED <<clones, call>>
  BY DEF PlainArtifact, Collecting
<1>2. /\ 1 \in DOMAIN stack[n].rest
      /\ DOMAIN stack' = DOMAIN stack
      /\ \A s \in DOMAIN stack' : \A e \in DOMAIN stack'[s].rest :
            \E e0 \in DOMAIN stack[s].rest :
               /\ Pending(s, e)' = Pending(s, e0)
               /\ e0 = (IF s = n THEN e + 1 ELSE e)
  BY <1>0, <1>1, PoppedPlaces
<1>3. \A s \in DOMAIN stack' : DOMAIN stack'[s].rest \subseteq Nat \ {0}
  <2>1. \A s \in DOMAIN stack' : stack'[s] \in Frames
    BY <1>1, CollectingFacts
  <2>2. \A x \in Frames : DOMAIN x.rest \subseteq Nat \ {0}
    BY DEF Frames
  <2>3. QED
    BY <2>1, <2>2
<1>4. DirOf(w) = Pending(n, 1)
  BY <1>0, <1>1, PoppedPlaces DEF DirOf, Wrapped
<1> HIDE DEF w
<1>5. PICK m \in Nat : m = Len(artifacts) + 1
  BY DEF Inv, TypeOK
<1>6. /\ DOMAIN artifacts' = DOMAIN artifacts \cup {m} /\ artifacts'[m] = w
      /\ \A i \in DOMAIN artifacts : artifacts'[i] = artifacts[i]
  BY <1>1, <1>5 DEF Inv, TypeOK
<1>7. \A i \in DOMAIN artifacts :
         /\ Apart(DirOf(artifacts[i]), DirOf(w))
         /\ Apart(DirOf(w), DirOf(artifacts[i]))
  BY <1>0, <1>2, <1>4, ApartSymmetric DEF PlacesApart
<1>8. \A i, j \in DOMAIN artifacts' : i # j => Apart(DirOf(artifacts'[i]), DirOf(artifacts'[j]))
  BY <1>6, <1>7 DEF PlacesApart
<1>9. \A i \in DOMAIN artifacts' : \A s \in DOMAIN stack' : \A e \in DOMAIN stack'[s].rest :
         Apart(DirOf(artifacts'[i]), Pending(s, e)')
  <2> SUFFICES ASSUME NEW i \in DOMAIN artifacts', NEW s \in DOMAIN stack',
                      NEW e \in DOMAIN stack'[s].rest
               PROVE  Apart(DirOf(artifacts'[i]), Pending(s, e)')
    OBVIOUS
  <2>1. PICK e0 \in DOMAIN stack[s].rest :
           Pending(s, e)' = Pending(s, e0) /\ e0 = (IF s = n THEN e + 1 ELSE e)
    BY <1>2
  <2>2. CASE i \in DOMAIN artifacts
    BY <1>2, <1>6, <2>1, <2>2 DEF PlacesApart
  <2>3. CASE i = m
    <3>1. s # n \/ e0 # 1
      BY <1>3, <2>1
    <3>2. QED
      BY <1>0, <1>2, <1>4, <1>6, <2>1, <2>3, <3>1 DEF PlacesApart
  <2>4. QED
    BY <1>6, <2>2, <2>3
<1>10. \A s, t \in DOMAIN stack' : \A e \in DOMAIN stack'[s].rest, f \in DOMAIN stack'[t].rest :
         s # t \/ e # f => Apart(Pending(s, e)', Pending(t, f)')
  <2> SUFFICES ASSUME NEW s \in DOMAIN stack', NEW t \in DOMAIN stack',
                      NEW e \in DOMAIN stack'[s].rest, NEW f \in DOMAIN stack'[t].rest,
                      s # t \/ e # f
               PROVE  Apart(Pending(s, e)', Pending(t, f)')
    OBVIOUS
  <2>1. PICK e0 \in DOMAIN stack[s].rest :
           Pending(s, e)' = Pending(s, e0) /\ e0 = (IF s = n THEN e + 1 ELSE e)
    BY <1>2
  <2>2. PICK f0 \in DOMAIN stack[t].rest :
           Pending(t, f)' = Pending(t, f0) /\ f0 = (IF t = n THEN f + 1 ELSE f)
    BY <1>2
  <2>3. s # t \/ e0 # f0
    BY <1>3, <2>1, <2>2
  <2>4. QED
    BY <1>2, <2>1, <2>2, <2>3 DEF PlacesApart
<1>11. QED
  BY <1>1, <1>8, <1>9, <1>10 DEF PlacesApart

LEMMA ReturnApart ==
    ASSUME Inv, PlacesApart, Return
    PROVE  PlacesApart'
<1>1. /\ Collecting /\ call = NoCall /\ stack' = Front(stack)
      /\ UNCHANGED <<call, clones, artifacts>>
  BY DEF Return, Collecting
<1>2. \A s \in DOMAIN stack' : s \in DOMAIN stack /\ stack'[s] = stack[s]
  BY <1>1, CollectingFacts DEF Front, Inv, TypeOK
<1>3. \A s \in DOMAIN stack' : \A e \in DOMAIN stack'[s].rest : Pending(s, e)' = Pending(s, e)
  BY <1>2 DEF Pending
<1>4. QED
  BY <1>1, <1>2, <1>3 DEF PlacesApart

LEMMA ApartInvariant ==
    ASSUME Inv, PlacesApart, [Next]_vars
    PROVE  PlacesApart'
<1>1. CASE Install
  <2>1. /\ artifacts' = <<>> /\ stack' = <<>> /\ DOMAIN artifacts' = {} /\ DOMAIN stack' = {}
    BY <1>1 DEF Install
  <2>2. QED
    BY <2>1 DEF PlacesApart
<1>2. ASSUME UNCHANGED <<call, stack, artifacts>>
      PROVE  PlacesApart'
  BY <1>2 DEF PlacesApart, Pending
<1>3. CASE Fail
  <2>1. call' = NoCall /\ UNCHANGED <<stack, artifacts>>
    BY <1>3 DEF Fail
  <2>2. QED
    BY <2>1 DEF PlacesApart, Pending
<1>4. CASE Clone \/ BeginArtifact \/ WriteFile \/ WriteMarker \/ (\E k \in Keys : Move(k))
           \/ UNCHANGED vars
  BY <1>2, <1>4 DEF Clone, BeginArtifact, WriteFile, WriteMarker, Move, vars
<1>5. QED
  BY <1>1, <1>3, <1>4, ReadDefinitionApart, NestedProfileApart, PlainArtifactApart, ReturnApart
  DEF Next, Step

-----------------------------------------------------------------------------
(* The files of one artifact.                                              *)

Enumerates(s, S) == s \in Seq(S) /\ ToSet(s) = S

LEMMA EnumeratesConcat ==
    ASSUME NEW S, NEW T, NEW s, NEW t, Enumerates(s, S), Enumerates(t, T)
    PROVE  Enumerates(s \o t, S \cup T)
<1>1. s \in Seq(S \cup T) /\ t \in Seq(S \cup T)
  BY DEF Enumerates
<1>2. /\ s \o t \in Seq(S \cup T) /\ Len(s \o t) = Len(s) + Len(t)
      /\ \A i \in DOMAIN s : i \in DOMAIN (s \o t) /\ (s \o t)[i] = s[i]
      /\ \A i \in DOMAIN t : Len(s) + i \in DOMAIN (s \o t) /\ (s \o t)[Len(s) + i] = t[i]
  BY <1>1
<1>3. ToSet(s \o t) \subseteq S \cup T
  BY <1>2 DEF ToSet
<1>4. ToSet(s) \cup ToSet(t) \subseteq ToSet(s \o t)
  BY <1>2 DEF ToSet
<1>5. QED
  BY <1>2, <1>3, <1>4 DEF Enumerates

LEMMA EnumeratesFew ==
    ASSUME NEW x, NEW y
    PROVE  /\ Enumerates(<<>>, {}) /\ Enumerates(<<x>>, {x}) /\ Enumerates(<<x, y>>, {x, y})
<1>1. Enumerates(<<>>, {})
  BY DEF Enumerates, ToSet
<1>2. Enumerates(<<x>>, {x})
  <2>1. <<x>> \in Seq({x}) /\ DOMAIN <<x>> = {1} /\ <<x>>[1] = x
    OBVIOUS
  <2>2. QED
    BY <2>1 DEF Enumerates, ToSet
<1>3. Enumerates(<<x, y>>, {x, y})
  <2>1. <<x, y>> \in Seq({x, y}) /\ DOMAIN <<x, y>> = {1, 2} /\ <<x, y>>[1] = x /\ <<x, y>>[2] = y
    OBVIOUS
  <2>2. QED
    BY <2>1 DEF Enumerates, ToSet
<1>4. QED
  BY <1>1, <1>2, <1>3

\* The files of FilesOf, as sets: those that are copied, and those that are generated.
CopiedSet(a) ==
    IF a.kustomize \/ a.chart = "path"
    THEN {File(CopyDir(a), a.content[i], Copied(a)) : i \in DOMAIN a.content} ELSE {}

FluxSet(list, a, path) ==
    {File(DirOf(a), "kustomization.yaml", Resources({"kustomize-flux.yaml"})),
     File(DirOf(a), "kustomize-flux.yaml", Wrapper(list, a, path))}

Listing(a) ==
    File(ChartDir(a), "kustomization.yaml",
         Resources({"HelmRelease.yaml"} \cup
                   (IF a.defaults THEN {"ConfigMap.yaml"} ELSE {})))

ListingSet(a) == IF a.chart = "path" THEN {Listing(a)} ELSE {}

ObjectSet(a) ==
    (IF a.defaults THEN {File(ChartDir(a), "ConfigMap.yaml", Object(a))} ELSE {})
    \cup {File(ChartDir(a), "HelmRelease.yaml", Object(a))}
    \cup (IF a.chart = "url" THEN {File(ChartDir(a), "HelmRepository.yaml", Object(a))} ELSE {})

GeneratedSet(list, a) ==
    IF a.kustomize
    THEN FluxSet(list, a, CopyDir(a))
    ELSE ListingSet(a) \cup ObjectSet(a) \cup FluxSet(list, a, ChartDir(a))

FileSet(list, a) == CopiedSet(a) \cup GeneratedSet(list, a)

LEMMA CopiesEnumerated ==
    ASSUME NEW a \in Wrappers
    PROVE  Enumerates(CopiedFiles(a), CopiedSet(a))
<1> DEFINE file(i) == File(CopyDir(a), a.content[i], Copied(a))
<1>1. a.content \in Seq(FileNames)
  BY DEF Wrappers, Contents
<1>2. PICK n \in Nat : DOMAIN a.content = 1..n
  BY <1>1
<1>3. CASE a.kustomize \/ a.chart = "path"
  <2>1. CopiedSet(a) = {file(i) : i \in 1..n} /\ CopiedFiles(a) = [i \in 1..n |-> file(i)]
    BY <1>2, <1>3 DEF CopiedSet, CopiedFiles
  <2> HIDE DEF file
  <2>2. QED
    BY <2>1 DEF Enumerates, ToSet
<1>4. CASE ~(a.kustomize \/ a.chart = "path")
  BY <1>4, EnumeratesFew DEF CopiedSet, CopiedFiles
<1>5. QED
  BY <1>3, <1>4

LEMMA FluxEnumerated ==
    ASSUME NEW list, NEW a, NEW path
    PROVE  Enumerates(FluxFiles(list, a, path), FluxSet(list, a, path))
BY EnumeratesFew DEF FluxFiles, FluxSet

LEMMA ObjectsEnumerated ==
    ASSUME NEW a
    PROVE  Enumerates(ChartObjects(a), ObjectSet(a))
<1> DEFINE release == File(ChartDir(a), "HelmRelease.yaml", Object(a))
           repository == File(ChartDir(a), "HelmRepository.yaml", Object(a))
           values == File(ChartDir(a), "ConfigMap.yaml", Object(a))
           remote == IF a.chart = "url" THEN <<repository>> ELSE <<>>
<1>1. Enumerates(DefaultValues(a), IF a.defaults THEN {values} ELSE {})
  BY EnumeratesFew DEF DefaultValues
<1>2. Enumerates(<<release>>, {release})
  BY EnumeratesFew
<1>3. Enumerates(remote, IF a.chart = "url" THEN {repository} ELSE {})
  BY EnumeratesFew
<1>4. ChartObjects(a) = (DefaultValues(a) \o <<release>>) \o remote
  BY DEF ChartObjects
<1> HIDE DEF release, repository, values, remote
<1>5. Enumerates(DefaultValues(a) \o <<release>>,
                 (IF a.defaults THEN {values} ELSE {}) \cup {release})
  BY <1>1, <1>2, EnumeratesConcat
<1>6. Enumerates((DefaultValues(a) \o <<release>>) \o remote,
                 (IF a.defaults THEN {values} ELSE {}) \cup {release}
                 \cup (IF a.chart = "url" THEN {repository} ELSE {}))
  BY <1>3, <1>5, EnumeratesConcat
<1>7. QED
  BY <1>4, <1>6 DEF ObjectSet, release, repository, values

LEMMA GeneratedEnumerated ==
    ASSUME NEW list, NEW a
    PROVE  Enumerates(GeneratedFiles(list, a), GeneratedSet(list, a))
<1>1. CASE a.kustomize
  BY <1>1, FluxEnumerated DEF GeneratedFiles, GeneratedSet
<1>2. CASE ~a.kustomize
  <2>1. GeneratedFiles(list, a) =
          (LocalChart(a) \o ChartObjects(a)) \o FluxFiles(list, a, ChartDir(a))
    BY <1>2 DEF GeneratedFiles
  <2>2. GeneratedSet(list, a) = (ListingSet(a) \cup ObjectSet(a)) \cup FluxSet(list, a, ChartDir(a))
    BY <1>2 DEF GeneratedSet
  <2>3. Enumerates(LocalChart(a), ListingSet(a))
    BY EnumeratesFew DEF LocalChart, ListingSet, Listing
  <2>4. Enumerates(LocalChart(a) \o ChartObjects(a), ListingSet(a) \cup ObjectSet(a))
    BY <2>3, ObjectsEnumerated, EnumeratesConcat
  <2>5. QED
    BY <2>1, <2>2, <2>4, FluxEnumerated, EnumeratesConcat
<1>3. QED
  BY <1>1, <1>2

LEMMA FilesEnumerated ==
    ASSUME NEW list, NEW a \in Wrappers
    PROVE  Enumerates(FilesOf(list, a), FileSet(list, a))
BY CopiesEnumerated, GeneratedEnumerated, EnumeratesConcat DEF FilesOf, FileSet

LEMMA FileFields ==
    \A d, n, c : /\ File(d, n, c).at = <<d, n>> /\ File(d, n, c).at[1] = d
                 /\ File(d, n, c).at[2] = n /\ File(d, n, c).holds = c
BY DEF File

LEMMA FileKinds ==
    ASSUME NEW list, NEW a
    PROVE  /\ \A f \in CopiedSet(a) : f.holds.kind = "copied"
           /\ \A f \in GeneratedSet(list, a) : f.holds.kind # "copied"
<1>1. /\ Copied(a).kind = "copied" /\ Object(a).kind # "copied"
      /\ \A names : Resources(names).kind # "copied"
      /\ \A path : Wrapper(list, a, path).kind # "copied"
  BY DEF Copied, Object, Resources, Wrapper
<1>2. QED
  BY <1>1, FileFields DEF CopiedSet, GeneratedSet, FluxSet, Listing, ListingSet, ObjectSet

\* So no generated file of an artifact is written before a copied one.
LEMMA FilesInOrder ==
    ASSUME TypeOK, NEW i \in DOMAIN artifacts
    PROVE  GeneratedAfter(i, FilesOf(artifacts, artifacts[i]))
<1> DEFINE a == artifacts[i]
           C == CopiedFiles(a)
           G == GeneratedFiles(artifacts, a)
<1>1. /\ a \in Wrappers /\ FilesOf(artifacts, a) = C \o G
      /\ Enumerates(C, CopiedSet(a)) /\ Enumerates(G, GeneratedSet(artifacts, a))
      /\ ToSet(FilesOf(artifacts, a)) = FileSet(artifacts, a)
  BY PlacesTyped, CopiesEnumerated, GeneratedEnumerated, FilesEnumerated DEF FilesOf, Enumerates
<1>2. /\ \A f \in CopiedSet(a) : f.holds.kind = "copied"
      /\ \A f \in GeneratedSet(artifacts, a) : f.holds.kind # "copied"
  BY FileKinds
<1>3. FilesAt(i) = CopiedSet(a) \cup GeneratedSet(artifacts, a)
  BY <1>1 DEF FilesAt, FileSet
<1> HIDE DEF a, C, G
<1>4. PICK m \in Nat, n \in Nat :
        /\ DOMAIN C = 1..m /\ DOMAIN G = 1..n /\ DOMAIN (C \o G) = 1..(m + n)
        /\ \A k \in 1..m : (C \o G)[k] = C[k]
        /\ \A k \in 1..n : (C \o G)[m + k] = G[k]
        /\ \A k \in (m + 1)..(m + n) : (C \o G)[k] = G[k - m]
  <2>1. C \in Seq(CopiedSet(a)) /\ G \in Seq(GeneratedSet(artifacts, a))
    BY <1>1 DEF Enumerates
  <2>2. PICK S : C \in Seq(S) /\ G \in Seq(S)
    <3>1. \A S, T : Seq(S) \subseteq Seq(S \cup T) /\ Seq(T) \subseteq Seq(S \cup T)
      OBVIOUS
    <3>2. QED
      BY <2>1, <3>1
  <2>3. QED
    BY <2>2
<1>5. ASSUME NEW k \in 1..(m + n), (C \o G)[k].holds.kind = "copied",
             NEW g \in FilesAt(i), g.holds.kind # "copied"
      PROVE  \E l \in 1..(m + n) : l > k /\ (C \o G)[l] = g
  <2>1. k \in 1..m
    <3>1. CASE k \in (m + 1)..(m + n)
      <4>1. k - m \in 1..n /\ (C \o G)[k] = G[k - m]
        BY <1>4, <3>1
      <4>2. G[k - m] \in GeneratedSet(artifacts, a)
        BY <1>1, <1>4, <4>1 DEF Enumerates, ToSet
      <4>3. QED
        BY <1>2, <1>5, <4>1, <4>2
    <3>2. QED
      BY <3>1
  <2>2. PICK l \in 1..n : G[l] = g
    BY <1>1, <1>2, <1>3, <1>4, <1>5 DEF Enumerates, ToSet
  <2>3. m + l \in 1..(m + n) /\ m + l > k /\ (C \o G)[m + l] = g
    BY <1>4, <2>1, <2>2
  <2>4. QED
    BY <2>3
<1>6. PICK all : all = C \o G
  OBVIOUS
<1>7. /\ DOMAIN all = 1..(m + n)
      /\ \A k \in 1..(m + n), g \in FilesAt(i) :
            all[k].holds.kind = "copied" /\ g.holds.kind # "copied" =>
                \E l \in 1..(m + n) : l > k /\ all[l] = g
  BY <1>4, <1>5, <1>6
<1>8. GeneratedAfter(i, all)
  BY <1>7 DEF GeneratedAfter
<1>9. QED
  BY <1>1, <1>6, <1>8 DEF a

-----------------------------------------------------------------------------
(* Where they are.                                                         *)

Below(d, t) == \A k \in DOMAIN d : k \in DOMAIN t /\ t[k] = d[k]

LEMMA DirsOfArtifact ==
    ASSUME NEW a \in Wrappers
    PROVE  /\ \A d \in {DirOf(a), ChartDir(a), CopyDir(a)} :
                 Below(DirOf(a), d) /\ IsPrefix(d, d)
           /\ ChartDir(a) # DirOf(a)
           /\ ~a.whole => CopyDir(a) # DirOf(a) /\ (~a.kustomize => CopyDir(a) # ChartDir(a))
<1> DEFINE Parts == Names \cup {"helm-chart", "content"}
           Deeper(d, e) == Below(d, e) /\ Len(d) < Len(e)
<1>1. DirOf(a) \in Seq(Parts)
  BY DEF Wrappers, DirOf
<1>2. ASSUME NEW d \in Seq(Parts), NEW x \in Parts
      PROVE  Append(d, x) \in Seq(Parts) /\ Deeper(d, Append(d, x))
  BY DEF Below
<1>3. \A d \in Seq(Parts) : IsPrefix(d, d) /\ Below(d, d) /\ Len(d) \in Nat
  BY DEF IsPrefix, Below
<1>4. \A c, d, e \in Seq(Parts) : Deeper(c, d) /\ Deeper(d, e) => Deeper(c, e)
  BY DEF Below
<1>5. "helm-chart" \in Parts /\ "content" \in Parts
  OBVIOUS
<1> HIDE DEF Parts
<1>6. ChartDir(a) \in Seq(Parts) /\ Deeper(DirOf(a), ChartDir(a))
  BY <1>1, <1>2, <1>5 DEF ChartDir
<1>7. CASE a.whole
  <2>1. CopyDir(a) \in {DirOf(a), ChartDir(a)}
    BY <1>7 DEF CopyDir
  <2>2. QED
    BY <1>1, <1>3, <1>6, <1>7, <2>1
<1>8. CASE ~a.whole /\ a.kustomize
  <2>1. CopyDir(a) = Append(DirOf(a), "content")
    BY <1>8 DEF CopyDir
  <2>2. CopyDir(a) \in Seq(Parts) /\ Deeper(DirOf(a), CopyDir(a))
    BY <1>1, <1>2, <1>5, <2>1
  <2>3. QED
    BY <1>1, <1>3, <1>6, <1>8, <2>2
<1>9. CASE ~a.whole /\ ~a.kustomize
  <2>1. CopyDir(a) = Append(ChartDir(a), "content")
    BY <1>9 DEF CopyDir
  <2>2. CopyDir(a) \in Seq(Parts) /\ Deeper(ChartDir(a), CopyDir(a))
    BY <1>2, <1>5, <1>6, <2>1
  <2>3. Deeper(DirOf(a), CopyDir(a))
    BY <1>1, <1>4, <1>6, <2>2
  <2>4. QED
    BY <1>1, <1>3, <1>6, <2>2, <2>3
<1>10. QED
  BY <1>7, <1>8, <1>9

LEMMA FilesBelow ==
    ASSUME NEW list, NEW a \in Wrappers, NEW f \in FileSet(list, a)
    PROVE  /\ f.at[1] \in {DirOf(a), ChartDir(a), CopyDir(a)}
           /\ Below(DirOf(a), f.at[1])
<1>1. f.at[1] \in {DirOf(a), ChartDir(a), CopyDir(a)}
  BY FileFields DEF FileSet, CopiedSet, GeneratedSet, FluxSet, Listing, ListingSet, ObjectSet
<1>2. QED
  BY <1>1, DirsOfArtifact

\* Two files of an artifact have one path only if it is the whole directory of its
\* profile: a file that is copied, and one that is generated in its place.
LEMMA OnePlaceEach ==
    ASSUME NEW list, NEW a \in Wrappers,
           NEW f \in FileSet(list, a), NEW g \in FileSet(list, a), f.at = g.at
    PROVE  f = g \/ (a.whole /\ ((f.holds.kind = "copied") # (g.holds.kind = "copied")))
<1>1. /\ ChartDir(a) # DirOf(a)
      /\ ~a.whole => CopyDir(a) # DirOf(a) /\ (~a.kustomize => CopyDir(a) # ChartDir(a))
  BY DirsOfArtifact
<1>2. f.at[1] = g.at[1] /\ f.at[2] = g.at[2]
  OBVIOUS
<1>3. \A h \in CopiedSet(a) : h.at[1] = CopyDir(a)
  BY FileFields DEF CopiedSet
<1>4. \A h \in GeneratedSet(list, a) :
        h.at[1] = DirOf(a) \/ (~a.kustomize /\ h.at[1] = ChartDir(a))
  BY FileFields DEF GeneratedSet, FluxSet, Listing, ListingSet, ObjectSet
<1>5. CASE f \in CopiedSet(a) /\ g \in CopiedSet(a)
  BY <1>2, <1>5, FileFields DEF CopiedSet
<1>6. CASE f \in GeneratedSet(list, a) /\ g \in GeneratedSet(list, a)
  <2>1. CASE a.kustomize
    BY <1>2, <1>6, <2>1, FileFields DEF GeneratedSet, FluxSet
  <2>2. CASE ~a.kustomize
    BY <1>1, <1>2, <1>6, <2>2, FileFields DEF GeneratedSet, FluxSet, Listing, ListingSet, ObjectSet
  <2>3. QED
    BY <2>1, <2>2
<1>7. CASE f \in CopiedSet(a) /\ g \in GeneratedSet(list, a)
  <2>1. a.whole
    BY <1>1, <1>2, <1>3, <1>4, <1>7 DEF Wrappers
  <2>2. QED
    BY <1>7, <2>1, FileKinds
<1>8. CASE g \in CopiedSet(a) /\ f \in GeneratedSet(list, a)
  <2>1. a.whole
    BY <1>1, <1>2, <1>3, <1>4, <1>8 DEF Wrappers
  <2>2. QED
    BY <1>8, <2>1, FileKinds
<1>9. QED
  BY <1>5, <1>6, <1>7, <1>8 DEF FileSet

LEMMA FilesApart ==
    ASSUME NEW list, NEW a \in Wrappers, NEW b \in Wrappers, Apart(DirOf(a), DirOf(b)),
           NEW f \in FileSet(list, a), NEW g \in FileSet(list, b)
    PROVE  f.at # g.at
<1>1. PICK k \in (DOMAIN DirOf(a)) \cap (DOMAIN DirOf(b)) : DirOf(a)[k] # DirOf(b)[k]
  BY DEF Apart
<1>2. f.at[1][k] = DirOf(a)[k] /\ g.at[1][k] = DirOf(b)[k]
  BY <1>1, FilesBelow DEF Below
<1>3. QED
  BY <1>1, <1>2

\* Of all files of an installation, only these have one path.
LEMMA PlannedOnce ==
    ASSUME Inv, PlacesApart, NEW i \in DOMAIN artifacts, NEW j \in DOMAIN artifacts,
           NEW f \in FilesAt(i), NEW g \in FilesAt(j), f.at = g.at, f # g
    PROVE  /\ i = j /\ artifacts[i].whole
           /\ (f.holds.kind = "copied") # (g.holds.kind = "copied")
<1>1. artifacts[i] \in Wrappers /\ artifacts[j] \in Wrappers
  BY PlacesTyped DEF Inv
<1>2. f \in FileSet(artifacts, artifacts[i]) /\ g \in FileSet(artifacts, artifacts[j])
  BY <1>1, FilesEnumerated DEF FilesAt, Enumerates
<1>3. i = j
  BY <1>1, <1>2, FilesApart DEF PlacesApart
<1>4. QED
  BY <1>1, <1>2, <1>3, OnePlaceEach

-----------------------------------------------------------------------------
(* Writing.                                                                *)

LEMMA InitMarked ==
    ASSUME Init
    PROVE  PlacesApart /\ Progress /\ Marked
<1>1. artifacts = <<>> /\ stack = <<>> /\ DOMAIN artifacts = {} /\ DOMAIN stack = {}
  BY DEF Init
<1>2. call = NoCall /\ pc = "idle"
  BY DEF Init
<1>3. PlacesApart
  BY <1>1, <1>2 DEF PlacesApart
<1>4. Progress /\ Marked
  BY <1>1, <1>2 DEF Progress, Marked
<1>5. QED
  BY <1>3, <1>4

\* A file that is written does no harm to any other of the installation, but for one
\* whose place it takes and one that is still to be written.
LEMMA InPlaceKept ==
    ASSUME MInv, WriteFile, NEW i \in DOMAIN artifacts, NEW g \in FilesAt(i),
           InPlace(i, g) \/ g = Head(todo)
    PROVE  InPlace(i, g)' \/ (i = written + 1 /\ g \in ToSet(Tail(todo)))
<1> DEFINE f == Head(todo)
<1>1. /\ pc = "writing" /\ todo # <<>> /\ todo \in Seq(FilesAt(written + 1))
      /\ GeneratedAfter(written + 1, todo)
      /\ disk' = [p \in DOMAIN disk \cup {f.at} |-> IF p = f.at THEN f.holds ELSE disk[p]]
      /\ artifacts' = artifacts
  BY DEF WriteFile, MInv, Progress
<1>2. f \in FilesAt(written + 1) /\ written + 1 \in DOMAIN artifacts
  BY <1>1 DEF MInv, Inv, TypeOK
<1>3. Replaced(i)' = Replaced(i)
  BY <1>1 DEF Replaced, FilesAt
<1>4. g.at \in DOMAIN disk'
  BY <1>1 DEF InPlace
<1>5. CASE g \in Replaced(i) \/ g = f
  BY <1>1, <1>3, <1>4, <1>5 DEF InPlace
<1>6. CASE g.at # f.at /\ g \notin Replaced(i)
  <2>1. disk[g.at] = g.holds /\ g.at \in DOMAIN disk
    BY <1>6 DEF InPlace
  <2>2. disk'[g.at] = disk[g.at]
    BY <1>1, <1>6, <2>1
  <2>3. QED
    BY <1>4, <2>1, <2>2 DEF InPlace
<1>7. CASE g.at = f.at /\ g # f /\ g \notin Replaced(i)
  <2>1. /\ i = written + 1 /\ artifacts[i].whole
        /\ (g.holds.kind = "copied") # (f.holds.kind = "copied")
    BY <1>2, <1>7, PlannedOnce DEF MInv
  <2>2. g.holds.kind # "copied" /\ f.holds.kind = "copied"
    BY <1>2, <1>7, <2>1 DEF Replaced
  <2>3. 1 \in DOMAIN todo /\ todo[1] = f
    BY <1>1
  <2>4. PICK l \in DOMAIN todo : l > 1 /\ todo[l] = g
    BY <1>1, <2>1, <2>2, <2>3 DEF GeneratedAfter
  <2>5. l - 1 \in DOMAIN Tail(todo) /\ Tail(todo)[l - 1] = g
    BY <1>1, <2>4
  <2>6. QED
    BY <2>1, <2>5 DEF ToSet
<1>8. QED
  BY <1>5, <1>6, <1>7

LEMMA WriteFileProgress ==
    ASSUME MInv, WriteFile
    PROVE  Progress'
<1>0. PICK n \in Nat : n = written + 1
  BY DEF MInv, Inv, TypeOK
<1>1. /\ pc = "writing" /\ todo # <<>> /\ todo \in Seq(FilesAt(n)) /\ KnownAt(n)
      /\ GeneratedAfter(n, todo)
      /\ todo' = Tail(todo) /\ written' = (IF todo' = <<>> THEN written + 1 ELSE written)
      /\ UNCHANGED <<artifacts, pc>>
  BY <1>0 DEF WriteFile, MInv, Progress
<1>2. n \in DOMAIN artifacts /\ 1..written \subseteq DOMAIN artifacts
  BY <1>0, <1>1 DEF MInv, Inv, TypeOK
<1>3. \A i \in DOMAIN artifacts :
        /\ FilesAt(i)' = FilesAt(i) /\ KnownAt(i)' = KnownAt(i)
  BY <1>1 DEF FilesAt, KnownAt
<1>4. \A i \in 1..written :
        KnownAt(i)' /\ \A f \in FilesAt(i)' : InPlace(i, f)'
  <2> SUFFICES ASSUME NEW i \in 1..written
               PROVE  KnownAt(i)' /\ \A f \in FilesAt(i)' : InPlace(i, f)'
    OBVIOUS
  <2>1. i \in DOMAIN artifacts /\ i # n
    BY <1>0, <1>2 DEF MInv, Inv, TypeOK
  <2>2. KnownAt(i) /\ \A f \in FilesAt(i) : InPlace(i, f)
    BY <1>1 DEF MInv, Progress
  <2>3. QED
    BY <1>0, <1>3, <2>1, <2>2, InPlaceKept
<1>5. todo' \in Seq(FilesAt(n)) /\ ToSet(todo) \subseteq {Head(todo)} \cup ToSet(todo')
  <2>1. todo' \in Seq(FilesAt(n))
    BY <1>1
  <2>2. \A i \in DOMAIN todo : i = 1 \/ (i - 1 \in DOMAIN todo' /\ todo'[i - 1] = todo[i])
    BY <1>1
  <2>3. QED
    BY <1>1, <2>1, <2>2 DEF ToSet
<1>6. \A f \in FilesAt(n)' : f \in ToSet(todo') \/ InPlace(n, f)'
  <2> SUFFICES ASSUME NEW f \in FilesAt(n)
               PROVE  f \in ToSet(todo') \/ InPlace(n, f)'
    BY <1>2, <1>3
  <2>1. f \in ToSet(todo) \/ InPlace(n, f)
    BY <1>0, <1>1 DEF MInv, Progress
  <2>2. f \in ToSet(todo') \/ f = Head(todo) \/ InPlace(n, f)
    BY <1>5, <2>1
  <2>3. QED
    BY <1>1, <1>2, <2>2, InPlaceKept
<1>7. GeneratedAfter(n, todo)'
  <2> SUFFICES ASSUME NEW k \in DOMAIN todo', todo'[k].holds.kind = "copied",
                      NEW g \in FilesAt(n), g.holds.kind # "copied"
               PROVE  \E l \in DOMAIN todo' : l > k /\ todo'[l] = g
    BY <1>2, <1>3 DEF GeneratedAfter
  <2>1. k \in Nat /\ k + 1 \in DOMAIN todo /\ todo[k + 1] = todo'[k]
    BY <1>1
  <2>2. PICK l \in DOMAIN todo : l > k + 1 /\ todo[l] = g
    BY <1>1, <2>1 DEF GeneratedAfter
  <2>3. l - 1 \in DOMAIN todo' /\ l - 1 > k /\ todo'[l - 1] = g
    BY <1>1, <2>1, <2>2
  <2>4. QED
    BY <2>3
<1>8. CASE todo' = <<>>
  <2>1. \A i \in 1..written' : i \in 1..written \/ i = n
    BY <1>0, <1>1, <1>8 DEF MInv, Inv, TypeOK
  <2>2. KnownAt(n)' /\ \A f \in FilesAt(n)' : InPlace(n, f)'
    BY <1>1, <1>2, <1>3, <1>6, <1>8 DEF ToSet
  <2>3. QED
    BY <1>1, <1>4, <1>8, <2>1, <2>2 DEF Progress
<1>9. CASE todo' # <<>>
  <2>1. written' = written /\ written' + 1 = n
    BY <1>0, <1>1, <1>9
  <2>2. KnownAt(n)' /\ todo' \in Seq(FilesAt(n)')
    BY <1>1, <1>2, <1>3, <1>5
  <2>3. QED
    BY <1>1, <1>4, <1>6, <1>7, <2>1, <2>2 DEF Progress, FilesAt, KnownAt, GeneratedAfter
<1>10. QED
  BY <1>8, <1>9

LEMMA ProgressInvariant ==
    ASSUME MInv, [Next]_vars
    PROVE  Progress'
<1>1. CASE Install
  BY <1>1 DEF Install, Progress
<1>2. CASE Fail
  BY <1>2 DEF Fail, Progress
<1>3. CASE WriteMarker
  BY <1>3 DEF WriteMarker, Progress, MInv, Inv, TypeOK
<1>4. CASE Clone \/ ReadDefinition \/ NestedProfile \/ PlainArtifact
  <2>1. pc = "collecting" /\ UNCHANGED <<written, todo, pc>>
    BY <1>4 DEF Clone, ReadDefinition, NestedProfile, PlainArtifact, Collecting, MInv,
                Progress, Inv, TypeOK
  <2>2. QED
    BY <2>1 DEF MInv, Progress
<1>5. CASE Return
  <2>1. written' = 0 /\ todo' = <<>> /\ pc' # "idle"
    BY <1>5 DEF Return, Collecting, MInv, Progress
  <2>2. QED
    BY <2>1 DEF Progress
<1>6. CASE BeginArtifact
  <2>1. /\ pc = "writing" /\ ~Refuses(artifacts, Current, gitRepo)
        /\ todo' = FilesOf(artifacts, Current)
        /\ UNCHANGED <<artifacts, written, disk, pc>>
    BY <1>6 DEF BeginArtifact
  <2>2. KnownAt(written + 1)
    BY <2>1 DEF Refuses, KnownAt, Current
  <2>3. /\ todo' \in Seq(FilesAt(written + 1)) /\ FilesAt(written + 1) = ToSet(todo')
        /\ GeneratedAfter(written + 1, todo')
    <3>1. PICK n : n = written + 1
      OBVIOUS
    <3>2. n \in DOMAIN artifacts /\ artifacts[n] \in Wrappers /\ TypeOK
      BY <1>6, <3>1, PlacesTyped DEF BeginArtifact, MInv, Inv, TypeOK
    <3>3. todo' = FilesOf(artifacts, artifacts[n])
      BY <2>1, <3>1 DEF Current
    <3>4. QED
      BY <3>1, <3>2, <3>3, FilesEnumerated, FilesInOrder DEF Enumerates, FilesAt
  <2>4. QED
    BY <2>1, <2>2, <2>3 DEF MInv, Progress, KnownAt, FilesAt, InPlace, Replaced, GeneratedAfter, Current
<1>7. CASE (\E k \in Keys : Move(k)) \/ UNCHANGED vars
  <2>1. UNCHANGED <<call, artifacts, written, todo, disk, pc>>
    BY <1>7 DEF Move, vars
  <2>2. QED
    BY <2>1 DEF MInv, Progress, KnownAt, FilesAt, InPlace, Replaced, GeneratedAfter
<1>8. QED
  BY <1>1, <1>2, <1>3, <1>4, <1>5, <1>6, <1>7, WriteFileProgress DEF Next, Step

LEMMA MarkedInvariant ==
    ASSUME MInv, [Next]_vars
    PROVE  Marked'
<1>1. CASE Install
  <2>1. runs' = runs + 1 /\ marker' = marker /\ runs' \in 1..MaxRuns
    BY <1>1, InstallerAssumption DEF Install, MInv, Inv, TypeOK
  <2>2. marker' # runs'
    BY <2>1, InstallerAssumption DEF MInv, Inv, TypeOK
  <2>3. QED
    BY <2>2 DEF Marked
<1>2. CASE WriteMarker
  <2>1. /\ pc = "writing" /\ pc' = "idle" /\ written = Len(artifacts)
        /\ UNCHANGED <<artifacts, disk>>
    BY <1>2 DEF WriteMarker
  <2>2. \A i \in DOMAIN artifacts : i \in 1..written
    BY <2>1 DEF MInv, Inv, TypeOK
  <2>3. QED
    BY <2>1, <2>2 DEF MInv, Progress, Marked, KnownAt, FilesAt, InPlace, Replaced
<1>3. CASE (Step /\ ~WriteMarker) \/ Fail
  <2>1. pc # "idle" /\ UNCHANGED <<marker, runs>>
    <3>1. UNCHANGED <<marker, runs>>
      BY <1>3 DEF Step, Clone, ReadDefinition, NestedProfile, PlainArtifact, Return,
                  BeginArtifact, WriteFile, Fail
    <3>2. CASE Clone \/ ReadDefinition
      BY <3>2 DEF Clone, ReadDefinition, MInv, Progress
    <3>3. CASE NestedProfile \/ PlainArtifact \/ Return
      BY <3>3 DEF NestedProfile, PlainArtifact, Return, Collecting
    <3>4. CASE BeginArtifact \/ WriteFile \/ Fail
      BY <3>4 DEF BeginArtifact, WriteFile, Fail
    <3>5. QED
      BY <1>3, <3>1, <3>2, <3>3, <3>4 DEF Step
  <2>2. QED
    BY <2>1 DEF MInv, Marked
<1>4. CASE (\E k \in Keys : Move(k)) \/ UNCHANGED vars
  <2>1. UNCHANGED <<artifacts, disk, pc, marker, runs>>
    BY <1>4 DEF Move, vars
  <2>2. QED
    BY <2>1 DEF MInv, Marked, KnownAt, FilesAt, InPlace, Replaced
<1>5. QED
  BY <1>1, <1>2, <1>3, <1>4 DEF Next

LEMMA MInvariance == Spec => []MInv
<1>1. Init => MInv
  BY InitInv, InitMarked DEF MInv
<1>2. MInv /\ [Next]_vars => MInv'
  <2>1. Inv /\ [Next]_vars => Inv'
    BY MoveInv, InstallInv, CloneInv, ReadDefinitionInv, NestedProfileInv, PlainArtifactInv,
       ReturnInv, WritingInv, StutterInv DEF Next, Step
  <2>2. QED
    BY <2>1, ApartInvariant, ProgressInvariant, MarkedInvariant DEF MInv
<1>3. QED
  BY <1>1, <1>2, PTL DEF Spec

\* artifact.go:59-215.  Whatever the profiles contain, wherever earlier runs failed
\* in the same directory, and however the repositories move: if the marker is of
\* the last run, every file of every artifact is there as that run wrote it, but
\* for a copied file that a generated one of its artifact has replaced.
THEOREM MarkerComplete == Spec => []MarkerMeansComplete
<1>1. ASSUME MInv
      PROVE  MarkerMeansComplete
  BY <1>1 DEF MInv, Marked, InPlace, MarkerMeansComplete
<1>2. QED
  BY MInvariance, <1>1, PTL

-----------------------------------------------------------------------------
(* References.                                                             *)

\* containsArtifact finds an artifact wherever there is one to find.
LEMMA ContainsArtifactFinds ==
    ASSUME TypeOK, NEW name, Matches(artifacts, name) # {}
    PROVE  \E i \in DOMAIN artifacts : ContainsArtifact(artifacts, name) = artifacts[i]
<1> DEFINE M == Matches(artifacts, name)
<1>1. M \subseteq Nat /\ M \subseteq DOMAIN artifacts
  BY DEF Matches, TypeOK
<1> DEFINE Less == OpToRel(<, Nat)
<1>2. IsWellFoundedOn(Less, Nat)
  BY NatLessThanWellFounded, Zenon
<1>3. \A j, k \in Nat : j < k => <<j, k>> \in Less
  BY Zenon DEF OpToRel
<1> HIDE DEF Less
<1>4. PICK i \in M : \A j \in M : <<j, i>> \notin Less
  BY <1>1, <1>2, WFMin
<1>5. \A j \in M : i <= j
  <2>1. \A j \in M : j \in Nat /\ i \in Nat
    BY <1>1
  <2>2. \A j \in M : ~ (j < i)
    BY <1>3, <1>4, <2>1
  <2>3. QED
    BY <2>1, <2>2
<1>6. (CHOOSE k \in M : \A j \in M : k <= j) \in M
  BY <1>5
<1>7. QED
  BY <1>1, <1>6 DEF ContainsArtifact

\* The wrapper of an artifact, and what it has flux apply, are among its files.
LEMMA WrapperOf ==
    ASSUME NEW list, NEW a
    PROVE  \E g \in FileSet(list, a) : g.holds.kind = "wrapper" /\ g.holds.name = a.name
<1> DEFINE w(path) == File(DirOf(a), "kustomize-flux.yaml", Wrapper(list, a, path))
<1>1. \A path : w(path).holds.kind = "wrapper" /\ w(path).holds.name = a.name
  BY DEF File, Wrapper
<1>2. \A path : w(path) \in FluxSet(list, a, path)
  BY DEF FluxSet
<1>3. FluxSet(list, a, CopyDir(a)) \subseteq FileSet(list, a)
      \/ FluxSet(list, a, ChartDir(a)) \subseteq FileSet(list, a)
  BY DEF FileSet, GeneratedSet
<1>4. QED
  BY <1>1, <1>2, <1>3

LEMMA ResourcesThere ==
    ASSUME NEW list, NEW a, NEW f \in FileSet(list, a), f.holds.kind = "resources",
           NEW n \in f.holds.names
    PROVE  \E g \in FileSet(list, a) : g.at = <<f.at[1], n>>
<1> DEFINE flux(path) == File(DirOf(a), "kustomize-flux.yaml", Wrapper(list, a, path))
           top == File(DirOf(a), "kustomization.yaml", Resources({"kustomize-flux.yaml"}))
           names == {"HelmRelease.yaml"} \cup (IF a.defaults THEN {"ConfigMap.yaml"} ELSE {})
<1>1. /\ \A x : Resources(x).names = x /\ Copied(a).kind # "resources"
      /\ Object(a).kind # "resources" /\ \A path : Wrapper(list, a, path).kind # "resources"
  BY DEF Resources, Copied, Object, Wrapper
<1>2. f = top \/ (f = Listing(a) /\ ~a.kustomize)
  BY <1>1, FileFields DEF FileSet, CopiedSet, GeneratedSet, FluxSet, ListingSet, ObjectSet
<1>3. CASE f = top
  <2>1. n = "kustomize-flux.yaml" /\ f.at[1] = DirOf(a)
    BY <1>1, <1>3, FileFields
  <2>2. flux(CopyDir(a)) \in FileSet(list, a) \/ flux(ChartDir(a)) \in FileSet(list, a)
    BY DEF FileSet, GeneratedSet, FluxSet
  <2>3. QED
    BY <2>1, <2>2, FileFields
<1>4. CASE f = Listing(a) /\ ~a.kustomize
  <2>1. n \in names /\ f.at[1] = ChartDir(a)
    BY <1>1, <1>4, FileFields DEF Listing
  <2>2. File(ChartDir(a), n, Object(a)) \in ObjectSet(a)
    BY <2>1 DEF ObjectSet
  <2>3. File(ChartDir(a), n, Object(a)) \in FileSet(list, a)
    BY <1>4, <2>2 DEF FileSet, GeneratedSet
  <2>4. QED
    BY <2>1, <2>3, FileFields
<1>5. QED
  BY <1>2, <1>3, <1>4

LEMMA WrapperShape ==
    ASSUME NEW list, NEW a \in Wrappers, NEW f \in FileSet(list, a), f.holds.kind = "wrapper"
    PROVE  /\ f.holds.dependsOn = Dependencies(list, a)
           /\ \E g \in FileSet(list, a) : g.at[1] = f.holds.path
<1>1. /\ \A path : /\ Wrapper(list, a, path).path = path
                   /\ Wrapper(list, a, path).dependsOn = Dependencies(list, a)
      /\ \A x : Resources(x).kind # "wrapper" /\ Copied(a).kind # "wrapper"
      /\ Object(a).kind # "wrapper"
  BY DEF Resources, Copied, Object, Wrapper
<1> DEFINE flux(path) == File(DirOf(a), "kustomize-flux.yaml", Wrapper(list, a, path))
           copy == File(CopyDir(a), a.content[1], Copied(a))
           release == File(ChartDir(a), "HelmRelease.yaml", Object(a))
<1>2. CASE a.kustomize
  <2>1. f = flux(CopyDir(a))
    BY <1>1, <1>2, FileFields DEF FileSet, CopiedSet, GeneratedSet, FluxSet
  <2>2. 1 \in DOMAIN a.content
    <3>1. a.content \in Seq(FileNames) /\ a.content # <<>>
      BY DEF Wrappers, Contents
    <3>2. QED
      BY <3>1
  <2>3. copy \in FileSet(list, a)
    BY <1>2, <2>2 DEF FileSet, CopiedSet
  <2>4. QED
    BY <1>1, <2>1, <2>3, FileFields
<1>3. CASE ~a.kustomize
  <2>1. f = flux(ChartDir(a))
    BY <1>1, <1>3, FileFields
    DEF FileSet, CopiedSet, GeneratedSet, FluxSet, Listing, ListingSet, ObjectSet
  <2>2. release \in FileSet(list, a)
    BY <1>3 DEF FileSet, GeneratedSet, ObjectSet
  <2>3. QED
    BY <1>1, <2>1, <2>2, FileFields
<1>4. QED
  BY <1>2, <1>3

\* artifact.go:106-215, 343-378.  Whatever the profiles contain, an installation
\* with a marker of the last run has every resource it lists, what it has flux
\* apply, and a Kustomization for every dependency.
THEOREM ReferencesThere == Spec => []NothingDangles
<1>1. ASSUME MInv
      PROVE  NothingDangles
  <2> SUFFICES ASSUME marker = runs, NEW f \in Planned
               PROVE  RefersTo(f)
    BY DEF NothingDangles
  <2>0. \A i \in DOMAIN artifacts :
          artifacts[i] \in Wrappers /\ FilesAt(i) = FileSet(artifacts, artifacts[i])
    BY <1>1, PlacesTyped, FilesEnumerated DEF MInv, Inv, FilesAt, Enumerates
  <2>1. PICK i \in DOMAIN artifacts : f \in FileSet(artifacts, artifacts[i])
    BY <2>0 DEF Planned
  <2>2. /\ artifacts[i] \in Wrappers /\ TypeOK /\ KnownAt(i)
        /\ \A g \in FileSet(artifacts, artifacts[i]) : g.at \in DOMAIN disk
    BY <1>1, <2>0 DEF MInv, Inv, Marked, InPlace
  <2>3. \A j \in DOMAIN artifacts : FileSet(artifacts, artifacts[j]) \subseteq Planned
    BY <2>0 DEF Planned
  <2>4. ASSUME f.holds.kind = "resources", NEW n \in f.holds.names
        PROVE  <<f.at[1], n>> \in DOMAIN disk
    <3>1. PICK g \in FileSet(artifacts, artifacts[i]) : g.at = <<f.at[1], n>>
      BY <2>1, <2>4, ResourcesThere
    <3>2. QED
      BY <2>2, <3>1
  <2>5. ASSUME f.holds.kind = "wrapper"
        PROVE  \E g \in DOMAIN disk : IsPrefix(f.holds.path, g[1])
    <3>1. PICK g \in FileSet(artifacts, artifacts[i]) : g.at[1] = f.holds.path
      BY <2>1, <2>2, <2>5, WrapperShape
    <3>2. IsPrefix(g.at[1], g.at[1])
      BY <2>2, FilesBelow, DirsOfArtifact
    <3>3. QED
      BY <2>2, <3>1, <3>2
  <2>6. ASSUME f.holds.kind = "wrapper", NEW n \in f.holds.dependsOn
        PROVE  \E g \in Planned : g.holds.kind = "wrapper" /\ g.holds.name = n
    <3>1. PICK d \in artifacts[i].dependsOn : n = ContainsArtifact(artifacts, d).name
      BY <2>1, <2>2, <2>6, WrapperShape DEF Dependencies
    <3>2. PICK j \in DOMAIN artifacts : ContainsArtifact(artifacts, d) = artifacts[j]
      BY <2>2, ContainsArtifactFinds DEF KnownAt
    <3>3. PICK g \in FileSet(artifacts, artifacts[j]) :
             g.holds.kind = "wrapper" /\ g.holds.name = artifacts[j].name
      BY WrapperOf
    <3>4. QED
      BY <2>3, <3>1, <3>2, <3>3
  <2>7. QED
    BY <2>4, <2>5, <2>6 DEF RefersTo
<1>2. QED
  BY MInvariance, <1>1, PTL
=============================================================================
