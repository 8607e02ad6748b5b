-------------------------- MODULE DriverLife_proofs --------------------------
(* A module whose lists of steps and releases fit together releases what it   *)
(* has, once, in the right order, and leaves nothing; and those of the        *)
(* repository fit, for the failures that their code provides for and for any  *)
(* number of devices.                                                         *)
EXTENDS DriverLife, TLAPS

Releases == [of : Things, guarded : BOOLEAN, clears : BOOLEAN]
Steps    == [get : Things, undo : Seq(Releases), vital : BOOLEAN]

-----------------------------------------------------------------------------
\* What can be said of the lists without running them.

InitC(c) == InitOf[c.driver]
ExitC(c) == ExitOf[c.driver]

Earlier(a, b, k, j) == a < k \/ (a = k /\ b < j)
CanFail(c, s) == s.get[1] \in c.fails
Front(r) == r[1] \in {"disk", "file"}

\* A step before the j-th one of part k is for r.
GotBefore(c, k, j, r) ==
    \E a \in 1 .. Len(InitC(c)) : \E b \in 1 .. Len(InitC(c)[a]) :
       Earlier(a, b, k, j) /\ InitC(c)[a][b].get = r

\* A step that fails gives r back, and init goes on.
Dropped(c, r) ==
    \E a \in 1 .. Len(InitC(c)) : \E b \in 1 .. Len(InitC(c)[a]) :
       LET s == InitC(c)[a][b] IN
       ~s.vital /\ CanFail(c, s) /\ \E i \in 1 .. Len(s.undo) : s.undo[i].of = r

\* The step is not passed over: neither it nor one before it in its part may fail
\* and let init go on.
Certain(c, a, b) ==
    \A i \in 1 .. b : InitC(c)[a][i].vital \/ ~CanFail(c, InitC(c)[a][i])

\* When init is at the j-th step of part k, the module has r whatever failed.
SureBefore(c, k, j, r) ==
    /\ ~Dropped(c, r)
    /\ \E a \in 1 .. Len(InitC(c)) : \E b \in 1 .. Len(InitC(c)[a]) :
          Earlier(a, b, k, j) /\ InitC(c)[a][b].get = r /\ Certain(c, a, b)

\* From there, the releases l take disks and files before what they use ...
InOrder(c, l, k, j) ==
    \A i \in 1 .. Len(l) : \A r \in Things :
       Front(r) /\ GotBefore(c, k, j, r) /\ l[i].of \in Behind(c.driver, r) =>
          \E h \in 1 .. i - 1 : l[h].of = r

\* ... and give back everything, once.
Returns(c, l, k, j) ==
    /\ \A h, i \in 1 .. Len(l) : l[h].of = l[i].of => h = i
    /\ \A i \in 1 .. Len(l) : l[i].guarded \/ SureBefore(c, k, j, l[i].of)
    /\ \A r \in Things : GotBefore(c, k, j, r) => \E i \in 1 .. Len(l) : l[i].of = r
    /\ InOrder(c, l, k, j)

Typing(c) ==
    /\ InitC(c) \in Seq(Seq(Steps)) /\ ExitC(c) \in Seq(Releases)
    /\ \A a \in 1 .. Len(InitC(c)) : Len(InitC(c)[a]) > 0

Distinct(c) ==
    \A a, k \in 1 .. Len(InitC(c)) :
       \A b \in 1 .. Len(InitC(c)[a]) : \A j \in 1 .. Len(InitC(c)[k]) :
          InitC(c)[a][b].get = InitC(c)[k][j].get => a = k /\ b = j

\* A disk or a file is asked for when what it uses is there.
FrontLast(c) ==
    \A k \in 1 .. Len(InitC(c)) : \A j \in 1 .. Len(InitC(c)[k]) :
       Front(InitC(c)[k][j].get) =>
          \A r \in Behind(c.driver, InitC(c)[k][j].get) :
             \/ SureBefore(c, k, j, r)
             \/ \E i \in 1 .. j - 1 : InitC(c)[k][i].get = r

\* A failure that ends init gives back everything; one that does not leaves NULL
\* in the variables.
UndoFits(c) ==
    \A k \in 1 .. Len(InitC(c)) : \A j \in 1 .. Len(InitC(c)[k]) :
       LET s == InitC(c)[k][j] IN
       CanFail(c, s) =>
          IF s.vital THEN Returns(c, s.undo, k, j)
          ELSE /\ InOrder(c, s.undo, k, j)
               /\ \A i \in 1 .. Len(s.undo) : s.undo[i].guarded /\ s.undo[i].clears

Sound(c) ==
    /\ Typing(c) /\ Distinct(c) /\ FrontLast(c) /\ UndoFits(c)
    /\ Returns(c, ExitC(c), Len(InitC(c)) + 1, 1)

\* A number that was got is never taken for one that was not, and exit finds what it
\* uses.
SureOfItself(c) ==
    /\ "given" \notin c.fails
    /\ \A r \in ExitUses(c.driver) : r \in Things /\ SureBefore(c, Len(InitC(c)) + 1, 1, r)

AllSound == \A c \in Configs : Sound(c) /\ SureOfItself(c)

-----------------------------------------------------------------------------
\* The inductive invariant.

Types ==
    /\ conf \in Configs
    /\ module \in {"out", "loading", "failing", "live", "unloading"}
    /\ ptr \in [Things -> {"null", "held", "stale"}]
    /\ held = {r \in Things : ptr[r] = "held"}
    /\ drop \in Seq(Releases)
    /\ part \in 1 .. Len(Parts) + 1
    /\ part =< Len(Parts) => step \in 1 .. Len(Parts[part])
    /\ part > Len(Parts) => step = 1

\* Until the module goes, what its variables name is there, what no failure
\* prevents has been got, and a release is one that lets init go on.
Coming ==
    module \in {"loading", "live"} =>
       /\ \A r \in Things : ptr[r] # "stale"
       /\ \A r \in Things : ptr[r] = "held" => GotBefore(conf, part, step, r)
       /\ \A r \in Things : SureBefore(conf, part, step, r) => ptr[r] = "held"
       /\ part =< Len(Parts) => \A i \in 1 .. step - 1 : ptr[Parts[part][i].get] = "held"
       /\ drop # << >> => step = 1
       /\ \A i \in 1 .. Len(drop) :
             drop[i].guarded /\ drop[i].clears /\ Dropped(conf, drop[i].of)
       /\ module = "live" => part > Len(Parts) /\ drop = << >>

\* What is left to be released is there or known not to be, and it is everything.
Going ==
    module \in {"failing", "unloading"} =>
       /\ \A h, i \in 1 .. Len(drop) : drop[h].of = drop[i].of => h = i
       /\ \A i \in 1 .. Len(drop) : \/ ptr[drop[i].of] = "held"
                                    \/ drop[i].guarded /\ ptr[drop[i].of] = "null"
       /\ \A r \in Things : ptr[r] = "held" => \E i \in 1 .. Len(drop) : drop[i].of = r

Away ==
    module = "out" => drop = << >> /\ \A r \in Things : ptr[r] = "null"

\* What a disk or a file uses is released after it.
Ordered ==
    \A i \in 1 .. Len(drop) : \A r \in Things :
       Front(r) /\ ptr[r] = "held" /\ drop[i].of \in Behind(conf.driver, r) =>
          \E h \in 1 .. i - 1 : drop[h].of = r

\* What Backed says of the failures that are provided for.
AllBehind == \A r \in Fronts : Behind(conf.driver, r) \subseteq held

IInv ==
    /\ Types /\ Coming /\ Going /\ Away /\ Ordered
    /\ AllBehind /\ fault = FALSE /\ leaked = {}

-----------------------------------------------------------------------------
\* The lists that are left of a list of releases, and the places of a step.

\* The first release of a list, and the others.
LEMMA HeadTail ==
    ASSUME NEW l \in Seq(Releases), l # << >>
    PROVE  /\ Head(l) = l[1] /\ l[1] \in Releases /\ Tail(l) \in Seq(Releases)
           /\ Len(l) \in Nat /\ 1 \in 1 .. Len(l) /\ Len(Tail(l)) = Len(l) - 1
           /\ \A i \in 1 .. Len(Tail(l)) : Tail(l)[i] = l[i + 1] /\ i + 1 \in 1 .. Len(l)
           /\ \A i \in 2 .. Len(l) : i - 1 \in 1 .. Len(Tail(l)) /\ Tail(l)[i - 1] = l[i]
OBVIOUS

\* What a list releases are things.
LEMMA ListIs ==
    ASSUME NEW l \in Seq(Releases)
    PROVE  \A i \in 1 .. Len(l) : l[i] \in Releases /\ l[i].of \in Things
<1>1. \A i \in 1 .. Len(l) : l[i] \in Releases
  OBVIOUS
<1>2. \A d \in Releases : d.of \in Things
  BY DEF Releases
<1> QED
  BY <1>1, <1>2

\* A place in the lists of init.
LEMMA PlaceIs ==
    ASSUME NEW c, Typing(c), NEW k \in 1 .. Len(InitC(c))
    PROVE  /\ Len(InitC(c)) \in Nat /\ Len(InitC(c)[k]) \in Nat /\ Len(InitC(c)[k]) > 0
           /\ \A j \in 1 .. Len(InitC(c)[k]) :
                 /\ InitC(c)[k][j] \in Steps
                 /\ InitC(c)[k][j].get \in Things
                 /\ InitC(c)[k][j].undo \in Seq(Releases)
                 /\ InitC(c)[k][j].vital \in BOOLEAN
<1> DEFINE P == InitC(c)
<1>1. P \in Seq(Seq(Steps)) /\ Len(P[k]) > 0 /\ k \in 1 .. Len(P)
  BY DEF Typing
<1>2. P[k] \in Seq(Steps) /\ Len(P) \in Nat
  <2> HIDE DEF P
  <2> QED
    BY <1>1
<1>3. \A j \in 1 .. Len(P[k]) : P[k][j] \in Steps
  <2> HIDE DEF P
  <2> QED
    BY <1>2
<1>4. Len(P[k]) \in Nat
  BY <1>2
<1> QED
  BY <1>1, <1>2, <1>3, <1>4 DEF Steps

\* The step that init is at.
LEMMA StepIs ==
    ASSUME Types, Typing(conf), AtStep
    PROVE  /\ Parts = InitC(conf) /\ Step = InitC(conf)[part][step]
           /\ part \in 1 .. Len(InitC(conf)) /\ step \in 1 .. Len(InitC(conf)[part])
           /\ Len(InitC(conf)) \in Nat /\ Len(InitC(conf)[part]) \in Nat
           /\ Step \in Steps /\ Step.get \in Things /\ Step.undo \in Seq(Releases)
           /\ module = "loading" /\ drop = << >>
<1>1. Parts = InitC(conf) /\ Step = InitC(conf)[part][step]
  BY DEF Parts, InitC, Step
<1>2. Len(InitC(conf)) \in Nat
  BY DEF Typing
<1>3. part \in 1 .. Len(InitC(conf)) /\ step \in 1 .. Len(InitC(conf)[part])
  BY <1>1, <1>2 DEF Types, AtStep
<1> QED
  BY <1>1, <1>2, <1>3, PlaceIs DEF AtStep

\* Init goes on behind the step it was at.
LEMMA AdvanceIs ==
    ASSUME Types, Typing(conf), AtStep, Advance
    PROVE  /\ part' \in 1 .. Len(InitC(conf)) + 1
           /\ part' =< Len(InitC(conf)) => step' \in 1 .. Len(InitC(conf)[part'])
           /\ part' > Len(InitC(conf)) => step' = 1
           /\ step' = 1 \/ (part' = part /\ step' = step + 1)
           /\ \A a \in 1 .. Len(InitC(conf)) : \A b \in 1 .. Len(InitC(conf)[a]) :
                 Earlier(a, b, part', step') <=>
                    Earlier(a, b, part, step) \/ (a = part /\ b = step)
<1> DEFINE P == InitC(conf)
<1>1. /\ part \in 1 .. Len(P) /\ step \in 1 .. Len(P[part])
      /\ Len(P) \in Nat /\ Len(P[part]) \in Nat /\ Parts = P
  BY StepIs
<1>2. \A a \in 1 .. Len(P) : Len(P[a]) \in Nat /\ Len(P[a]) > 0
  BY PlaceIs
<1>3. \/ step < Len(P[part]) /\ step' = step + 1 /\ part' = part
      \/ ~(step < Len(P[part])) /\ part' = part + 1 /\ step' = 1
  BY <1>1 DEF Advance, NextPart
<1> HIDE DEF P
<1>4. \A a \in 1 .. Len(P) : \A b \in 1 .. Len(P[a]) :
         Earlier(a, b, part', step') <=> Earlier(a, b, part, step) \/ (a = part /\ b = step)
  BY <1>1, <1>2, <1>3 DEF Earlier
<1>5. /\ part' \in 1 .. Len(P) + 1
      /\ part' =< Len(P) => step' \in 1 .. Len(P[part'])
      /\ part' > Len(P) => step' = 1
      /\ step' = 1 \/ (part' = part /\ step' = step + 1)
  BY <1>1, <1>2, <1>3
<1> QED
  BY <1>4, <1>5 DEF P

\* Or it leaves out the rest of the part.
LEMMA NextPartIs ==
    ASSUME Types, Typing(conf), AtStep, NextPart
    PROVE  /\ part' \in 1 .. Len(InitC(conf)) + 1 /\ step' = 1
           /\ part' =< Len(InitC(conf)) => step' \in 1 .. Len(InitC(conf)[part'])
           /\ \A a \in 1 .. Len(InitC(conf)) : \A b \in 1 .. Len(InitC(conf)[a]) :
                 Earlier(a, b, part', step') <=>
                    Earlier(a, b, part, step) \/ (a = part /\ b >= step)
<1> DEFINE P == InitC(conf)
<1>1. /\ part \in 1 .. Len(P) /\ step \in 1 .. Len(P[part])
      /\ Len(P) \in Nat /\ Len(P[part]) \in Nat /\ Parts = P
  BY StepIs
<1>2. \A a \in 1 .. Len(P) : Len(P[a]) \in Nat /\ Len(P[a]) > 0
  BY PlaceIs
<1>3. part' = part + 1 /\ step' = 1
  BY DEF NextPart
<1> HIDE DEF P
<1>4. \A a \in 1 .. Len(P) : \A b \in 1 .. Len(P[a]) :
         Earlier(a, b, part', step') <=> Earlier(a, b, part, step) \/ (a = part /\ b >= step)
  BY <1>1, <1>2, <1>3 DEF Earlier
<1>5. /\ part' \in 1 .. Len(P) + 1
      /\ part' =< Len(P) => step' \in 1 .. Len(P[part'])
  BY <1>1, <1>2, <1>3
<1> QED
  BY <1>3, <1>4, <1>5 DEF P

\* A disk or a file is held where its pointer says so.
LEMMA FrontsAre == ASSUME Types PROVE Fronts = {r \in Things : Front(r) /\ ptr[r] = "held"}
BY DEF Types, Fronts, Front

-----------------------------------------------------------------------------
\* A step that succeeds.
LEMMA AcquireStep ==
    ASSUME IInv, Sound(conf), Acquire
    PROVE  IInv'
<1> DEFINE P == InitC(conf)  g == Step.get
<1>1. /\ AtStep /\ Advance /\ UNCHANGED <<conf, module, drop, fault, leaked>>
      /\ ptr' = [ptr EXCEPT ![g] = "held"] /\ held' = held \cup {g}
  BY DEF Acquire
<1>2. Types /\ Typing(conf)
  BY DEF IInv, Sound
<1>3. /\ Parts = P /\ Step = P[part][step]
      /\ part \in 1 .. Len(P) /\ step \in 1 .. Len(P[part])
      /\ Len(P) \in Nat /\ Len(P[part]) \in Nat
      /\ g \in Things /\ module = "loading" /\ drop = << >>
  BY <1>1, <1>2, StepIs
<1>4. /\ part' \in 1 .. Len(P) + 1
      /\ part' =< Len(P) => step' \in 1 .. Len(P[part'])
      /\ part' > Len(P) => step' = 1
      /\ step' = 1 \/ (part' = part /\ step' = step + 1)
      /\ \A a \in 1 .. Len(P) : \A b \in 1 .. Len(P[a]) :
            Earlier(a, b, part', step') <=> Earlier(a, b, part, step) \/ (a = part /\ b = step)
  BY <1>1, <1>2, AdvanceIs
<1>5. Parts' = P /\ InitC(conf') = P
  BY <1>1, <1>3 DEF Parts, InitC
<1>6. Step.get = P[part][step].get
  BY <1>3
<1>7. g = P[part][step].get
  BY <1>6
<1> HIDE DEF g
<1>8. /\ \A r \in Things : ptr'[r] = IF r = g THEN "held" ELSE ptr[r]
      /\ ptr \in [Things -> {"null", "held", "stale"}]
      /\ held = {r \in Things : ptr[r] = "held"}
  BY <1>1, <1>2 DEF Types
<1>9. Types'
  <2>1. ptr' \in [Things -> {"null", "held", "stale"}] /\ held' = {r \in Things : ptr'[r] = "held"}
    BY <1>1, <1>3, <1>8
  <2> QED
    BY <1>1, <1>2, <1>4, <1>5, <2>1 DEF Types
<1>10. Coming'
  <2>1. /\ \A r \in Things : ptr[r] # "stale"
        /\ \A r \in Things : ptr[r] = "held" => GotBefore(conf, part, step, r)
        /\ \A r \in Things : SureBefore(conf, part, step, r) => ptr[r] = "held"
        /\ \A i \in 1 .. step - 1 : ptr[P[part][i].get] = "held"
    BY <1>3 DEF IInv, Coming
  <2>2. \A r \in Things : ptr'[r] # "stale"
    BY <1>8, <2>1
  <2>3. ASSUME NEW r \in Things, ptr'[r] = "held"
        PROVE  GotBefore(conf, part', step', r)
    BY <1>3, <1>4, <1>7, <1>8, <2>1, <2>3 DEF GotBefore
  <2>4. ASSUME NEW r \in Things, SureBefore(conf, part', step', r)
        PROVE  ptr'[r] = "held"
    BY <1>3, <1>4, <1>7, <1>8, <2>1, <2>4 DEF SureBefore
  <2>5. ASSUME part' =< Len(P), NEW i \in 1 .. step' - 1
        PROVE  ptr'[P[part'][i].get] = "held"
    <3>1. part' = part /\ step' = step + 1 /\ i \in 1 .. step
      BY <1>3, <1>4, <2>5
    <3>2. P[part][i].get \in Things
      <4>1. i \in 1 .. Len(P[part])
        BY <1>3, <3>1
      <4> QED
        BY <1>2, <1>3, <4>1, PlaceIs
    <3>3. i = step \/ i \in 1 .. step - 1
      BY <1>3, <3>1
    <3> QED
      BY <1>7, <1>8, <2>1, <3>1, <3>2, <3>3
  <2>6. /\ drop' = << >> /\ Len(drop') = 0 /\ module' = "loading"
    BY <1>1, <1>3
  <2> QED
    BY <1>1, <1>5, <2>2, <2>3, <2>4, <2>5, <2>6 DEF Coming
<1>11. Going' /\ Away' /\ Ordered'
  <2>1. /\ drop' = << >> /\ Len(drop') = 0 /\ module' = "loading"
    BY <1>1, <1>3
  <2> QED
    BY <2>1 DEF Going, Away, Ordered
<1>12. AllBehind'
  <2>1. Fronts' = {r \in Things : Front(r) /\ ptr'[r] = "held"}
    BY <1>9 DEF Types, Fronts, Front
  <2>2. Fronts = {r \in Things : Front(r) /\ ptr[r] = "held"}
    BY <1>2, FrontsAre
  <2> SUFFICES ASSUME NEW r \in Things, Front(r), ptr'[r] = "held",
                      NEW b \in Behind(conf.driver, r)
               PROVE  b \in held'
    BY <1>1, <2>1 DEF AllBehind
  <2>3. CASE ptr[r] = "held"
    BY <1>1, <2>2, <2>3 DEF IInv, AllBehind
  <2>4. CASE r = g
    <3>1. \/ SureBefore(conf, part, step, b)
          \/ \E i \in 1 .. step - 1 : P[part][i].get = b
      BY <1>3, <1>7, <2>4 DEF Sound, FrontLast
    <3>2. ASSUME SureBefore(conf, part, step, b) PROVE b \in Things
      BY <1>2, <3>2, PlaceIs DEF SureBefore
    <3>3. CASE SureBefore(conf, part, step, b)
      BY <1>1, <1>3, <1>8, <3>2, <3>3 DEF IInv, Coming
    <3>4. CASE \E i \in 1 .. step - 1 : P[part][i].get = b
      <4>1. PICK i \in 1 .. step - 1 : P[part][i].get = b
        BY <3>4
      <4>2. ptr[b] = "held"
        BY <1>3, <4>1 DEF IInv, Coming
      <4>3. i \in 1 .. Len(P[part])
        BY <1>3
      <4>4. b \in Things
        BY <1>2, <1>3, <4>1, <4>3, PlaceIs
      <4> QED
        BY <1>1, <1>8, <4>2, <4>4
    <3> QED
      BY <3>1, <3>3, <3>4
  <2> QED
    BY <1>8, <2>3, <2>4
<1> QED
  BY <1>1, <1>9, <1>10, <1>11, <1>12 DEF IInv

\* A list of releases that begins where it gives back everything, once, in order.
LEMMA GoingBegins ==
    ASSUME Types, Typing(conf), module \in {"loading", "live"}, Coming,
           NEW l \in Seq(Releases), Returns(conf, l, part, step),
           drop' = l, ptr' = ptr, conf' = conf
    PROVE  /\ \A h, i \in 1 .. Len(l) : l[h].of = l[i].of => h = i
           /\ \A i \in 1 .. Len(l) : \/ ptr[l[i].of] = "held"
                                     \/ l[i].guarded /\ ptr[l[i].of] = "null"
           /\ \A r \in Things : ptr[r] = "held" => \E i \in 1 .. Len(l) : l[i].of = r
           /\ Ordered'
<1>1. \A i \in 1 .. Len(l) : l[i] \in Releases /\ l[i].of \in Things
  BY ListIs
<1>2. /\ \A r \in Things : ptr[r] \in {"null", "held", "stale"} /\ ptr[r] # "stale"
      /\ \A r \in Things : ptr[r] = "held" => GotBefore(conf, part, step, r)
      /\ \A r \in Things : SureBefore(conf, part, step, r) => ptr[r] = "held"
  BY DEF Types, Coming
<1>3. Ordered'
  BY <1>2 DEF Ordered, Returns, InOrder
<1> QED
  BY <1>1, <1>2, <1>3 DEF Returns

\* A step that fails.
LEMMA FailStep ==
    ASSUME IInv, Sound(conf), StepFails
    PROVE  IInv'
<1> DEFINE P == InitC(conf)  u == Step.undo
<1>1. /\ AtStep /\ CanFail(conf, Step) /\ drop' = u
      /\ UNCHANGED <<conf, ptr, held, fault, leaked>>
      /\ IF Step.vital THEN module' = "failing" /\ UNCHANGED <<part, step>>
         ELSE NextPart /\ UNCHANGED module
  BY DEF StepFails, CanFail
<1>2. Types /\ Typing(conf) /\ Coming
  BY DEF IInv, Sound
<1>3. /\ Parts = P /\ Step = P[part][step]
      /\ part \in 1 .. Len(P) /\ step \in 1 .. Len(P[part])
      /\ Len(P) \in Nat /\ Len(P[part]) \in Nat
      /\ u \in Seq(Releases) /\ module = "loading" /\ drop = << >>
  BY <1>1, <1>2, StepIs
<1>4. Parts' = P /\ InitC(conf') = P
  BY <1>1, <1>3 DEF Parts, InitC
<1>5. u = P[part][step].undo /\ (Step.vital <=> P[part][step].vital)
  BY <1>3
<1>6. AllBehind' /\ ~fault' /\ leaked' = {}
  BY <1>1 DEF IInv, AllBehind, Fronts
<1>7. fault' = FALSE
  BY <1>1 DEF IInv
<1>8. CASE Step.vital
  <2>1. module' = "failing" /\ UNCHANGED <<part, step>>
    BY <1>1, <1>8
  <2>2. Returns(conf, u, part, step)
    BY <1>1, <1>3, <1>8 DEF Sound, UndoFits
  <2>3. Types'
    BY <1>1, <1>2, <1>3, <1>4, <2>1 DEF Types
  <2>4. Going' /\ Ordered'
    <3> HIDE DEF u
    <3> QED
      BY <1>1, <1>2, <1>3, <2>1, <2>2, GoingBegins DEF Going
  <2>5. Coming' /\ Away'
    BY <2>1 DEF Coming, Away
  <2> QED
    BY <1>6, <1>7, <2>3, <2>4, <2>5 DEF IInv
<1>9. CASE ~Step.vital
  <2>1. NextPart /\ module' = "loading"
    BY <1>1, <1>3, <1>9
  <2>2. /\ part' \in 1 .. Len(P) + 1 /\ step' = 1
        /\ part' =< Len(P) => step' \in 1 .. Len(P[part'])
        /\ \A a \in 1 .. Len(P) : \A b \in 1 .. Len(P[a]) :
              Earlier(a, b, part', step') <=>
                 Earlier(a, b, part, step) \/ (a = part /\ b >= step)
    BY <1>1, <1>2, <2>1, NextPartIs
  <2>3. /\ InOrder(conf, u, part, step)
        /\ \A i \in 1 .. Len(u) : u[i].guarded /\ u[i].clears
    BY <1>1, <1>3, <1>9 DEF Sound, UndoFits
  <2>4. \A i \in 1 .. Len(u) : Dropped(conf, u[i].of)
    BY <1>1, <1>3, <1>9 DEF Dropped
  <2>5. /\ \A r \in Things : ptr[r] # "stale"
        /\ \A r \in Things : ptr[r] = "held" => GotBefore(conf, part, step, r)
        /\ \A r \in Things : SureBefore(conf, part, step, r) => ptr[r] = "held"
    BY <1>3 DEF IInv, Coming
  <2> HIDE DEF u
  <2>6. Types'
    BY <1>1, <1>2, <1>3, <1>4, <2>1, <2>2 DEF Types
  <2>7. Coming'
    <3>1. ASSUME NEW r \in Things, ptr[r] = "held"
          PROVE  GotBefore(conf, part', step', r)
      BY <2>2, <2>5, <3>1 DEF GotBefore
    <3>2. ASSUME NEW r \in Things, SureBefore(conf, part', step', r)
          PROVE  ptr[r] = "held"
      <4>1. ~Dropped(conf, r)
        BY <3>2 DEF SureBefore
      <4>2. PICK a \in 1 .. Len(P) : \E b \in 1 .. Len(P[a]) :
               Earlier(a, b, part', step') /\ P[a][b].get = r /\ Certain(conf, a, b)
        BY <3>2 DEF SureBefore
      <4>3. PICK b \in 1 .. Len(P[a]) :
               Earlier(a, b, part', step') /\ P[a][b].get = r /\ Certain(conf, a, b)
        BY <4>2
      <4>4. ~(a = part /\ b >= step)
        BY <1>1, <1>3, <1>9, <4>3 DEF Certain
      <4> QED
        BY <2>2, <2>5, <4>1, <4>3, <4>4 DEF SureBefore
    <3>3. part' =< Len(P) => \A i \in 1 .. step' - 1 : ptr[P[part'][i].get] = "held"
      BY <2>2
    <3> QED
      BY <1>1, <1>4, <2>1, <2>2, <2>3, <2>4, <2>5, <3>1, <3>2, <3>3 DEF Coming
  <2>8. Ordered'
    BY <1>1, <2>3, <2>5 DEF Ordered, InOrder
  <2>9. Going' /\ Away'
    BY <2>1 DEF Going, Away
  <2> QED
    BY <1>6, <1>7, <2>6, <2>7, <2>8, <2>9 DEF IInv
<1> QED
  BY <1>8, <1>9

\* A release: what its list says of the others still holds.
LEMMA ReleaseStep ==
    ASSUME IInv, Sound(conf), Release
    PROVE  IInv'
<1> DEFINE d == drop[1]  t == Tail(drop)  P == InitC(conf)
           skip == d.guarded /\ ptr[d.of] = "null"
<1>1. drop # << >> /\ drop \in Seq(Releases)
  BY DEF Release, IInv, Types
<1>2. /\ Head(drop) = d /\ d \in Releases /\ t \in Seq(Releases)
      /\ Len(drop) \in Nat /\ 1 \in 1 .. Len(drop) /\ Len(t) = Len(drop) - 1
      /\ \A i \in 1 .. Len(t) : t[i] = drop[i + 1] /\ i + 1 \in 1 .. Len(drop)
      /\ \A i \in 2 .. Len(drop) : i - 1 \in 1 .. Len(t) /\ t[i - 1] = drop[i]
  BY <1>1, HeadTail
<1>3. d.of \in Things
  BY <1>2 DEF Releases
<1>4. /\ drop' = t /\ UNCHANGED <<conf, module, part, step, leaked>>
      /\ fault' = (fault \/ (~skip /\ ptr[d.of] # "held"))
      /\ held' = IF skip THEN held ELSE held \ {d.of}
      /\ ptr' = IF skip THEN ptr
                ELSE [ptr EXCEPT ![d.of] = IF d.clears THEN "null" ELSE "stale"]
  BY <1>2, Zenon DEF Release
<1>5. /\ ptr \in [Things -> {"null", "held", "stale"}]
      /\ held = {r \in Things : ptr[r] = "held"} /\ Types /\ Typing(conf)
  BY DEF IInv, Types, Sound
<1>6. Parts' = Parts /\ Parts = P /\ InitC(conf') = P
  BY <1>4 DEF Parts, InitC
<1> HIDE DEF d, t, P
<1>7. /\ \A r \in Things : r # d.of => ptr'[r] = ptr[r]
      /\ ptr'[d.of] # "held"
      /\ ptr'[d.of] \in {"null", IF d.clears THEN "null" ELSE "stale"}
      /\ ptr' \in [Things -> {"null", "held", "stale"}]
      /\ held' = {r \in Things : ptr'[r] = "held"}
      /\ held' \subseteq held
  BY <1>3, <1>4, <1>5
<1>8. Types'
  BY <1>2, <1>4, <1>5, <1>6, <1>7 DEF Types
<1>9. module \in {"loading", "failing", "unloading"}
  BY <1>1, <1>5 DEF IInv, Coming, Away, Types
<1>10. ~(~skip /\ ptr[d.of] # "held")
  <2>1. CASE module = "loading"
    BY <1>2, <1>3, <1>5, <2>1 DEF IInv, Coming, d
  <2>2. CASE module \in {"failing", "unloading"}
    BY <1>2, <2>2 DEF IInv, Going, d
  <2> QED
    BY <1>9, <2>1, <2>2
<1>11. fault' = FALSE /\ leaked' = {}
  <2> HIDE DEF skip
  <2> QED
    BY <1>4, <1>10, Zenon DEF IInv
<1>12. Coming'
  <2> SUFFICES ASSUME module = "loading" PROVE Coming'
    BY <1>4, <1>9 DEF Coming
  <2>1. /\ \A r \in Things : ptr[r] # "stale"
        /\ \A r \in Things : ptr[r] = "held" => GotBefore(conf, part, step, r)
        /\ \A r \in Things : SureBefore(conf, part, step, r) => ptr[r] = "held"
        /\ step = 1
        /\ \A i \in 1 .. Len(drop) :
              drop[i].guarded /\ drop[i].clears /\ Dropped(conf, drop[i].of)
    BY <1>1 DEF IInv, Coming
  <2>2. d.clears /\ Dropped(conf, d.of)
    BY <1>2, <2>1 DEF d
  <2>3. \A r \in Things : ptr'[r] # "stale"
    BY <1>7, <2>1, <2>2
  <2>4. \A r \in Things : ptr'[r] = "held" => GotBefore(conf, part, step, r)
    BY <1>7, <2>1
  <2>5. \A r \in Things : SureBefore(conf, part, step, r) => ptr'[r] = "held"
    BY <1>7, <2>1, <2>2 DEF SureBefore
  <2>6. \A i \in 1 .. Len(t) : t[i].guarded /\ t[i].clears /\ Dropped(conf, t[i].of)
    BY <1>2, <2>1
  <2> QED
    BY <1>4, <2>1, <2>3, <2>4, <2>5, <2>6 DEF Coming
<1>13. Going'
  <2> SUFFICES ASSUME module \in {"failing", "unloading"}
               PROVE  /\ \A h, i \in 1 .. Len(t) : t[h].of = t[i].of => h = i
                      /\ \A i \in 1 .. Len(t) : \/ ptr'[t[i].of] = "held"
                                                \/ t[i].guarded /\ ptr'[t[i].of] = "null"
                      /\ \A r \in Things : ptr'[r] = "held" => \E i \in 1 .. Len(t) : t[i].of = r
    BY <1>4 DEF Going
  <2>1. /\ \A h, i \in 1 .. Len(drop) : drop[h].of = drop[i].of => h = i
        /\ \A i \in 1 .. Len(drop) : \/ ptr[drop[i].of] = "held"
                                     \/ drop[i].guarded /\ ptr[drop[i].of] = "null"
        /\ \A r \in Things : ptr[r] = "held" => \E i \in 1 .. Len(drop) : drop[i].of = r
    BY DEF IInv, Going
  <2>2. \A h, i \in 1 .. Len(t) : t[h].of = t[i].of => h = i
    BY <1>2, <2>1
  <2>3. \A i \in 1 .. Len(drop) : drop[i].of \in Things
    BY <1>1, ListIs
  <2>4. \A i \in 1 .. Len(t) : t[i].of # d.of /\ t[i].of \in Things
    <3> SUFFICES ASSUME NEW i \in 1 .. Len(t) PROVE t[i].of # d.of /\ t[i].of \in Things
      OBVIOUS
    <3>1. t[i] = drop[i + 1] /\ i + 1 \in 1 .. Len(drop) /\ i + 1 # 1
      BY <1>2
    <3> QED
      BY <1>2, <2>1, <2>3, <3>1 DEF d
  <2>5. \A i \in 1 .. Len(t) : \/ ptr'[t[i].of] = "held"
                               \/ t[i].guarded /\ ptr'[t[i].of] = "null"
    BY <1>2, <1>7, <2>1, <2>4
  <2>6. ASSUME NEW r \in Things, ptr'[r] = "held"
        PROVE  \E i \in 1 .. Len(t) : t[i].of = r
    <3>1. r # d.of /\ ptr[r] = "held"
      BY <1>7, <2>6
    <3>2. PICK i \in 1 .. Len(drop) : drop[i].of = r
      BY <2>1, <3>1
    <3>3. i \in 2 .. Len(drop)
      BY <1>2, <3>1, <3>2 DEF d
    <3> QED
      BY <1>2, <3>2, <3>3
  <2> QED
    BY <2>2, <2>5, <2>6
<1>14. Ordered'
  <2> SUFFICES ASSUME NEW i \in 1 .. Len(t), NEW r \in Things, Front(r), ptr'[r] = "held",
                      t[i].of \in Behind(conf.driver, r)
               PROVE  \E h \in 1 .. i - 1 : t[h].of = r
    BY <1>4 DEF Ordered
  <2>1. t[i] = drop[i + 1] /\ i + 1 \in 1 .. Len(drop) /\ i \in Nat
    BY <1>2
  <2>2. r # d.of /\ ptr[r] = "held"
    BY <1>7
  <2>3. PICK h \in 1 .. (i + 1) - 1 : drop[h].of = r
    BY <2>1, <2>2 DEF IInv, Ordered
  <2>4. h # 1
    BY <2>2, <2>3 DEF d
  <2>5. h - 1 \in 1 .. i - 1 /\ h \in 2 .. Len(drop)
    BY <1>2, <2>1, <2>3, <2>4
  <2>6. t[h - 1] = drop[h]
    BY <1>2, <2>5
  <2> QED
    BY <2>3, <2>5, <2>6
<1>15. AllBehind'
  <2>1. Fronts' = {r \in Things : Front(r) /\ ptr'[r] = "held"}
    BY <1>8 DEF Types, Fronts, Front
  <2>2. Fronts = {r \in Things : Front(r) /\ ptr[r] = "held"}
    BY <1>5, FrontsAre
  <2> SUFFICES ASSUME NEW r \in Things, Front(r), ptr'[r] = "held",
                      NEW b \in Behind(conf.driver, r)
               PROVE  b \in held'
    BY <1>4, <2>1 DEF AllBehind
  <2>3. ptr[r] = "held" /\ b \in held
    BY <1>7, <2>2 DEF IInv, AllBehind
  <2>4. b # d.of
    <3> SUFFICES ASSUME b = d.of PROVE FALSE
      OBVIOUS
    <3>1. \E h \in 1 .. 1 - 1 : drop[h].of = r
      BY <1>2, <2>3 DEF IInv, Ordered, d
    <3> QED
      BY <3>1
  <2> QED
    BY <1>5, <1>7, <2>3, <2>4
<1>16. Away'
  BY <1>4, <1>9 DEF Away
<1> QED
  BY <1>8, <1>11, <1>12, <1>13, <1>14, <1>15, <1>16 DEF IInv

\* The end of init, and the coming and going of the module.
LEMMA KernelStep ==
    ASSUME IInv, Sound(conf), Load \/ Loaded \/ Unload \/ Gone
    PROVE  IInv'
<1> DEFINE P == InitC(conf)
<1>1. conf' = conf /\ fault' = fault
  BY DEF Load, Loaded, Unload, Gone
<1>2. Types /\ Typing(conf) /\ Parts = P /\ Parts' = P /\ InitC(conf') = P /\ Len(P) \in Nat
  BY <1>1 DEF IInv, Sound, Parts, InitC, Typing
<1> HIDE DEF P
<1>3. CASE Load
  <2>1. /\ module = "out" /\ module' = "loading" /\ part' = 1 /\ step' = 1
        /\ UNCHANGED <<ptr, held, drop, leaked>>
    BY <1>3 DEF Load
  <2>2. drop = << >> /\ \A r \in Things : ptr[r] = "null"
    BY <2>1 DEF IInv, Away
  <2>3. Types'
    <3>1. 1 =< Len(P) => 1 \in 1 .. Len(P[1])
      BY <1>2, PlaceIs DEF P
    <3> QED
      BY <1>1, <1>2, <2>1, <3>1 DEF Types
  <2>4. Coming'
    <3>1. \A r : ~SureBefore(conf, 1, 1, r)
      BY <1>2 DEF SureBefore, Earlier, P
    <3>2. Len(drop') = 0 /\ 1 .. step' - 1 = {}
      BY <2>1, <2>2
    <3> QED
      BY <1>1, <2>1, <2>2, <3>1, <3>2 DEF Coming
  <2>5. Going' /\ Away' /\ Ordered'
    BY <2>1, <2>2 DEF Going, Away, Ordered
  <2>6. AllBehind' /\ leaked' = {} /\ fault' = FALSE
    BY <1>1, <2>1 DEF IInv, AllBehind, Fronts
  <2> QED
    BY <2>3, <2>4, <2>5, <2>6 DEF IInv
<1>4. CASE Loaded
  <2>1. /\ module = "loading" /\ drop = << >> /\ part > Len(Parts) /\ module' = "live"
        /\ UNCHANGED <<ptr, held, part, step, drop, leaked>>
    BY <1>4 DEF Loaded
  <2>2. Types' /\ AllBehind' /\ leaked' = {} /\ fault' = FALSE /\ Ordered'
    BY <1>1, <1>2, <2>1 DEF IInv, Types, AllBehind, Fronts, Ordered
  <2>3. Coming' /\ Going' /\ Away'
    BY <1>1, <1>2, <2>1 DEF IInv, Coming, Going, Away
  <2> QED
    BY <2>2, <2>3 DEF IInv
<1>5. CASE Unload
  <2>1. /\ module = "live" /\ module' = "unloading" /\ drop' = ExitC(conf)
        /\ UNCHANGED <<ptr, held, part, step, leaked>>
    BY <1>5 DEF Unload, ExitC
  <2>2. part = Len(P) + 1 /\ step = 1 /\ ExitC(conf) \in Seq(Releases)
    BY <1>2, <2>1 DEF IInv, Coming, Types, Typing
  <2>3. Returns(conf, ExitC(conf), part, step)
    BY <2>2 DEF Sound, P
  <2>4. Types' /\ AllBehind' /\ leaked' = {} /\ fault' = FALSE
    BY <1>1, <1>2, <2>1, <2>2 DEF IInv, Types, AllBehind, Fronts
  <2>5. Going' /\ Ordered'
    BY <1>1, <1>2, <2>1, <2>2, <2>3, GoingBegins DEF IInv, Going
  <2>6. Coming' /\ Away'
    BY <2>1 DEF Coming, Away
  <2> QED
    BY <2>4, <2>5, <2>6 DEF IInv
<1>6. CASE Gone
  <2>1. /\ module \in {"failing", "unloading"} /\ drop = << >> /\ module' = "out"
        /\ leaked' = leaked \cup held /\ held' = {} /\ ptr' = [r \in Things |-> "null"]
        /\ UNCHANGED <<part, step, drop>>
    BY <1>6 DEF Gone
  <2>2. Len(drop) = 0 /\ 1 .. 0 = {}
    BY <2>1
  <2>3. \A r \in Things : ptr[r] # "held"
    BY <2>1, <2>2 DEF IInv, Going
  <2>4. held = {}
    BY <1>2, <2>3 DEF Types
  <2>5. leaked' = {} /\ fault' = FALSE
    BY <1>1, <2>1, <2>4 DEF IInv
  <2>6. Types'
    BY <1>1, <1>2, <2>1 DEF Types
  <2>7. Away' /\ Ordered' /\ Coming' /\ Going' /\ AllBehind'
    BY <2>1, <2>2 DEF Away, Ordered, Coming, Going, AllBehind, Fronts
  <2> QED
    BY <2>5, <2>6, <2>7 DEF IInv
<1> QED
  BY <1>3, <1>4, <1>5, <1>6

\* No module is loaded at first.
LEMMA InitIInv == Init /\ AllSound => IInv
<1> SUFFICES ASSUME Init, AllSound PROVE IInv
  OBVIOUS
<1>1. /\ conf \in Configs /\ module = "out" /\ ptr = [r \in Things |-> "null"]
      /\ held = {} /\ part = 1 /\ step = 1 /\ drop = << >> /\ fault = FALSE /\ leaked = {}
  BY DEF Init
<1>2. Typing(conf) /\ Parts = InitC(conf) /\ Len(Parts) \in Nat
  <2>1. Typing(conf)
    BY <1>1 DEF AllSound, Sound
  <2>2. Parts = InitC(conf)
    BY DEF Parts, InitC
  <2>3. InitC(conf) \in Seq(Seq(Steps))
    BY <2>1 DEF Typing
  <2> QED
    BY <2>1, <2>2, <2>3
<1>3. 1 =< Len(Parts) => 1 \in 1 .. Len(Parts[1])
  BY <1>2, PlaceIs
<1>4. Types
  BY <1>1, <1>2, <1>3 DEF Types
<1>5. Coming /\ Going /\ Away /\ Ordered /\ AllBehind
  BY <1>1 DEF Coming, Going, Away, Ordered, AllBehind, Fronts
<1> QED
  BY <1>1, <1>4, <1>5 DEF IInv

\* No number is taken for a failure, and no exit ends in an oops.
LEMMA NoMistakes ==
    ASSUME IInv, Sound(conf), SureOfItself(conf)
    PROVE  ~TakenForFailure /\ ~Oops /\ ~Refused
<1>1. ~TakenForFailure
  BY DEF SureOfItself, TakenForFailure
<1>2. ~Refused
  BY DEF IInv, Types, Refused
<1>3. ~Oops
  <2> SUFFICES ASSUME module = "live", NEW r \in ExitUses(conf.driver) PROVE ptr[r] = "held"
    BY DEF Oops
  <2>1. InitC(conf) = Parts /\ Len(InitC(conf)) \in Nat
    BY DEF Sound, Typing, InitC, Parts
  <2>2. part = Len(InitC(conf)) + 1 /\ step = 1
    BY <2>1 DEF IInv, Coming, Types
  <2>3. r \in Things /\ SureBefore(conf, part, step, r)
    BY <2>2 DEF SureOfItself
  <2> QED
    BY <2>3 DEF IInv, Coming
<1> QED
  BY <1>1, <1>2, <1>3

\* The invariant, step by step.
LEMMA NextIInv == ASSUME AllSound, IInv, [Next]_vars PROVE IInv'
<1>1. Sound(conf) /\ SureOfItself(conf)
  BY DEF AllSound, IInv, Types
<1>2. CASE Next
  BY <1>1, <1>2, AcquireStep, FailStep, ReleaseStep, KernelStep, NoMistakes DEF Next
<1>3. CASE UNCHANGED vars
  <2>1. Parts' = Parts
    BY <1>3 DEF Parts, vars
  <2>2. UNCHANGED <<conf, module, ptr, held, part, step, drop, fault, leaked>>
    BY <1>3 DEF vars
  <2>3. Types' /\ AllBehind' /\ fault' = FALSE /\ leaked' = {}
    BY <2>1, <2>2 DEF IInv, Types, AllBehind, Fronts
  <2>4. Coming'
    BY <2>1, <2>2, Zenon DEF IInv, Coming
  <2>5. Going' /\ Away' /\ Ordered'
    BY <2>2 DEF IInv, Going, Away, Ordered
  <2> QED
    BY <2>3, <2>4, <2>5 DEF IInv
<1> QED
  BY <1>2, <1>3

\* The inductive invariant, for modules whose lists fit: what is left to be released
\* is what is held, in an order that is safe, wherever init failed.
THEOREM SoundInvariance == ASSUME AllSound PROVE Spec => []IInv
<1>1. Init => IInv
  BY InitIInv
<1>2. IInv /\ [Next]_vars => IInv'
  BY NextIInv
<1> QED
  BY <1>1, <1>2, PTL DEF Spec

-----------------------------------------------------------------------------
\* The lists of the repository fit.

\* Things are told apart by their kind and number.
LEMMA ThingsAre ==
    /\ \A k \in Kinds : One(k) \in Things
    /\ \A k \in Kinds, i \in 0 .. N : Of(k, i) \in Things
    /\ \A k, h, i, j : Of(k, i) = Of(h, j) <=> k = h /\ i = j
    /\ \A k, h, i : /\ Of(k, i) = One(h) <=> k = h /\ i = 0
                    /\ One(h) = Of(k, i) <=> k = h /\ i = 0
    /\ \A k, h : One(k) = One(h) <=> k = h
    /\ \A k, i : Of(k, i)[1] = k /\ Of(k, i)[2] = i
    /\ \A k : One(k)[1] = k /\ One(k)[2] = 0
BY LifeAssumption DEF One, Of, Things

\* What a step is for, and what it gives back.
LEMMA StepsAre ==
    \A r, u : /\ Get(r, u).get = r /\ Get(r, u).undo = u /\ Get(r, u).vital
              /\ Try(r, u).get = r /\ Try(r, u).undo = u /\ ~Try(r, u).vital
              /\ r \in Things /\ u \in Seq(Releases) =>
                    Get(r, u) \in Steps /\ Try(r, u) \in Steps
BY DEF Get, Try, Steps

\* What a release is of.
LEMMA ReleasesAre ==
    \A r : /\ Free(r).of = r /\ ~Free(r).guarded
           /\ FreeIf(r).of = r /\ FreeIf(r).guarded
           /\ Clear(r).of = r /\ Clear(r).guarded /\ Clear(r).clears
           /\ r \in Things =>
                 Free(r) \in Releases /\ FreeIf(r) \in Releases /\ Clear(r) \in Releases
BY DEF Free, FreeIf, Clear, Releases

\* Lists that are written out.
LEMMA ShortLists ==
    /\ \A x : Len(<<x>>) = 1 /\ <<x>>[1] = x
    /\ \A x, y : Len(<<x, y>>) = 2 /\ <<x, y>>[1] = x /\ <<x, y>>[2] = y
    /\ \A x, y, z : /\ Len(<<x, y, z>>) = 3 /\ <<x, y, z>>[1] = x
                    /\ <<x, y, z>>[2] = y /\ <<x, y, z>>[3] = z
OBVIOUS

\* One list after another.
LEMMA JoinIs ==
    ASSUME NEW f \in Seq(Releases), NEW g \in Seq(Releases)
    PROVE  /\ f \o g \in Seq(Releases) /\ Len(f \o g) = Len(f) + Len(g)
           /\ \A j \in 1 .. Len(f) : (f \o g)[j] = f[j]
           /\ \A j \in 1 .. Len(g) : (f \o g)[Len(f) + j] = g[j]
OBVIOUS

\* The same of steps.
LEMMA JoinStepsIs ==
    ASSUME NEW f \in Seq(Steps), NEW g \in Seq(Steps)
    PROVE  /\ f \o g \in Seq(Steps) /\ Len(f \o g) = Len(f) + Len(g)
           /\ \A j \in 1 .. Len(f) : (f \o g)[j] = f[j]
           /\ \A j \in 1 .. Len(g) : (f \o g)[Len(f) + j] = g[j]
OBVIOUS

\* blk_init and blk_exit of xd, place by place.
LEMMA XdLists ==
    ASSUME NEW c, c.driver = "xd"
    PROVE  /\ Len(InitC(c)) = N + 1 /\ InitC(c) = XdInit /\ ExitC(c) = XdExit
           /\ InitC(c)[1] = << Get(One("major"), << >>),
                               Get(One("array"), <<Free(One("major"))>>) >>
           /\ \A k \in 2 .. N + 1 : InitC(c)[k] = XdDevice(k - 1)
           /\ Len(ExitC(c)) = 3 * N + 2 /\ ExitC(c) \in Seq(Releases)
           /\ \A i \in 1 .. N : /\ ExitC(c)[3 * i - 2] = FreeIf(Of("disk", i))
                                /\ ExitC(c)[3 * i - 1] = FreeIf(Of("queue", i))
                                /\ ExitC(c)[3 * i] = FreeIf(Of("data", i))
           /\ ExitC(c)[3 * N + 1] = Free(One("major"))
           /\ ExitC(c)[3 * N + 2] = Free(One("array"))
<1> N \in Nat \ {0}
  BY LifeAssumption
<1>1. InitC(c) = XdInit /\ ExitC(c) = XdExit
  BY DEF InitC, ExitC, InitOf, ExitOf
<1>2. /\ Len(XdInit) = N + 1
      /\ XdInit[1] = << Get(One("major"), << >>), Get(One("array"), <<Free(One("major"))>>) >>
      /\ \A k \in 2 .. N + 1 : XdInit[k] = XdDevice(k - 1)
  <2> DEFINE first == << Get(One("major"), << >>), Get(One("array"), <<Free(One("major"))>>) >>
  <2>1. XdInit = [k \in 1 .. N + 1 |-> IF k = 1 THEN first ELSE XdDevice(k - 1)]
    BY DEF XdInit, Devices
  <2> HIDE DEF first
  <2>2. /\ Len(XdInit) = N + 1 /\ XdInit[1] = first
        /\ \A k \in 2 .. N + 1 : XdInit[k] = XdDevice(k - 1)
    BY <2>1
  <2> QED
    BY <2>2 DEF first
<1> DEFINE D == ForDevices(3, XdReleases)  e == <<Free(One("major")), Free(One("array"))>>
<1>3. D = [j \in 1 .. 3 * N |-> XdReleases(((j - 1) \div 3) + 1)[((j - 1) % 3) + 1]]
  BY DEF ForDevices
<1>4. \A i \in 1 .. N : /\ D[3 * i - 2] = XdReleases(i)[1]
                        /\ D[3 * i - 1] = XdReleases(i)[2]
                        /\ D[3 * i] = XdReleases(i)[3]
  <2> SUFFICES ASSUME NEW i \in 1 .. N
               PROVE  /\ D[3 * i - 2] = XdReleases(i)[1]
                      /\ D[3 * i - 1] = XdReleases(i)[2]
                      /\ D[3 * i] = XdReleases(i)[3]
    OBVIOUS
  <2>1. /\ 3 * i - 2 \in 1 .. 3 * N /\ 3 * i - 1 \in 1 .. 3 * N /\ 3 * i \in 1 .. 3 * N
        /\ ((3 * i - 2) - 1) \div 3 = i - 1 /\ ((3 * i - 2) - 1) % 3 = 0
        /\ ((3 * i - 1) - 1) \div 3 = i - 1 /\ ((3 * i - 1) - 1) % 3 = 1
        /\ (3 * i - 1) \div 3 = i - 1 /\ (3 * i - 1) % 3 = 2
        /\ (i - 1) + 1 = i /\ 0 + 1 = 1 /\ 1 + 1 = 2 /\ 2 + 1 = 3
    OBVIOUS
  <2> HIDE DEF D
  <2> QED
    BY <1>3, <2>1
<1>5. \A i \in 1 .. N : /\ XdReleases(i)[1] = FreeIf(Of("disk", i))
                        /\ XdReleases(i)[2] = FreeIf(Of("queue", i))
                        /\ XdReleases(i)[3] = FreeIf(Of("data", i))
  BY DEF XdReleases
<1>6. /\ Len(D \o e) = 3 * N + 2 /\ D \o e \in Seq(Releases)
      /\ \A j \in 1 .. 3 * N : (D \o e)[j] = D[j]
      /\ (D \o e)[3 * N + 1] = e[1] /\ (D \o e)[3 * N + 2] = e[2]
  <2>1. D \in Seq(Releases) /\ Len(D) = 3 * N
    <3>1. \A i \in 1 .. N : \A h \in 1 .. 3 : XdReleases(i)[h] \in Releases
      <4>1. \A i \in 1 .. N : /\ Of("disk", i) \in Things /\ Of("queue", i) \in Things
                              /\ Of("data", i) \in Things
        BY ThingsAre DEF Kinds
      <4> QED
        BY <1>5, <4>1, ReleasesAre
    <3>2. \A j \in 1 .. 3 * N : ((j - 1) \div 3) + 1 \in 1 .. N /\ ((j - 1) % 3) + 1 \in 1 .. 3
      OBVIOUS
    <3>3. 3 * N \in Nat
      OBVIOUS
    <3> DEFINE m == 3 * N
    <3>4. ASSUME NEW x \in Nat, D \in [1 .. x -> Releases] PROVE D \in Seq(Releases) /\ Len(D) = x
      <4> HIDE DEF D
      <4> QED
        BY <3>4
    <3>5. D \in [1 .. m -> Releases]
      BY <1>3, <3>1, <3>2
    <3> HIDE DEF D, m
    <3>6. D \in Seq(Releases) /\ Len(D) = m
      BY <3>3, <3>4, <3>5 DEF m
    <3> QED
      BY <3>6 DEF m
  <2>2. e \in Seq(Releases) /\ Len(e) = 2
    BY ThingsAre, ReleasesAre DEF Kinds
  <2> DEFINE m == 3 * N
  <2>3. m \in Nat /\ Len(D) = m
    BY <2>1
  <2> HIDE DEF D, e, m
  <2>4. /\ D \o e \in Seq(Releases) /\ Len(D \o e) = Len(D) + Len(e)
        /\ \A j \in 1 .. Len(D) : (D \o e)[j] = D[j]
        /\ \A j \in 1 .. Len(e) : (D \o e)[Len(D) + j] = e[j]
    BY <2>1, <2>2, JoinIs
  <2>5. /\ D \o e \in Seq(Releases) /\ Len(D \o e) = m + 2
        /\ \A j \in 1 .. m : (D \o e)[j] = D[j]
        /\ (D \o e)[m + 1] = e[1] /\ (D \o e)[m + 2] = e[2]
    BY <2>2, <2>3, <2>4
  <2> QED
    BY <2>5 DEF m
<1>7. XdExit = D \o e
  BY DEF XdExit
<1>8. \A i \in 1 .. N : 3 * i - 2 \in 1 .. 3 * N /\ 3 * i - 1 \in 1 .. 3 * N /\ 3 * i \in 1 .. 3 * N
  OBVIOUS
<1>9. e[1] = Free(One("major")) /\ e[2] = Free(One("array"))
  OBVIOUS
<1> HIDE DEF D, e
<1>10. ASSUME NEW i \in 1 .. N
       PROVE  /\ ExitC(c)[3 * i - 2] = FreeIf(Of("disk", i))
              /\ ExitC(c)[3 * i - 1] = FreeIf(Of("queue", i))
              /\ ExitC(c)[3 * i] = FreeIf(Of("data", i))
  <2>1. /\ ExitC(c)[3 * i - 2] = D[3 * i - 2] /\ ExitC(c)[3 * i - 1] = D[3 * i - 1]
        /\ ExitC(c)[3 * i] = D[3 * i]
    BY <1>1, <1>6, <1>7, <1>8, Zenon
  <2> QED
    BY <1>4, <1>5, <2>1, Zenon
<1>11. /\ Len(ExitC(c)) = 3 * N + 2 /\ ExitC(c) \in Seq(Releases)
       /\ ExitC(c)[3 * N + 1] = Free(One("major"))
       /\ ExitC(c)[3 * N + 2] = Free(One("array"))
  BY <1>1, <1>6, <1>7, <1>9, Zenon
<1> QED
  BY <1>1, <1>2, <1>10, <1>11, Zenon

\* The steps of blk_init and the releases of blk_exit, one kind after the other.
LEMMA XdPlaces ==
    ASSUME NEW c, c.driver = "xd"
    PROVE  /\ \A a \in 1 .. Len(InitC(c)) : \A b \in 1 .. Len(InitC(c)[a]) :
                 \/ a = 1 /\ b = 1 /\ InitC(c)[a][b] = Get(One("major"), << >>)
                 \/ a = 1 /\ b = 2 /\ InitC(c)[a][b] = Get(One("array"), <<Free(One("major"))>>)
                 \/ a \in 2 .. N + 1 /\ b = 1 /\ InitC(c)[a][b] = Try(Of("data", a - 1), << >>)
                 \/ a \in 2 .. N + 1 /\ b = 2
                       /\ InitC(c)[a][b] = Try(Of("queue", a - 1), <<FreeIf(Of("data", a - 1))>>)
                 \/ a \in 2 .. N + 1 /\ b = 3
                       /\ InitC(c)[a][b] = Try(Of("disk", a - 1), <<FreeIf(Of("data", a - 1))>>)
           /\ \A j \in 1 .. Len(ExitC(c)) :
                 \/ \E i \in 1 .. N :
                       \/ j = 3 * i - 2 /\ ExitC(c)[j] = FreeIf(Of("disk", i))
                       \/ j = 3 * i - 1 /\ ExitC(c)[j] = FreeIf(Of("queue", i))
                       \/ j = 3 * i /\ ExitC(c)[j] = FreeIf(Of("data", i))
                 \/ j = 3 * N + 1 /\ ExitC(c)[j] = Free(One("major"))
                 \/ j = 3 * N + 2 /\ ExitC(c)[j] = Free(One("array"))
<1> N \in Nat \ {0}
  BY LifeAssumption
<1>1. ASSUME NEW a \in 1 .. Len(InitC(c)), NEW b \in 1 .. Len(InitC(c)[a])
      PROVE  \/ a = 1 /\ b = 1 /\ InitC(c)[a][b] = Get(One("major"), << >>)
             \/ a = 1 /\ b = 2 /\ InitC(c)[a][b] = Get(One("array"), <<Free(One("major"))>>)
             \/ a \in 2 .. N + 1 /\ b = 1 /\ InitC(c)[a][b] = Try(Of("data", a - 1), << >>)
             \/ a \in 2 .. N + 1 /\ b = 2
                   /\ InitC(c)[a][b] = Try(Of("queue", a - 1), <<FreeIf(Of("data", a - 1))>>)
             \/ a \in 2 .. N + 1 /\ b = 3
                   /\ InitC(c)[a][b] = Try(Of("disk", a - 1), <<FreeIf(Of("data", a - 1))>>)
  <2>1. CASE a = 1
    <3> DEFINE x == Get(One("major"), << >>)  y == Get(One("array"), <<Free(One("major"))>>)
    <3>1. InitC(c)[a] = <<x, y>>
      BY <2>1, XdLists
    <3> HIDE DEF x, y
    <3>2. \/ b = 1 /\ InitC(c)[a][b] = x
          \/ b = 2 /\ InitC(c)[a][b] = y
      BY <3>1
    <3> QED
      BY <2>1, <3>2 DEF x, y
  <2>2. CASE a # 1
    <3>1. a \in 2 .. N + 1
      BY <2>2, XdLists
    <3> DEFINE x == Try(Of("data", a - 1), << >>)
               y == Try(Of("queue", a - 1), <<FreeIf(Of("data", a - 1))>>)
               z == Try(Of("disk", a - 1), <<FreeIf(Of("data", a - 1))>>)
    <3>2. InitC(c)[a] = <<x, y, z>>
      BY <3>1, XdLists DEF XdDevice
    <3> HIDE DEF x, y, z
    <3>3. \/ b = 1 /\ InitC(c)[a][b] = x
          \/ b = 2 /\ InitC(c)[a][b] = y
          \/ b = 3 /\ InitC(c)[a][b] = z
      BY <3>2
    <3> QED
      BY <3>1, <3>3 DEF x, y, z
  <2> QED
    BY <2>1, <2>2
<1>2. ASSUME NEW j \in 1 .. Len(ExitC(c))
      PROVE  \/ \E i \in 1 .. N :
                   \/ j = 3 * i - 2 /\ ExitC(c)[j] = FreeIf(Of("disk", i))
                   \/ j = 3 * i - 1 /\ ExitC(c)[j] = FreeIf(Of("queue", i))
                   \/ j = 3 * i /\ ExitC(c)[j] = FreeIf(Of("data", i))
             \/ j = 3 * N + 1 /\ ExitC(c)[j] = Free(One("major"))
             \/ j = 3 * N + 2 /\ ExitC(c)[j] = Free(One("array"))
  <2>1. j \in 1 .. 3 * N + 2
    BY XdLists
  <2>2. CASE j =< 3 * N
    <3>1. ((j - 1) \div 3) + 1 \in 1 .. N
      BY <2>1, <2>2
    <3> DEFINE i == ((j - 1) \div 3) + 1
    <3>2. i \in 1 .. N /\ (j = 3 * i - 2 \/ j = 3 * i - 1 \/ j = 3 * i)
      BY <2>1, <2>2, <3>1
    <3> HIDE DEF i
    <3> QED
      BY <3>2, XdLists
  <2>3. CASE j > 3 * N
    <3>1. j = 3 * N + 1 \/ j = 3 * N + 2
      BY <2>1, <2>3
    <3> QED
      BY <3>1, XdLists
  <2> QED
    BY <2>1, <2>2, <2>3
<1> QED
  BY <1>1, <1>2

\* xd fits, when major numbers and memory run out.
LEMMA XdSound ==
    ASSUME NEW c, c.driver = "xd", c.fails \subseteq Provided["xd"]
    PROVE  Sound(c)
<1> DEFINE P == InitC(c)  E == ExitC(c)  m == One("major")  v == One("array")
           dt(i) == Of("data", i)  qu(i) == Of("queue", i)  ds(i) == Of("disk", i)
<1>1. N \in Nat \ {0} /\ c.fails \subseteq {"major", "array", "data"}
  BY LifeAssumption DEF Provided
<1>2. /\ m \in Things /\ v \in Things
      /\ \A i \in 1 .. N : dt(i) \in Things /\ qu(i) \in Things /\ ds(i) \in Things
  BY <1>1, ThingsAre DEF Kinds
<1>3. /\ Len(P) = N + 1 /\ Len(P[1]) = 2 /\ \A k \in 2 .. N + 1 : Len(P[k]) = 3
  <2>1. Len(P) = N + 1
    BY XdLists
  <2>2. Len(P[1]) = 2
    <3> DEFINE x == Get(m, << >>)  y == Get(v, <<Free(m)>>)
    <3>1. P[1] = <<x, y>>
      BY XdLists
    <3> HIDE DEF x, y
    <3> QED
      BY <3>1
  <2>3. ASSUME NEW k \in 2 .. N + 1 PROVE Len(P[k]) = 3
    <3>1. P[k] = XdDevice(k - 1)
      BY XdLists
    <3>2. Len(XdDevice(k - 1)) = 3
      BY ShortLists, Zenon DEF XdDevice
    <3> QED
      BY <3>1, <3>2
  <2> QED
    BY <2>1, <2>2, <2>3
<1>4. ASSUME NEW a \in 1 .. Len(P), NEW b \in 1 .. Len(P[a])
      PROVE  \/ /\ a = 1 /\ b = 1 /\ P[a][b].get = m /\ P[a][b].vital
                /\ P[a][b].undo = << >>
             \/ /\ a = 1 /\ b = 2 /\ P[a][b].get = v /\ P[a][b].vital
                /\ P[a][b].undo = <<Free(m)>>
             \/ /\ a \in 2 .. N + 1 /\ b = 1 /\ P[a][b].get = dt(a - 1) /\ ~P[a][b].vital
                /\ P[a][b].undo = << >>
             \/ /\ a \in 2 .. N + 1 /\ b = 2 /\ P[a][b].get = qu(a - 1) /\ ~P[a][b].vital
                /\ ~CanFail(c, P[a][b])
             \/ /\ a \in 2 .. N + 1 /\ b = 3 /\ P[a][b].get = ds(a - 1) /\ ~P[a][b].vital
                /\ ~CanFail(c, P[a][b])
  <2>1. CASE a = 1 /\ b = 1 /\ P[a][b] = Get(m, << >>)
    BY <2>1, StepsAre
  <2>2. CASE a = 1 /\ b = 2 /\ P[a][b] = Get(v, <<Free(m)>>)
    BY <2>2, StepsAre
  <2>3. CASE a \in 2 .. N + 1 /\ b = 1 /\ P[a][b] = Try(dt(a - 1), << >>)
    BY <2>3, StepsAre
  <2>4. CASE a \in 2 .. N + 1 /\ b = 2 /\ P[a][b] = Try(qu(a - 1), <<FreeIf(dt(a - 1))>>)
    <3>1. P[a][b].get = qu(a - 1) /\ ~P[a][b].vital
      BY <2>4, StepsAre
    <3> QED
      BY <1>1, <2>4, <3>1, ThingsAre, SMTT(30) DEF CanFail
  <2>5. CASE a \in 2 .. N + 1 /\ b = 3 /\ P[a][b] = Try(ds(a - 1), <<FreeIf(dt(a - 1))>>)
    <3>1. P[a][b].get = ds(a - 1) /\ ~P[a][b].vital
      BY <2>5, StepsAre
    <3> QED
      BY <1>1, <2>5, <3>1, ThingsAre DEF CanFail
  <2> QED
    BY <2>1, <2>2, <2>3, <2>4, <2>5, XdPlaces
<1>5. /\ Len(E) = 3 * N + 2 /\ E \in Seq(Releases)
      /\ \A j \in 1 .. Len(E) :
            \/ \E i \in 1 .. N : \/ j = 3 * i - 2 /\ E[j].of = ds(i) /\ E[j].guarded
                                 \/ j = 3 * i - 1 /\ E[j].of = qu(i) /\ E[j].guarded
                                 \/ j = 3 * i /\ E[j].of = dt(i) /\ E[j].guarded
            \/ j = 3 * N + 1 /\ E[j].of = m
            \/ j = 3 * N + 2 /\ E[j].of = v
      /\ \A i \in 1 .. N : E[3 * i - 2].of = ds(i) /\ E[3 * i - 1].of = qu(i) /\ E[3 * i].of = dt(i)
      /\ E[3 * N + 1].of = m /\ E[3 * N + 2].of = v
  <2>1. ASSUME NEW j \in 1 .. Len(E)
        PROVE  \/ \E i \in 1 .. N : \/ j = 3 * i - 2 /\ E[j].of = ds(i) /\ E[j].guarded
                                    \/ j = 3 * i - 1 /\ E[j].of = qu(i) /\ E[j].guarded
                                    \/ j = 3 * i /\ E[j].of = dt(i) /\ E[j].guarded
               \/ j = 3 * N + 1 /\ E[j].of = m
               \/ j = 3 * N + 2 /\ E[j].of = v
    <3>1. \A i : /\ E[j] = FreeIf(ds(i)) => E[j].of = ds(i) /\ E[j].guarded
                 /\ E[j] = FreeIf(qu(i)) => E[j].of = qu(i) /\ E[j].guarded
                 /\ E[j] = FreeIf(dt(i)) => E[j].of = dt(i) /\ E[j].guarded
      BY ReleasesAre
    <3>2. (E[j] = Free(m) => E[j].of = m) /\ (E[j] = Free(v) => E[j].of = v)
      BY ReleasesAre
    <3>3. CASE \E i \in 1 .. N : \/ j = 3 * i - 2 /\ E[j] = FreeIf(ds(i))
                                 \/ j = 3 * i - 1 /\ E[j] = FreeIf(qu(i))
                                 \/ j = 3 * i /\ E[j] = FreeIf(dt(i))
      <4>1. PICK i \in 1 .. N : \/ j = 3 * i - 2 /\ E[j] = FreeIf(ds(i))
                                \/ j = 3 * i - 1 /\ E[j] = FreeIf(qu(i))
                                \/ j = 3 * i /\ E[j] = FreeIf(dt(i))
        BY <3>3
      <4> HIDE DEF E
      <4> QED
        BY <3>1, <4>1
    <3>4. CASE \/ j = 3 * N + 1 /\ E[j] = Free(m)
               \/ j = 3 * N + 2 /\ E[j] = Free(v)
      BY <3>2, <3>4
    <3>5. \/ \E i \in 1 .. N : \/ j = 3 * i - 2 /\ E[j] = FreeIf(ds(i))
                               \/ j = 3 * i - 1 /\ E[j] = FreeIf(qu(i))
                               \/ j = 3 * i /\ E[j] = FreeIf(dt(i))
          \/ j = 3 * N + 1 /\ E[j] = Free(m)
          \/ j = 3 * N + 2 /\ E[j] = Free(v)
      BY XdPlaces
    <3> HIDE DEF E, m, v, dt, qu, ds
    <3> QED
      BY <3>3, <3>4, <3>5
  <2>2. /\ \A i \in 1 .. N : E[3 * i - 2].of = ds(i) /\ E[3 * i - 1].of = qu(i) /\ E[3 * i].of = dt(i)
        /\ E[3 * N + 1].of = m /\ E[3 * N + 2].of = v
    BY XdLists, ReleasesAre
  <2> QED
    BY <2>1, <2>2, XdLists
<1>6. /\ \A i, k : /\ dt(i) = dt(k) => i = k
                   /\ qu(i) = qu(k) => i = k
                   /\ ds(i) = ds(k) => i = k
                   /\ dt(i) # qu(k) /\ dt(i) # ds(k) /\ qu(i) # ds(k)
      /\ \A i : /\ m # dt(i) /\ m # qu(i) /\ m # ds(i)
                /\ v # dt(i) /\ v # qu(i) /\ v # ds(i)
      /\ m # v
  BY ThingsAre
<1>7. /\ \A i : Front(ds(i)) /\ ~Front(dt(i)) /\ ~Front(qu(i)) /\ ~Front(m) /\ ~Front(v)
      /\ \A i : Behind(c.driver, ds(i)) = {m, v, dt(i), qu(i)}
  BY ThingsAre DEF Front, Behind
<1>8. \A k \in 2 .. N + 1 : k - 1 \in 1 .. N
  BY <1>1
<1>9. Free(m).of = m /\ ~Free(m).guarded /\ Free(m) \in Releases
  BY <1>2, ReleasesAre
<1>10. Typing(c)
  <2>1. \A a \in 1 .. Len(P) : Len(P[a]) > 0
    <3> HIDE DEF P
    <3>1. \A a \in 1 .. Len(P) : a = 1 \/ a \in 2 .. N + 1
      BY <1>1, <1>3
    <3>2. \A a \in 1 .. Len(P) : Len(P[a]) = 2 \/ Len(P[a]) = 3
      BY <1>3, <3>1, Zenon
    <3>3. \A l : l = 2 \/ l = 3 => l > 0
      OBVIOUS
    <3> QED
      BY <3>2, <3>3, Zenon
  <2>2. P \in Seq(Seq(Steps))
    <3>1. << >> \in Seq(Releases) /\ <<Free(m)>> \in Seq(Releases)
          /\ \A i \in 1 .. N : <<FreeIf(dt(i))>> \in Seq(Releases)
      BY <1>2, ReleasesAre
    <3>2. /\ Get(m, << >>) \in Steps /\ Get(v, <<Free(m)>>) \in Steps
          /\ \A i \in 1 .. N : /\ Try(dt(i), << >>) \in Steps
                               /\ Try(qu(i), <<FreeIf(dt(i))>>) \in Steps
                               /\ Try(ds(i), <<FreeIf(dt(i))>>) \in Steps
      BY <1>2, <3>1, StepsAre
    <3>3. \A x, y, z : x \in Steps /\ y \in Steps /\ z \in Steps =>
             <<x, y>> \in Seq(Steps) /\ <<x, y, z>> \in Seq(Steps)
      OBVIOUS
    <3>4. \A a \in 1 .. Len(P) : P[a] \in Seq(Steps)
      <4>1. P[1] \in Seq(Steps)
        <5> DEFINE x == Get(m, << >>)  y == Get(v, <<Free(m)>>)
        <5>1. P[1] = <<x, y>> /\ x \in Steps /\ y \in Steps
          BY <3>2, XdLists
        <5> HIDE DEF x, y
        <5> QED
          BY <5>1
      <4>2. ASSUME NEW k \in 2 .. N + 1 PROVE P[k] \in Seq(Steps)
        <5> DEFINE x == Try(dt(k - 1), << >>)
                   y == Try(qu(k - 1), <<FreeIf(dt(k - 1))>>)
                   z == Try(ds(k - 1), <<FreeIf(dt(k - 1))>>)
        <5>1. P[k] = <<x, y, z>>
          BY XdLists DEF XdDevice
        <5>2. x \in Steps /\ y \in Steps /\ z \in Steps
          BY <1>8, <3>2
        <5> HIDE DEF x, y, z
        <5> QED
          BY <5>1, <5>2
      <4> QED
        BY <1>1, <1>3, <4>1, <4>2
    <3> QED
      BY <3>4, XdLists, SMTT(30) DEF XdInit, Devices

  <2> QED
    BY <1>5, <2>1, <2>2 DEF Typing
<1> HIDE DEF m, v, dt, qu, ds
<1>11. /\ P[1][1].get = m /\ P[1][2].get = v /\ P[1][1].vital /\ P[1][2].vital
       /\ \A k \in 2 .. N + 1 : /\ P[k][1].get = dt(k - 1) /\ P[k][2].get = qu(k - 1)
                                /\ P[k][3].get = ds(k - 1)
  <2>1. 1 \in 1 .. Len(P) /\ 1 \in 1 .. Len(P[1]) /\ 2 \in 1 .. Len(P[1])
    BY <1>1, <1>3
  <2>2. \A k \in 2 .. N + 1 : /\ k \in 1 .. Len(P) /\ 1 \in 1 .. Len(P[k])
                              /\ 2 \in 1 .. Len(P[k]) /\ 3 \in 1 .. Len(P[k])
    BY <1>1, <1>3
  <2> QED
    BY <1>4, <2>1, <2>2
<1>12. \A r : ~Dropped(c, r)
  <2> SUFFICES ASSUME NEW r, NEW a \in 1 .. Len(P), NEW b \in 1 .. Len(P[a]),
                      ~P[a][b].vital, CanFail(c, P[a][b])
               PROVE  ~\E i \in 1 .. Len(P[a][b].undo) : P[a][b].undo[i].of = r
    BY DEF Dropped
  <2>1. P[a][b].undo = << >>
    BY <1>4
  <2> QED
    BY <2>1
<1>13. /\ SureBefore(c, 1, 2, m)
       /\ \A k \in 2 .. N + 2 : \A j : SureBefore(c, k, j, m) /\ SureBefore(c, k, j, v)
  <2>1. 1 \in 1 .. Len(P) /\ 1 \in 1 .. Len(P[1]) /\ 2 \in 1 .. Len(P[1])
    BY <1>1, <1>3
  <2>2. Certain(c, 1, 1) /\ Certain(c, 1, 2)
    BY <1>11 DEF Certain
  <2>3. Earlier(1, 1, 1, 2) /\ \A k \in 2 .. N + 2 : \A j : Earlier(1, 1, k, j) /\ Earlier(1, 2, k, j)
    BY DEF Earlier
  <2> QED
    BY <1>11, <1>12, <2>1, <2>2, <2>3 DEF SureBefore
<1>14. Distinct(c)
  BY <1>4, <1>6, <1>8, SMTT(30) DEF Distinct
<1>15. FrontLast(c)
  <2> SUFFICES ASSUME NEW k \in 1 .. Len(P), NEW j \in 1 .. Len(P[k]), Front(P[k][j].get),
                      NEW r \in Behind(c.driver, P[k][j].get)
               PROVE  \/ SureBefore(c, k, j, r)
                      \/ \E i \in 1 .. j - 1 : P[k][i].get = r
    BY DEF FrontLast
  <2>1. k \in 2 .. N + 1 /\ j = 3 /\ P[k][j].get = ds(k - 1)
    BY <1>4, <1>7, SMTT(30)
  <2>2. r \in {m, v, dt(k - 1), qu(k - 1)}
    BY <1>7, <2>1
  <2>3. 1 \in 1 .. j - 1 /\ 2 \in 1 .. j - 1 /\ k \in 2 .. N + 2
    BY <1>1, <2>1
  <2> QED
    BY <1>11, <1>13, <2>1, <2>2, <2>3
<1>16. UndoFits(c)
  <2> SUFFICES ASSUME NEW k \in 1 .. Len(P), NEW j \in 1 .. Len(P[k]), CanFail(c, P[k][j])
               PROVE  IF P[k][j].vital THEN Returns(c, P[k][j].undo, k, j)
                      ELSE /\ InOrder(c, P[k][j].undo, k, j)
                           /\ \A i \in 1 .. Len(P[k][j].undo) :
                                 P[k][j].undo[i].guarded /\ P[k][j].undo[i].clears
    BY DEF UndoFits
  <2> DEFINE u == P[k][j].undo
  <2>1. CASE k = 1 /\ j = 1 /\ u = << >>
    <3>1. \A r : ~GotBefore(c, 1, 1, r)
      BY <1>3, <1>4 DEF GotBefore, Earlier
    <3>2. Len(u) = 0
      BY <2>1
    <3> QED
      BY <2>1, <3>1, <3>2, <1>11 DEF Returns, InOrder
  <2>2. CASE k = 1 /\ j = 2 /\ u = <<Free(m)>>
    <3>1. \A r : GotBefore(c, 1, 2, r) => r = m
      BY <1>4 DEF GotBefore, Earlier
    <3>2. Len(u) = 1 /\ u[1] = Free(m)
      BY <2>2
    <3>3. \A i \in 1 .. 1 : i = 1
      OBVIOUS
    <3>4. Returns(c, u, 1, 2)
      <4> HIDE DEF u
      <4> QED
        BY <1>7, <1>9, <1>13, <3>1, <3>2, <3>3 DEF Returns, InOrder
    <3> QED
      BY <2>2, <3>4, <1>11
  <2>3. CASE ~P[k][j].vital /\ u = << >>
    <3>1. Len(u) = 0
      BY <2>3
    <3> QED
      BY <2>3, <3>1 DEF InOrder
  <2> QED
    BY <1>4, <2>1, <2>2, <2>3
<1>17. Returns(c, E, Len(P) + 1, 1)
  <2>1. \A h, i \in 1 .. Len(E) : E[h].of = E[i].of => h = i
    <3>1. \A j \in 1 .. Len(E) :
             /\ \A i \in 1 .. N : /\ E[j].of = ds(i) => j = 3 * i - 2
                                  /\ E[j].of = qu(i) => j = 3 * i - 1
                                  /\ E[j].of = dt(i) => j = 3 * i
             /\ E[j].of = m => j = 3 * N + 1
             /\ E[j].of = v => j = 3 * N + 2
      BY <1>5, <1>6
    <3>2. \A j \in 1 .. Len(E) :
             \/ \E i \in 1 .. N : E[j].of = ds(i) \/ E[j].of = qu(i) \/ E[j].of = dt(i)
             \/ E[j].of = m \/ E[j].of = v
      BY <1>5
    <3> SUFFICES ASSUME NEW h \in 1 .. Len(E), NEW i \in 1 .. Len(E), E[h].of = E[i].of
                 PROVE  h = i
      OBVIOUS
    <3> HIDE DEF E
    <3>3. CASE \E k \in 1 .. N : E[h].of = ds(k) \/ E[h].of = qu(k) \/ E[h].of = dt(k)
      <4>1. PICK k \in 1 .. N : E[h].of = ds(k) \/ E[h].of = qu(k) \/ E[h].of = dt(k)
        BY <3>3
      <4>2. CASE E[h].of = ds(k)
        <5>1. h = 3 * k - 2 /\ i = 3 * k - 2
          BY <3>1, <4>2
        <5> QED
          BY <5>1
      <4>3. CASE E[h].of = qu(k)
        <5>1. h = 3 * k - 1 /\ i = 3 * k - 1
          BY <3>1, <4>3
        <5> QED
          BY <5>1
      <4>4. CASE E[h].of = dt(k)
        <5>1. h = 3 * k /\ i = 3 * k
          BY <3>1, <4>4
        <5> QED
          BY <5>1
      <4> QED
        BY <4>1, <4>2, <4>3, <4>4
    <3>4. CASE E[h].of = m \/ E[h].of = v
      <4>1. \/ h = 3 * N + 1 /\ i = 3 * N + 1
            \/ h = 3 * N + 2 /\ i = 3 * N + 2
        BY <3>1, <3>4
      <4> QED
        BY <4>1
    <3> QED
      BY <3>2, <3>3, <3>4
  <2>2. \A i \in 1 .. Len(E) : E[i].guarded \/ SureBefore(c, N + 2, 1, E[i].of)
    <3>1. \A i \in 1 .. Len(E) : E[i].guarded \/ E[i].of = m \/ E[i].of = v
      BY <1>5
    <3>2. SureBefore(c, N + 2, 1, m) /\ SureBefore(c, N + 2, 1, v)
      BY <1>1, <1>13
    <3> QED
      BY <3>1, <3>2
  <2>3. \A r : GotBefore(c, N + 2, 1, r) =>
           r = m \/ r = v \/ \E i \in 1 .. N : r = dt(i) \/ r = qu(i) \/ r = ds(i)
    BY <1>4, <1>8 DEF GotBefore
  <2>4. /\ \A i \in 1 .. N : 3 * i - 2 \in 1 .. Len(E) /\ 3 * i - 1 \in 1 .. Len(E) /\ 3 * i \in 1 .. Len(E)
        /\ 3 * N + 1 \in 1 .. Len(E) /\ 3 * N + 2 \in 1 .. Len(E)
    BY <1>1, <1>5
  <2>5. \A r : GotBefore(c, N + 2, 1, r) => \E i \in 1 .. Len(E) : E[i].of = r
    BY <1>5, <2>3, <2>4, SMTT(30)
  <2>6. InOrder(c, E, N + 2, 1)
    <3> SUFFICES ASSUME NEW j \in 1 .. Len(E), NEW r, Front(r), GotBefore(c, N + 2, 1, r),
                        E[j].of \in Behind(c.driver, r)
                 PROVE  \E h \in 1 .. j - 1 : E[h].of = r
      BY DEF InOrder
    <3>1. PICK i \in 1 .. N : r = ds(i)
      BY <1>7, <2>3
    <3>2. E[j].of \in {m, v, dt(i), qu(i)}
      BY <1>7, <3>1
    <3>3. j = 3 * i - 1 \/ j = 3 * i \/ j = 3 * N + 1 \/ j = 3 * N + 2
      BY <1>5, <1>6, <3>2
    <3>4. 3 * i - 2 \in 1 .. j - 1
      BY <1>1, <3>3
    <3> QED
      BY <1>5, <3>1, <3>4
  <2>7. Len(P) + 1 = N + 2
    BY <1>1, <1>3
  <2>8. Returns(c, E, N + 2, 1)
    BY <2>1, <2>2, <2>5, <2>6 DEF Returns
  <2> QED
    BY <2>7, <2>8
<1> QED
  BY <1>10, <1>14, <1>15, <1>16, <1>17 DEF Sound

\* sbull_init and sbull_exit, place by place.
LEMMA SbullLists ==
    ASSUME NEW c, c.driver = "sbull"
    PROVE  /\ Len(InitC(c)) = N + 1 /\ InitC(c) = SbullInit
           /\ InitC(c)[1] = <<Get(One("major"), << >>), Get(One("array"), << >>)>>
           /\ \A k \in 2 .. N + 1 : InitC(c)[k] = SbullDevice(k - 1)
           /\ Len(ExitC(c)) = 4 * N + 2 /\ ExitC(c) \in Seq(Releases)
           /\ \A i \in 1 .. N : /\ ExitC(c)[4 * i - 3] = Free(Of("timer", i))
                                /\ ExitC(c)[4 * i - 2] = FreeIf(Of("disk", i))
                                /\ ExitC(c)[4 * i - 1] = FreeIf(Of("queue", i))
                                /\ ExitC(c)[4 * i] = FreeIf(Of("data", i))
           /\ ExitC(c)[4 * N + 1] = Free(One("major"))
           /\ ExitC(c)[4 * N + 2] = Free(One("array"))
<1> N \in Nat \ {0}
  BY LifeAssumption
<1>1. InitC(c) = SbullInit /\ ExitC(c) = SbullExit
  BY DEF InitC, ExitC, InitOf, ExitOf
<1>2. /\ Len(SbullInit) = N + 1
      /\ SbullInit[1] = <<Get(One("major"), << >>), Get(One("array"), << >>)>>
      /\ \A k \in 2 .. N + 1 : SbullInit[k] = SbullDevice(k - 1)
  <2> DEFINE first == <<Get(One("major"), << >>), Get(One("array"), << >>)>>
  <2>1. SbullInit = [k \in 1 .. N + 1 |-> IF k = 1 THEN first ELSE SbullDevice(k - 1)]
    BY DEF SbullInit, Devices
  <2> HIDE DEF first
  <2>2. /\ Len(SbullInit) = N + 1 /\ SbullInit[1] = first
        /\ \A k \in 2 .. N + 1 : SbullInit[k] = SbullDevice(k - 1)
    BY <2>1
  <2> QED
    BY <2>2 DEF first
<1> DEFINE D == ForDevices(4, SbullReleases)  e == <<Free(One("major")), Free(One("array"))>>
<1>3. D = [j \in 1 .. 4 * N |-> SbullReleases(((j - 1) \div 4) + 1)[((j - 1) % 4) + 1]]
  BY DEF ForDevices
<1>4. \A i \in 1 .. N : /\ D[4 * i - 3] = SbullReleases(i)[1]
                        /\ D[4 * i - 2] = SbullReleases(i)[2]
                        /\ D[4 * i - 1] = SbullReleases(i)[3]
                        /\ D[4 * i] = SbullReleases(i)[4]
  <2> SUFFICES ASSUME NEW i \in 1 .. N
               PROVE  /\ D[4 * i - 3] = SbullReleases(i)[1]
                      /\ D[4 * i - 2] = SbullReleases(i)[2]
                      /\ D[4 * i - 1] = SbullReleases(i)[3]
                      /\ D[4 * i] = SbullReleases(i)[4]
    OBVIOUS
  <2>1. /\ 4 * i - 3 \in 1 .. 4 * N /\ 4 * i - 2 \in 1 .. 4 * N
        /\ 4 * i - 1 \in 1 .. 4 * N /\ 4 * i \in 1 .. 4 * N
    OBVIOUS
  <2>2. /\ ((4 * i - 3) - 1) \div 4 = i - 1 /\ ((4 * i - 3) - 1) % 4 = 0
        /\ ((4 * i - 2) - 1) \div 4 = i - 1 /\ ((4 * i - 2) - 1) % 4 = 1
        /\ ((4 * i - 1) - 1) \div 4 = i - 1 /\ ((4 * i - 1) - 1) % 4 = 2
        /\ (4 * i - 1) \div 4 = i - 1 /\ (4 * i - 1) % 4 = 3
    OBVIOUS
  <2>3. (i - 1) + 1 = i /\ 0 + 1 = 1 /\ 1 + 1 = 2 /\ 2 + 1 = 3 /\ 3 + 1 = 4
    OBVIOUS
  <2> HIDE DEF D
  <2> QED
    BY <1>3, <2>1, <2>2, <2>3
<1>5. \A i \in 1 .. N : /\ SbullReleases(i)[1] = Free(Of("timer", i))
                        /\ SbullReleases(i)[2] = FreeIf(Of("disk", i))
                        /\ SbullReleases(i)[3] = FreeIf(Of("queue", i))
                        /\ SbullReleases(i)[4] = FreeIf(Of("data", i))
  BY DEF SbullReleases
<1>6. /\ Len(D \o e) = 4 * N + 2 /\ D \o e \in Seq(Releases)
      /\ \A j \in 1 .. 4 * N : (D \o e)[j] = D[j]
      /\ (D \o e)[4 * N + 1] = e[1] /\ (D \o e)[4 * N + 2] = e[2]
  <2> DEFINE m == 4 * N
  <2>1. D \in Seq(Releases) /\ Len(D) = m
    <3>1. \A i \in 1 .. N : \A h \in 1 .. 4 : SbullReleases(i)[h] \in Releases
      <4>1. \A i \in 1 .. N : /\ Of("disk", i) \in Things /\ Of("queue", i) \in Things
                              /\ Of("data", i) \in Things /\ Of("timer", i) \in Things
        BY ThingsAre DEF Kinds
      <4> QED
        BY <1>5, <4>1, ReleasesAre
    <3>2. \A j \in 1 .. m : ((j - 1) \div 4) + 1 \in 1 .. N /\ ((j - 1) % 4) + 1 \in 1 .. 4
      OBVIOUS
    <3>3. m \in Nat
      OBVIOUS
    <3>4. D \in [1 .. m -> Releases]
      BY <1>3, <3>1, <3>2
    <3> HIDE DEF D, m
    <3> QED
      BY <3>3, <3>4
  <2>2. e \in Seq(Releases) /\ Len(e) = 2
    BY ThingsAre, ReleasesAre DEF Kinds
  <2>3. m \in Nat
    OBVIOUS
  <2> HIDE DEF D, e, m
  <2>4. /\ D \o e \in Seq(Releases) /\ Len(D \o e) = Len(D) + Len(e)
        /\ \A j \in 1 .. Len(D) : (D \o e)[j] = D[j]
        /\ \A j \in 1 .. Len(e) : (D \o e)[Len(D) + j] = e[j]
    BY <2>1, <2>2, JoinIs
  <2>5. /\ D \o e \in Seq(Releases) /\ Len(D \o e) = m + 2
        /\ \A j \in 1 .. m : (D \o e)[j] = D[j]
        /\ (D \o e)[m + 1] = e[1] /\ (D \o e)[m + 2] = e[2]
    BY <2>1, <2>2, <2>3, <2>4
  <2> QED
    BY <2>5 DEF m
<1>7. SbullExit = D \o e
  BY DEF SbullExit
<1>8. \A i \in 1 .. N : /\ 4 * i - 3 \in 1 .. 4 * N /\ 4 * i - 2 \in 1 .. 4 * N
                        /\ 4 * i - 1 \in 1 .. 4 * N /\ 4 * i \in 1 .. 4 * N
  OBVIOUS
<1>9. e[1] = Free(One("major")) /\ e[2] = Free(One("array"))
  OBVIOUS
<1> HIDE DEF D, e
<1>10. ASSUME NEW i \in 1 .. N
       PROVE  /\ ExitC(c)[4 * i - 3] = Free(Of("timer", i))
              /\ ExitC(c)[4 * i - 2] = FreeIf(Of("disk", i))
              /\ ExitC(c)[4 * i - 1] = FreeIf(Of("queue", i))
              /\ ExitC(c)[4 * i] = FreeIf(Of("data", i))
  <2>1. /\ ExitC(c)[4 * i - 3] = D[4 * i - 3] /\ ExitC(c)[4 * i - 2] = D[4 * i - 2]
        /\ ExitC(c)[4 * i - 1] = D[4 * i - 1] /\ ExitC(c)[4 * i] = D[4 * i]
    BY <1>1, <1>6, <1>7, <1>8, Zenon
  <2> QED
    BY <1>4, <1>5, <2>1, Zenon
<1>11. /\ Len(ExitC(c)) = 4 * N + 2 /\ ExitC(c) \in Seq(Releases)
       /\ ExitC(c)[4 * N + 1] = Free(One("major"))
       /\ ExitC(c)[4 * N + 2] = Free(One("array"))
  BY <1>1, <1>6, <1>7, <1>9
<1> QED
  BY <1>1, <1>2, <1>10, <1>11

\* The steps of sbull_init and the releases of sbull_exit, one kind after the other.
LEMMA SbullPlaces ==
    ASSUME NEW c, c.driver = "sbull"
    PROVE  /\ \A a \in 1 .. Len(InitC(c)) : \A b \in 1 .. Len(InitC(c)[a]) :
                 \/ a = 1 /\ b = 1 /\ InitC(c)[a][b] = Get(One("major"), << >>)
                 \/ a = 1 /\ b = 2 /\ InitC(c)[a][b] = Get(One("array"), << >>)
                 \/ a \in 2 .. N + 1 /\ b = 1 /\ InitC(c)[a][b] = Try(Of("data", a - 1), << >>)
                 \/ a \in 2 .. N + 1 /\ b = 2 /\ InitC(c)[a][b] = Try(Of("timer", a - 1), << >>)
                 \/ a \in 2 .. N + 1 /\ b = 3
                       /\ InitC(c)[a][b] = Try(Of("queue", a - 1), <<FreeIf(Of("data", a - 1))>>)
                 \/ a \in 2 .. N + 1 /\ b = 4
                       /\ InitC(c)[a][b] = Try(Of("disk", a - 1), <<FreeIf(Of("data", a - 1))>>)
           /\ \A j \in 1 .. Len(ExitC(c)) :
                 \/ \E i \in 1 .. N :
                       \/ j = 4 * i - 3 /\ ExitC(c)[j] = Free(Of("timer", i))
                       \/ j = 4 * i - 2 /\ ExitC(c)[j] = FreeIf(Of("disk", i))
                       \/ j = 4 * i - 1 /\ ExitC(c)[j] = FreeIf(Of("queue", i))
                       \/ j = 4 * i /\ ExitC(c)[j] = FreeIf(Of("data", i))
                 \/ j = 4 * N + 1 /\ ExitC(c)[j] = Free(One("major"))
                 \/ j = 4 * N + 2 /\ ExitC(c)[j] = Free(One("array"))
<1> N \in Nat \ {0}
  BY LifeAssumption
<1>1. ASSUME NEW a \in 1 .. Len(InitC(c)), NEW b \in 1 .. Len(InitC(c)[a])
      PROVE  \/ a = 1 /\ b = 1 /\ InitC(c)[a][b] = Get(One("major"), << >>)
             \/ a = 1 /\ b = 2 /\ InitC(c)[a][b] = Get(One("array"), << >>)
             \/ a \in 2 .. N + 1 /\ b = 1 /\ InitC(c)[a][b] = Try(Of("data", a - 1), << >>)
             \/ a \in 2 .. N + 1 /\ b = 2 /\ InitC(c)[a][b] = Try(Of("timer", a - 1), << >>)
             \/ a \in 2 .. N + 1 /\ b = 3
                   /\ InitC(c)[a][b] = Try(Of("queue", a - 1), <<FreeIf(Of("data", a - 1))>>)
             \/ a \in 2 .. N + 1 /\ b = 4
                   /\ InitC(c)[a][b] = Try(Of("disk", a - 1), <<FreeIf(Of("data", a - 1))>>)
  <2>1. CASE a = 1
    <3> DEFINE x == Get(One("major"), << >>)  y == Get(One("array"), << >>)
    <3>1. InitC(c)[a] = <<x, y>>
      BY <2>1, SbullLists
    <3> HIDE DEF x, y
    <3>2. \/ b = 1 /\ InitC(c)[a][b] = x
          \/ b = 2 /\ InitC(c)[a][b] = y
      BY <3>1
    <3> QED
      BY <2>1, <3>2 DEF x, y
  <2>2. CASE a # 1
    <3>1. a \in 2 .. N + 1
      BY <2>2, SbullLists
    <3> DEFINE w == Try(Of("data", a - 1), << >>)
               x == Try(Of("timer", a - 1), << >>)
               y == Try(Of("queue", a - 1), <<FreeIf(Of("data", a - 1))>>)
               z == Try(Of("disk", a - 1), <<FreeIf(Of("data", a - 1))>>)
    <3>2. InitC(c)[a] = <<w, x, y, z>>
      BY <3>1, SbullLists DEF SbullDevice
    <3> HIDE DEF w, x, y, z
    <3>3. \/ b = 1 /\ InitC(c)[a][b] = w
          \/ b = 2 /\ InitC(c)[a][b] = x
          \/ b = 3 /\ InitC(c)[a][b] = y
          \/ b = 4 /\ InitC(c)[a][b] = z
      BY <3>2
    <3> QED
      BY <3>1, <3>3 DEF w, x, y, z
  <2> QED
    BY <2>1, <2>2
<1>2. ASSUME NEW j \in 1 .. Len(ExitC(c))
      PROVE  \/ \E i \in 1 .. N :
                   \/ j = 4 * i - 3 /\ ExitC(c)[j] = Free(Of("timer", i))
                   \/ j = 4 * i - 2 /\ ExitC(c)[j] = FreeIf(Of("disk", i))
                   \/ j = 4 * i - 1 /\ ExitC(c)[j] = FreeIf(Of("queue", i))
                   \/ j = 4 * i /\ ExitC(c)[j] = FreeIf(Of("data", i))
             \/ j = 4 * N + 1 /\ ExitC(c)[j] = Free(One("major"))
             \/ j = 4 * N + 2 /\ ExitC(c)[j] = Free(One("array"))
  <2>1. j \in 1 .. 4 * N + 2
    BY SbullLists
  <2>2. CASE j =< 4 * N
    <3>1. ((j - 1) \div 4) + 1 \in 1 .. N
      BY <2>1, <2>2
    <3> DEFINE i == ((j - 1) \div 4) + 1
    <3>2. /\ i \in 1 .. N
          /\ j = 4 * i - 3 \/ j = 4 * i - 2 \/ j = 4 * i - 1 \/ j = 4 * i
      BY <2>1, <2>2, <3>1
    <3> HIDE DEF i
    <3> QED
      BY <3>2, SbullLists, ZenonT(60)
  <2>3. CASE j > 4 * N
    <3>1. j = 4 * N + 1 \/ j = 4 * N + 2
      BY <2>1, <2>3
    <3> QED
      BY <3>1, SbullLists
  <2> QED
    BY <2>1, <2>2, <2>3
<1> QED
  BY <1>1, <1>2

\* sbull fits, when major numbers run out.
LEMMA SbullSound ==
    ASSUME NEW c, c.driver = "sbull", c.fails \subseteq Provided["sbull"]
    PROVE  Sound(c)
<1> DEFINE P == InitC(c)  E == ExitC(c)  m == One("major")  v == One("array")
           dt(i) == Of("data", i)  tm(i) == Of("timer", i)
           qu(i) == Of("queue", i)  ds(i) == Of("disk", i)
<1>1. N \in Nat \ {0} /\ c.fails \subseteq {"major"}
  BY LifeAssumption DEF Provided
<1>2. /\ m \in Things /\ v \in Things
      /\ \A i \in 1 .. N : /\ dt(i) \in Things /\ tm(i) \in Things
                           /\ qu(i) \in Things /\ ds(i) \in Things
  BY <1>1, ThingsAre DEF Kinds
<1>3. /\ Len(P) = N + 1 /\ Len(P[1]) = 2 /\ \A k \in 2 .. N + 1 : Len(P[k]) = 4
  <2>1. Len(P) = N + 1
    BY SbullLists
  <2>2. Len(P[1]) = 2
    <3> DEFINE x == Get(m, << >>)  y == Get(v, << >>)
    <3>1. P[1] = <<x, y>>
      BY SbullLists
    <3> HIDE DEF x, y
    <3> QED
      BY <3>1
  <2>3. ASSUME NEW k \in 2 .. N + 1 PROVE Len(P[k]) = 4
    <3> DEFINE w == Try(dt(k - 1), << >>)  x == Try(tm(k - 1), << >>)
               y == Try(qu(k - 1), <<FreeIf(dt(k - 1))>>)
               z == Try(ds(k - 1), <<FreeIf(dt(k - 1))>>)
    <3>1. P[k] = <<w, x, y, z>>
      BY SbullLists DEF SbullDevice
    <3> HIDE DEF w, x, y, z
    <3> QED
      BY <3>1
  <2> QED
    BY <2>1, <2>2, <2>3
<1>4. ASSUME NEW a \in 1 .. Len(P), NEW b \in 1 .. Len(P[a])
      PROVE  \/ /\ a = 1 /\ b = 1 /\ P[a][b].get = m /\ P[a][b].vital
                /\ P[a][b].undo = << >>
             \/ /\ a = 1 /\ b = 2 /\ P[a][b].get = v /\ P[a][b].vital
                /\ ~CanFail(c, P[a][b])
             \/ /\ a \in 2 .. N + 1 /\ b = 1 /\ P[a][b].get = dt(a - 1) /\ ~P[a][b].vital
                /\ ~CanFail(c, P[a][b])
             \/ /\ a \in 2 .. N + 1 /\ b = 2 /\ P[a][b].get = tm(a - 1) /\ ~P[a][b].vital
                /\ ~CanFail(c, P[a][b])
             \/ /\ a \in 2 .. N + 1 /\ b = 3 /\ P[a][b].get = qu(a - 1) /\ ~P[a][b].vital
                /\ ~CanFail(c, P[a][b])
             \/ /\ a \in 2 .. N + 1 /\ b = 4 /\ P[a][b].get = ds(a - 1) /\ ~P[a][b].vital
                /\ ~CanFail(c, P[a][b])
  <2>0. \A k, i : k \in Kinds /\ k # "major" /\ P[a][b].get = Of(k, i) => ~CanFail(c, P[a][b])
    BY <1>1, ThingsAre DEF CanFail
  <2>1. CASE a = 1 /\ b = 1 /\ P[a][b] = Get(m, << >>)
    BY <2>1, StepsAre
  <2>2. CASE a = 1 /\ b = 2 /\ P[a][b] = Get(v, << >>)
    <3>1. P[a][b].get = v /\ P[a][b].vital
      BY <2>2, StepsAre
    <3> QED
      BY <1>1, <2>2, <3>1, ThingsAre DEF CanFail
  <2>3. CASE a \in 2 .. N + 1 /\ b = 1 /\ P[a][b] = Try(dt(a - 1), << >>)
    <3>1. P[a][b].get = dt(a - 1) /\ ~P[a][b].vital
      BY <2>3, StepsAre
    <3> QED
      BY <2>0, <2>3, <3>1 DEF Kinds
  <2>4. CASE a \in 2 .. N + 1 /\ b = 2 /\ P[a][b] = Try(tm(a - 1), << >>)
    <3>1. P[a][b].get = tm(a - 1) /\ ~P[a][b].vital
      BY <2>4, StepsAre
    <3> QED
      BY <2>0, <2>4, <3>1 DEF Kinds
  <2>5. CASE a \in 2 .. N + 1 /\ b = 3 /\ P[a][b] = Try(qu(a - 1), <<FreeIf(dt(a - 1))>>)
    <3>1. P[a][b].get = qu(a - 1) /\ ~P[a][b].vital
      BY <2>5, StepsAre
    <3> QED
      BY <2>0, <2>5, <3>1 DEF Kinds
  <2>6. CASE a \in 2 .. N + 1 /\ b = 4 /\ P[a][b] = Try(ds(a - 1), <<FreeIf(dt(a - 1))>>)
    <3>1. P[a][b].get = ds(a - 1) /\ ~P[a][b].vital
      BY <2>6, StepsAre
    <3> QED
      BY <2>0, <2>6, <3>1 DEF Kinds
  <2> QED
    BY <2>1, <2>2, <2>3, <2>4, <2>5, <2>6, SbullPlaces, SMTT(30)
<1>5. /\ Len(E) = 4 * N + 2 /\ E \in Seq(Releases)
      /\ \A j \in 1 .. Len(E) :
            \/ \E i \in 1 .. N : \/ j = 4 * i - 3 /\ E[j].of = tm(i)
                                 \/ j = 4 * i - 2 /\ E[j].of = ds(i) /\ E[j].guarded
                                 \/ j = 4 * i - 1 /\ E[j].of = qu(i) /\ E[j].guarded
                                 \/ j = 4 * i /\ E[j].of = dt(i) /\ E[j].guarded
            \/ j = 4 * N + 1 /\ E[j].of = m
            \/ j = 4 * N + 2 /\ E[j].of = v
      /\ \A i \in 1 .. N : /\ E[4 * i - 3].of = tm(i) /\ E[4 * i - 2].of = ds(i)
                           /\ E[4 * i - 1].of = qu(i) /\ E[4 * i].of = dt(i)
      /\ E[4 * N + 1].of = m /\ E[4 * N + 2].of = v
  <2>1. ASSUME NEW j \in 1 .. Len(E)
        PROVE  \/ \E i \in 1 .. N : \/ j = 4 * i - 3 /\ E[j].of = tm(i)
                                    \/ j = 4 * i - 2 /\ E[j].of = ds(i) /\ E[j].guarded
                                    \/ j = 4 * i - 1 /\ E[j].of = qu(i) /\ E[j].guarded
                                    \/ j = 4 * i /\ E[j].of = dt(i) /\ E[j].guarded
               \/ j = 4 * N + 1 /\ E[j].of = m
               \/ j = 4 * N + 2 /\ E[j].of = v
    <3>1. \A i : /\ E[j] = Free(tm(i)) => E[j].of = tm(i)
                 /\ E[j] = FreeIf(ds(i)) => E[j].of = ds(i) /\ E[j].guarded
                 /\ E[j] = FreeIf(qu(i)) => E[j].of = qu(i) /\ E[j].guarded
                 /\ E[j] = FreeIf(dt(i)) => E[j].of = dt(i) /\ E[j].guarded
      BY ReleasesAre
    <3>2. (E[j] = Free(m) => E[j].of = m) /\ (E[j] = Free(v) => E[j].of = v)
      BY ReleasesAre
    <3>3. CASE \E i \in 1 .. N : \/ j = 4 * i - 3 /\ E[j] = Free(tm(i))
                                 \/ j = 4 * i - 2 /\ E[j] = FreeIf(ds(i))
                                 \/ j = 4 * i - 1 /\ E[j] = FreeIf(qu(i))
                                 \/ j = 4 * i /\ E[j] = FreeIf(dt(i))
      <4>1. PICK i \in 1 .. N : \/ j = 4 * i - 3 /\ E[j] = Free(tm(i))
                                \/ j = 4 * i - 2 /\ E[j] = FreeIf(ds(i))
                                \/ j = 4 * i - 1 /\ E[j] = FreeIf(qu(i))
                                \/ j = 4 * i /\ E[j] = FreeIf(dt(i))
        BY <3>3
      <4> HIDE DEF E
      <4> QED
        BY <3>1, <4>1
    <3>4. CASE \/ j = 4 * N + 1 /\ E[j] = Free(m)
               \/ j = 4 * N + 2 /\ E[j] = Free(v)
      BY <3>2, <3>4
    <3>5. \/ \E i \in 1 .. N : \/ j = 4 * i - 3 /\ E[j] = Free(tm(i))
                               \/ j = 4 * i - 2 /\ E[j] = FreeIf(ds(i))
                               \/ j = 4 * i - 1 /\ E[j] = FreeIf(qu(i))
                               \/ j = 4 * i /\ E[j] = FreeIf(dt(i))
          \/ j = 4 * N + 1 /\ E[j] = Free(m)
          \/ j = 4 * N + 2 /\ E[j] = Free(v)
      BY SbullPlaces
    <3> HIDE DEF E, m, v, dt, tm, qu, ds
    <3> QED
      BY <3>3, <3>4, <3>5
  <2>2. /\ \A i \in 1 .. N : /\ E[4 * i - 3].of = tm(i) /\ E[4 * i - 2].of = ds(i)
                             /\ E[4 * i - 1].of = qu(i) /\ E[4 * i].of = dt(i)
        /\ E[4 * N + 1].of = m /\ E[4 * N + 2].of = v
    BY SbullLists, ReleasesAre, SMTT(30)
  <2> QED
    BY <2>1, <2>2, SbullLists
<1>6. /\ \A i, k : /\ dt(i) = dt(k) => i = k
                   /\ qu(i) = qu(k) => i = k
                   /\ ds(i) = ds(k) => i = k
                   /\ dt(i) # qu(k) /\ dt(i) # ds(k) /\ qu(i) # ds(k)
      /\ \A i, k : /\ tm(i) = tm(k) => i = k
                   /\ tm(i) # dt(k) /\ tm(i) # qu(k) /\ tm(i) # ds(k)
      /\ \A i : m # tm(i) /\ v # tm(i)
      /\ \A i : /\ m # dt(i) /\ m # qu(i) /\ m # ds(i)
                /\ v # dt(i) /\ v # qu(i) /\ v # ds(i)
      /\ m # v
  BY ThingsAre
<1>7. /\ \A i : Front(ds(i)) /\ ~Front(dt(i)) /\ ~Front(qu(i)) /\ ~Front(tm(i)) /\ ~Front(m) /\ ~Front(v)
      /\ \A i : Behind(c.driver, ds(i)) = {m, v, dt(i), qu(i)}
  BY ThingsAre DEF Front, Behind
<1>8. \A k \in 2 .. N + 1 : k - 1 \in 1 .. N
  BY <1>1
<1>9. Free(m).of = m /\ ~Free(m).guarded /\ Free(m) \in Releases
  BY <1>2, ReleasesAre
<1>10. Typing(c)
  <2>1. \A a \in 1 .. Len(P) : Len(P[a]) > 0
    <3> HIDE DEF P
    <3>1. \A a \in 1 .. Len(P) : a = 1 \/ a \in 2 .. N + 1
      BY <1>1, <1>3
    <3>2. \A a \in 1 .. Len(P) : Len(P[a]) = 2 \/ Len(P[a]) = 4
      BY <1>3, <3>1, Zenon
    <3>3. \A l : l = 2 \/ l = 4 => l > 0
      OBVIOUS
    <3> QED
      BY <3>2, <3>3, Zenon
  <2>2. P \in Seq(Seq(Steps))
    <3>1. /\ << >> \in Seq(Releases)
          /\ \A i \in 1 .. N : <<FreeIf(dt(i))>> \in Seq(Releases)
      BY <1>2, ReleasesAre
    <3>2. /\ Get(m, << >>) \in Steps /\ Get(v, << >>) \in Steps
          /\ \A i \in 1 .. N : /\ Try(dt(i), << >>) \in Steps /\ Try(tm(i), << >>) \in Steps
                               /\ Try(qu(i), <<FreeIf(dt(i))>>) \in Steps
                               /\ Try(ds(i), <<FreeIf(dt(i))>>) \in Steps
      BY <1>2, <3>1, StepsAre
    <3>4. \A a \in 1 .. Len(P) : P[a] \in Seq(Steps)
      <4>1. P[1] \in Seq(Steps)
        <5> DEFINE x == Get(m, << >>)  y == Get(v, << >>)
        <5>1. P[1] = <<x, y>> /\ x \in Steps /\ y \in Steps
          BY <3>2, SbullLists
        <5> HIDE DEF x, y
        <5> QED
          BY <5>1
      <4>2. ASSUME NEW k \in 2 .. N + 1 PROVE P[k] \in Seq(Steps)
        <5> DEFINE w == Try(dt(k - 1), << >>)
                   x == Try(tm(k - 1), << >>)
                   y == Try(qu(k - 1), <<FreeIf(dt(k - 1))>>)
                   z == Try(ds(k - 1), <<FreeIf(dt(k - 1))>>)
        <5>1. P[k] = <<w, x, y, z>>
          BY SbullLists DEF SbullDevice
        <5>2. w \in Steps /\ x \in Steps /\ y \in Steps /\ z \in Steps
          BY <1>8, <3>2
        <5> HIDE DEF w, x, y, z
        <5> QED
          BY <5>1, <5>2
      <4> QED
        BY <1>1, <1>3, <4>1, <4>2
    <3> QED
      BY <3>4, SbullLists, SMTT(30) DEF SbullInit, Devices

  <2> QED
    BY <1>5, <2>1, <2>2 DEF Typing
<1> HIDE DEF m, v, dt, tm, qu, ds
<1>11. /\ P[1][1].get = m /\ P[1][2].get = v /\ P[1][1].vital /\ P[1][2].vital
       /\ \A k \in 2 .. N + 1 : /\ P[k][1].get = dt(k - 1) /\ P[k][2].get = tm(k - 1)
                                /\ P[k][3].get = qu(k - 1) /\ P[k][4].get = ds(k - 1)
                                /\ ~CanFail(c, P[k][1]) /\ ~CanFail(c, P[k][2])
  <2>1. 1 \in 1 .. Len(P) /\ 1 \in 1 .. Len(P[1]) /\ 2 \in 1 .. Len(P[1])
    BY <1>1, <1>3
  <2>2. \A k \in 2 .. N + 1 : /\ k \in 1 .. Len(P) /\ 1 \in 1 .. Len(P[k])
                              /\ 2 \in 1 .. Len(P[k]) /\ 3 \in 1 .. Len(P[k])
                              /\ 4 \in 1 .. Len(P[k])
    <3>1. 1 \in 1 .. 4 /\ 2 \in 1 .. 4 /\ 3 \in 1 .. 4 /\ 4 \in 1 .. 4
      OBVIOUS
    <3>2. \A k \in 2 .. N + 1 : k \in 1 .. N + 1
      BY <1>1
    <3> HIDE DEF P
    <3> QED
      BY <1>3, <3>1, <3>2
  <2> QED
    BY <1>4, <2>1, <2>2
<1>12. \A r : ~Dropped(c, r)
  <2> SUFFICES ASSUME NEW r, NEW a \in 1 .. Len(P), NEW b \in 1 .. Len(P[a]),
                      ~P[a][b].vital, CanFail(c, P[a][b])
               PROVE  ~\E i \in 1 .. Len(P[a][b].undo) : P[a][b].undo[i].of = r
    BY DEF Dropped
  <2> QED
    BY <1>4
<1>13. /\ SureBefore(c, 1, 2, m)
       /\ \A k \in 2 .. N + 2 : \A j : SureBefore(c, k, j, m) /\ SureBefore(c, k, j, v)
       /\ \A i \in 1 .. N : SureBefore(c, N + 2, 1, tm(i))
  <2>1. 1 \in 1 .. Len(P) /\ 1 \in 1 .. Len(P[1]) /\ 2 \in 1 .. Len(P[1])
    BY <1>1, <1>3
  <2>2. Certain(c, 1, 1) /\ Certain(c, 1, 2)
    BY <1>11 DEF Certain
  <2>3. Earlier(1, 1, 1, 2) /\ \A k \in 2 .. N + 2 : \A j : Earlier(1, 1, k, j) /\ Earlier(1, 2, k, j)
    BY DEF Earlier
  <2>4. ASSUME NEW i \in 1 .. N PROVE SureBefore(c, N + 2, 1, tm(i))
    <3>0. /\ i + 1 \in 2 .. N + 1 /\ i + 1 \in 1 .. N + 1 /\ 2 \in 1 .. 4
          /\ (i + 1) - 1 = i /\ i + 1 < N + 2
      BY <1>1
    <3>1. /\ i + 1 \in 2 .. N + 1 /\ i + 1 \in 1 .. Len(P) /\ 2 \in 1 .. Len(P[i + 1])
          /\ (i + 1) - 1 = i /\ i + 1 < N + 2
      <4> HIDE DEF P
      <4> QED
        BY <1>3, <3>0
    <3>2. P[i + 1][2].get = tm(i) /\ ~CanFail(c, P[i + 1][1]) /\ ~CanFail(c, P[i + 1][2])
      BY <1>11, <3>1
    <3>3. Certain(c, i + 1, 2)
      BY <3>2 DEF Certain
    <3>4. Earlier(i + 1, 2, N + 2, 1)
      BY <3>1 DEF Earlier
    <3> QED
      BY <1>12, <3>1, <3>2, <3>3, <3>4 DEF SureBefore
  <2> QED
    BY <1>11, <1>12, <2>1, <2>2, <2>3, <2>4 DEF SureBefore
<1>14. Distinct(c)
  BY <1>4, <1>6, <1>8, SMTT(30) DEF Distinct
<1>15. FrontLast(c)
  <2> SUFFICES ASSUME NEW k \in 1 .. Len(P), NEW j \in 1 .. Len(P[k]), Front(P[k][j].get),
                      NEW r \in Behind(c.driver, P[k][j].get)
               PROVE  \/ SureBefore(c, k, j, r)
                      \/ \E i \in 1 .. j - 1 : P[k][i].get = r
    BY DEF FrontLast
  <2>1. k \in 2 .. N + 1 /\ j = 4 /\ P[k][j].get = ds(k - 1)
    BY <1>4, <1>7
  <2>2. r \in {m, v, dt(k - 1), qu(k - 1)}
    BY <1>7, <2>1
  <2>3. 1 \in 1 .. j - 1 /\ 3 \in 1 .. j - 1 /\ k \in 2 .. N + 2
    BY <1>1, <2>1
  <2> QED
    BY <1>11, <1>13, <2>1, <2>2, <2>3
<1>16. UndoFits(c)
  <2> SUFFICES ASSUME NEW k \in 1 .. Len(P), NEW j \in 1 .. Len(P[k]), CanFail(c, P[k][j])
               PROVE  IF P[k][j].vital THEN Returns(c, P[k][j].undo, k, j)
                      ELSE /\ InOrder(c, P[k][j].undo, k, j)
                           /\ \A i \in 1 .. Len(P[k][j].undo) :
                                 P[k][j].undo[i].guarded /\ P[k][j].undo[i].clears
    BY DEF UndoFits
  <2> DEFINE u == P[k][j].undo
  <2>1. CASE k = 1 /\ j = 1 /\ u = << >>
    <3>1. \A r : ~GotBefore(c, 1, 1, r)
      BY <1>3, <1>4 DEF GotBefore, Earlier
    <3>2. Len(u) = 0
      BY <2>1
    <3> QED
      BY <2>1, <3>1, <3>2, <1>11 DEF Returns, InOrder
  <2> QED
    BY <1>4, <2>1
<1>17. Returns(c, E, Len(P) + 1, 1)
  <2>1. \A h, i \in 1 .. Len(E) : E[h].of = E[i].of => h = i
    <3>1. \A j \in 1 .. Len(E) :
             /\ \A i \in 1 .. N : /\ E[j].of = tm(i) => j = 4 * i - 3
                                  /\ E[j].of = ds(i) => j = 4 * i - 2
                                  /\ E[j].of = qu(i) => j = 4 * i - 1
                                  /\ E[j].of = dt(i) => j = 4 * i
             /\ E[j].of = m => j = 4 * N + 1
             /\ E[j].of = v => j = 4 * N + 2
      BY <1>5, <1>6
    <3>2. \A j \in 1 .. Len(E) :
             \/ \E i \in 1 .. N : \/ E[j].of = tm(i) \/ E[j].of = ds(i)
                                  \/ E[j].of = qu(i) \/ E[j].of = dt(i)
             \/ E[j].of = m \/ E[j].of = v
      BY <1>5
    <3> SUFFICES ASSUME NEW h \in 1 .. Len(E), NEW i \in 1 .. Len(E), E[h].of = E[i].of
                 PROVE  h = i
      OBVIOUS
    <3> HIDE DEF E
    <3>3. CASE \E k \in 1 .. N : \/ E[h].of = tm(k) \/ E[h].of = ds(k)
                                 \/ E[h].of = qu(k) \/ E[h].of = dt(k)
      <4>1. PICK k \in 1 .. N : \/ E[h].of = tm(k) \/ E[h].of = ds(k)
                                \/ E[h].of = qu(k) \/ E[h].of = dt(k)
        BY <3>3
      <4>2. \/ h = 4 * k - 3 /\ i = 4 * k - 3
            \/ h = 4 * k - 2 /\ i = 4 * k - 2
            \/ h = 4 * k - 1 /\ i = 4 * k - 1
            \/ h = 4 * k /\ i = 4 * k
        BY <3>1, <4>1
      <4> QED
        BY <4>2
    <3>4. CASE E[h].of = m \/ E[h].of = v
      <4>1. \/ h = 4 * N + 1 /\ i = 4 * N + 1
            \/ h = 4 * N + 2 /\ i = 4 * N + 2
        BY <3>1, <3>4
      <4> QED
        BY <4>1
    <3> QED
      BY <3>2, <3>3, <3>4
  <2>2. \A i \in 1 .. Len(E) : E[i].guarded \/ SureBefore(c, N + 2, 1, E[i].of)
    <3>1. \A i \in 1 .. Len(E) : \/ E[i].guarded \/ E[i].of = m \/ E[i].of = v
                                 \/ \E k \in 1 .. N : E[i].of = tm(k)
      BY <1>5
    <3>2. SureBefore(c, N + 2, 1, m) /\ SureBefore(c, N + 2, 1, v)
      BY <1>1, <1>13
    <3> QED
      BY <1>13, <3>1, <3>2
  <2>3. \A r : GotBefore(c, N + 2, 1, r) =>
           \/ r = m \/ r = v
           \/ \E i \in 1 .. N : r = dt(i) \/ r = tm(i) \/ r = qu(i) \/ r = ds(i)
    BY <1>4, <1>8 DEF GotBefore
  <2>4. /\ \A i \in 1 .. N : /\ 4 * i - 3 \in 1 .. Len(E) /\ 4 * i - 2 \in 1 .. Len(E)
                             /\ 4 * i - 1 \in 1 .. Len(E) /\ 4 * i \in 1 .. Len(E)
        /\ 4 * N + 1 \in 1 .. Len(E) /\ 4 * N + 2 \in 1 .. Len(E)
    BY <1>1, <1>5
  <2>5. \A r : GotBefore(c, N + 2, 1, r) => \E i \in 1 .. Len(E) : E[i].of = r
    BY <1>5, <2>3, <2>4
  <2>6. InOrder(c, E, N + 2, 1)
    <3> SUFFICES ASSUME NEW j \in 1 .. Len(E), NEW r, Front(r), GotBefore(c, N + 2, 1, r),
                        E[j].of \in Behind(c.driver, r)
                 PROVE  \E h \in 1 .. j - 1 : E[h].of = r
      BY DEF InOrder
    <3>1. PICK i \in 1 .. N : r = ds(i)
      BY <1>7, <2>3
    <3>2. E[j].of \in {m, v, dt(i), qu(i)}
      BY <1>7, <3>1
    <3>3. j = 4 * i - 1 \/ j = 4 * i \/ j = 4 * N + 1 \/ j = 4 * N + 2
      BY <1>5, <1>6, <3>2, SMTT(30)
    <3>4. 4 * i - 2 \in 1 .. j - 1
      BY <1>1, <3>3
    <3> QED
      BY <1>5, <3>1, <3>4
  <2>7. Len(P) + 1 = N + 2
    BY <1>1, <1>3
  <2>8. Returns(c, E, N + 2, 1)
    BY <2>1, <2>2, <2>5, <2>6 DEF Returns
  <2> QED
    BY <2>7, <2>8
<1> QED
  BY <1>10, <1>14, <1>15, <1>16, <1>17 DEF Sound

-----------------------------------------------------------------------------
\* The modules whose init is one part, each step of which ends it when it fails.

\* The releases l give back what the steps of g before the j-th one got.
Fits(driver, g, l, j) ==
    /\ \A h, i \in 1 .. Len(l) : l[h].of = l[i].of => h = i
    /\ \A i \in 1 .. Len(l) : l[i].guarded \/ \E h \in 1 .. j - 1 : g[h].get = l[i].of
    /\ \A h \in 1 .. j - 1 : \E i \in 1 .. Len(l) : l[i].of = g[h].get
    /\ \A i \in 1 .. Len(l) : \A h \in 1 .. j - 1 :
          Front(g[h].get) /\ l[i].of \in Behind(driver, g[h].get) =>
             \E e \in 1 .. i - 1 : l[e].of = g[h].get

\* What such a module has to show.
LEMMA OnePartSound ==
    ASSUME NEW c, NEW g \in Seq(Steps), InitC(c) = <<g>>, ExitC(c) \in Seq(Releases),
           Len(g) > 0, \A j \in 1 .. Len(g) : g[j].vital,
           \A i, j \in 1 .. Len(g) : g[i].get = g[j].get => i = j,
           \A j \in 1 .. Len(g) : Front(g[j].get) =>
              \A r \in Behind(c.driver, g[j].get) : \E i \in 1 .. j - 1 : g[i].get = r,
           \A j \in 1 .. Len(g) : CanFail(c, g[j]) => Fits(c.driver, g, g[j].undo, j),
           Fits(c.driver, g, ExitC(c), Len(g) + 1)
    PROVE  Sound(c)
<1>0. ASSUME NEW l, NEW a, NEW b, NEW j, Fits(c.driver, g, l, j),
             \A r : GotBefore(c, a, b, r) <=> \E h \in 1 .. j - 1 : g[h].get = r,
             \A h \in 1 .. j - 1 : SureBefore(c, a, b, g[h].get)
      PROVE  Returns(c, l, a, b)
  <2>1. \A h, i \in 1 .. Len(l) : l[h].of = l[i].of => h = i
    BY <1>0 DEF Fits
  <2>2. \A i \in 1 .. Len(l) : l[i].guarded \/ SureBefore(c, a, b, l[i].of)
    BY <1>0 DEF Fits
  <2>3. \A r \in Things : GotBefore(c, a, b, r) => \E i \in 1 .. Len(l) : l[i].of = r
    <3> SUFFICES ASSUME NEW r, GotBefore(c, a, b, r)
                 PROVE  \E i \in 1 .. Len(l) : l[i].of = r
      OBVIOUS
    <3>1. PICK h \in 1 .. j - 1 : g[h].get = r
      BY <1>0
    <3> QED
      BY <1>0, <3>1 DEF Fits
  <2>4. InOrder(c, l, a, b)
    <3> SUFFICES ASSUME NEW i \in 1 .. Len(l), NEW r, Front(r), GotBefore(c, a, b, r),
                        l[i].of \in Behind(c.driver, r)
                 PROVE  \E h \in 1 .. i - 1 : l[h].of = r
      BY DEF InOrder
    <3>1. PICK h \in 1 .. j - 1 : g[h].get = r
      BY <1>0
    <3> QED
      BY <1>0, <3>1 DEF Fits
  <2> QED
    BY <2>1, <2>2, <2>3, <2>4 DEF Returns
<1>1. Len(InitC(c)) = 1 /\ InitC(c)[1] = g /\ Len(g) \in Nat /\ \A a \in 1 .. 1 : a = 1
  OBVIOUS
<1>2. \A r : ~Dropped(c, r)
  BY <1>1 DEF Dropped
<1>3. \A b \in 1 .. Len(g) : Certain(c, 1, b)
  BY <1>1 DEF Certain
<1>4. \A j \in 1 .. Len(g) : \A r : GotBefore(c, 1, j, r) <=> \E h \in 1 .. j - 1 : g[h].get = r
  <2> SUFFICES ASSUME NEW j \in 1 .. Len(g), NEW r
               PROVE  GotBefore(c, 1, j, r) <=> \E h \in 1 .. j - 1 : g[h].get = r
    OBVIOUS
  <2>1. \A h \in 1 .. j - 1 : h \in 1 .. Len(g) /\ h < j
    OBVIOUS
  <2>2. \A h \in 1 .. Len(g) : h < j => h \in 1 .. j - 1
    OBVIOUS
  <2> QED
    BY <1>1, <2>1, <2>2 DEF GotBefore, Earlier
<1>5. \A r : GotBefore(c, 2, 1, r) <=> \E h \in 1 .. (Len(g) + 1) - 1 : g[h].get = r
  <2>1. (Len(g) + 1) - 1 = Len(g)
    BY <1>1
  <2> QED
    BY <1>1, <2>1 DEF GotBefore, Earlier
<1>6. \A j \in 1 .. Len(g) : \A h \in 1 .. j - 1 : SureBefore(c, 1, j, g[h].get)
  <2> SUFFICES ASSUME NEW j \in 1 .. Len(g), NEW h \in 1 .. j - 1
               PROVE  SureBefore(c, 1, j, g[h].get)
    OBVIOUS
  <2>1. h \in 1 .. Len(g) /\ h < j
    OBVIOUS
  <2> QED
    BY <1>1, <1>2, <1>3, <2>1 DEF SureBefore, Earlier
<1>7. \A h \in 1 .. (Len(g) + 1) - 1 : SureBefore(c, 2, 1, g[h].get)
  <2>1. (Len(g) + 1) - 1 = Len(g)
    BY <1>1
  <2> QED
    BY <1>1, <1>2, <1>3, <2>1 DEF SureBefore, Earlier
<1>8. Typing(c)
  <2>1. <<g>> \in Seq(Seq(Steps))
    OBVIOUS
  <2> QED
    BY <1>1, <2>1 DEF Typing
<1>9. Distinct(c)
  BY <1>1 DEF Distinct
<1>10. FrontLast(c)
  <2> SUFFICES ASSUME NEW a \in 1 .. Len(InitC(c)), NEW j \in 1 .. Len(InitC(c)[a]),
                      Front(InitC(c)[a][j].get), NEW r \in Behind(c.driver, InitC(c)[a][j].get)
               PROVE  \/ SureBefore(c, a, j, r)
                      \/ \E i \in 1 .. j - 1 : InitC(c)[a][i].get = r
    BY DEF FrontLast
  <2>1. InitC(c)[a] = g
    BY <1>1
  <2>2. j \in 1 .. Len(g) /\ Front(g[j].get) /\ r \in Behind(c.driver, g[j].get)
    BY <2>1, Zenon
  <2>3. \E i \in 1 .. j - 1 : g[i].get = r
    BY <2>2, Zenon
  <2> QED
    BY <2>1, <2>3, Zenon
<1>11. UndoFits(c)
  <2> SUFFICES ASSUME NEW j \in 1 .. Len(g), CanFail(c, g[j])
               PROVE  Returns(c, g[j].undo, 1, j)
    BY <1>1 DEF UndoFits
  <2> DEFINE l == g[j].undo
  <2>1. Fits(c.driver, g, l, j)
    OBVIOUS
  <2> HIDE DEF l
  <2>2. \A r : GotBefore(c, 1, j, r) <=> \E h \in 1 .. j - 1 : g[h].get = r
    BY <1>4
  <2>3. \A h \in 1 .. j - 1 : SureBefore(c, 1, j, g[h].get)
    BY <1>6
  <2>4. Returns(c, l, 1, j)
    BY <2>1, <2>2, <2>3, <1>0
  <2> QED
    BY <2>4 DEF l
<1>12. Returns(c, ExitC(c), 2, 1)
  <2> DEFINE l == ExitC(c)  e == Len(g) + 1
  <2>1. Fits(c.driver, g, l, e)
    OBVIOUS
  <2>2. \A r : GotBefore(c, 2, 1, r) <=> \E h \in 1 .. e - 1 : g[h].get = r
    BY <1>5
  <2>3. \A h \in 1 .. e - 1 : SureBefore(c, 2, 1, g[h].get)
    BY <1>7
  <2> HIDE DEF l, e
  <2>4. Returns(c, l, 2, 1)
    BY <2>1, <2>2, <2>3, <1>0
  <2> QED
    BY <2>4 DEF l
<1> QED
  BY <1>1, <1>8, <1>9, <1>10, <1>11, <1>12 DEF Sound

\* xbc fits, and so does the original it was written after.
LEMMA XbcSound ==
    ASSUME NEW c, c.driver \in {"xbc", "lab2"}, c.fails \subseteq {"data", "queue"}
    PROVE  Sound(c)
<1> DEFINE d == One("data")  q == One("queue")  m == One("major")  k == One("disk")
           g == <<Get(d, << >>), Get(q, <<Free(d)>>), Get(m, <<Free(d)>>),
                  Get(k, <<Free(m), Free(d)>>)>>
           E == ExitC(c)
<1>1. InitC(c) = <<g>> /\ E = <<Free(k), Free(m), Free(q), Free(d)>>
  BY DEF InitC, ExitC, InitOf, ExitOf, XbcInit, XbcExit, Lab2Init, Lab2Exit
<1>2. d \in Things /\ q \in Things /\ m \in Things /\ k \in Things
  BY ThingsAre DEF Kinds
<1>3. d # q /\ d # m /\ d # k /\ q # m /\ q # k /\ m # k
  BY ThingsAre
<1>4. /\ Front(k) /\ ~Front(d) /\ ~Front(q) /\ ~Front(m)
      /\ Behind(c.driver, k) = {m, d, q}
  BY ThingsAre DEF Front, Behind
<1>5. d[1] = "data" /\ q[1] = "queue" /\ m[1] = "major" /\ k[1] = "disk"
  BY ThingsAre
<1>6. E \in Seq(Releases)
  BY <1>1, <1>2, ReleasesAre
<1>7. Len(E) = 4 /\ E[1].of = k /\ E[2].of = m /\ E[3].of = q /\ E[4].of = d
  <2> HIDE DEF d, q, m, k, E
  <2> QED
    BY <1>1, ReleasesAre
<1>8. /\ Len(g) = 4
      /\ g[1].get = d /\ g[2].get = q /\ g[3].get = m /\ g[4].get = k
      /\ g[1].vital /\ g[2].vital /\ g[3].vital /\ g[4].vital
      /\ g[1].undo = << >> /\ g[2].undo = <<Free(d)>>
  <2> HIDE DEF d, q, m, k
  <2> QED
    BY StepsAre
<1>9. g \in Seq(Steps)
  <2> HIDE DEF d, q, m, k
  <2>1. /\ << >> \in Seq(Releases) /\ <<Free(d)>> \in Seq(Releases)
        /\ <<Free(m), Free(d)>> \in Seq(Releases)
    BY <1>2, ReleasesAre
  <2> DEFINE w == Get(d, << >>)  x == Get(q, <<Free(d)>>)  y == Get(m, <<Free(d)>>)
             z == Get(k, <<Free(m), Free(d)>>)
  <2>2. w \in Steps /\ x \in Steps /\ y \in Steps /\ z \in Steps
    BY <1>2, <2>1, StepsAre
  <2>3. g = <<w, x, y, z>>
    OBVIOUS
  <2> HIDE DEF w, x, y, z, g
  <2> QED
    BY <2>2, <2>3
<1> HIDE DEF d, q, m, k, g, E
<1>10. 1 .. 4 = {1, 2, 3, 4} /\ 1 .. 3 = {1, 2, 3} /\ 1 .. 2 = {1, 2} /\ 1 .. 1 = {1} /\ 1 .. 0 = {}
  OBVIOUS
<1>11. \A i \in 1 .. Len(g) : g[i].vital
  BY <1>8, <1>10
<1>12. \A i, j \in 1 .. Len(g) : g[i].get = g[j].get => i = j
  BY <1>3, <1>8, <1>10
<1>13. ASSUME NEW j \in 1 .. Len(g), Front(g[j].get), NEW r \in Behind(c.driver, g[j].get)
       PROVE  \E i \in 1 .. j - 1 : g[i].get = r
  <2>1. j = 4
    BY <1>4, <1>8, <1>10, <1>13
  <2>2. r \in {m, d, q}
    BY <1>4, <1>8, <2>1
  <2> QED
    BY <1>8, <2>1, <2>2
<1>14. ASSUME NEW j \in 1 .. Len(g), CanFail(c, g[j]) PROVE Fits(c.driver, g, g[j].undo, j)
  <2>1. j = 1 \/ j = 2
    BY <1>5, <1>8, <1>10, <1>14 DEF CanFail
  <2>2. CASE j = 1
    <3>1. Len(g[j].undo) = 0 /\ j - 1 = 0
      BY <1>8, <2>2
    <3> QED
      BY <1>10, <3>1 DEF Fits
  <2>3. CASE j = 2
    <3> DEFINE u == <<Free(d)>>
    <3>0. g[j].undo = u /\ Len(u) = 1 /\ u[1].of = d /\ j - 1 = 1
      BY <1>8, <2>3, ReleasesAre
    <3> HIDE DEF u
    <3>1. Len(g[j].undo) = 1 /\ g[j].undo[1].of = d /\ j - 1 = 1
      BY <3>0
    <3> QED
      BY <1>4, <1>8, <1>10, <3>1 DEF Fits
  <2> QED
    BY <2>1, <2>2, <2>3
<1>15. Fits(c.driver, g, E, Len(g) + 1)
  <2>1. Len(g) + 1 - 1 = 4
    BY <1>8
  <2>2. \A h, i \in 1 .. Len(E) : E[h].of = E[i].of => h = i
    BY <1>3, <1>7, <1>10
  <2>3. \A i \in 1 .. Len(E) : E[i].guarded \/ \E h \in 1 .. 4 : g[h].get = E[i].of
    BY <1>7, <1>8, <1>10
  <2>4. \A h \in 1 .. 4 : \E i \in 1 .. Len(E) : E[i].of = g[h].get
    BY <1>7, <1>8, <1>10
  <2>5. ASSUME NEW i \in 1 .. Len(E), NEW h \in 1 .. 4, Front(g[h].get),
               E[i].of \in Behind(c.driver, g[h].get)
        PROVE  \E e \in 1 .. i - 1 : E[e].of = g[h].get
    <3>1. h = 4
      BY <1>4, <1>8, <1>10, <2>5
    <3>2. E[i].of # k
      BY <1>3, <1>4, <1>8, <2>5, <3>1
    <3>3. 1 \in 1 .. i - 1
      BY <1>7, <3>2
    <3> QED
      BY <1>7, <1>8, <3>1, <3>3
  <2> DEFINE e == Len(g) + 1
  <2>6. e - 1 = 4
    BY <2>1
  <2> HIDE DEF e
  <2>7. Fits(c.driver, g, E, e)
    BY <2>2, <2>3, <2>4, <2>5, <2>6 DEF Fits
  <2> QED
    BY <2>7 DEF e
<1>16. InitC(c) = <<g>> /\ ExitC(c) \in Seq(Releases) /\ Fits(c.driver, g, ExitC(c), Len(g) + 1)
  BY <1>1, <1>6, <1>15 DEF E
<1>17. Len(g) > 0
  BY <1>8
<1> QED
  BY <1>9, <1>11, <1>12, <1>13, <1>14, <1>16, <1>17, OnePartSound

\* procfs_rw fits, whatever cannot be had.
LEMMA RwSound ==
    ASSUME NEW c, c.driver = "rw"
    PROVE  Sound(c)
<1> DEFINE d == One("data")  p == One("dir")  k == One("file")
           u == <<Clear(k), Clear(p), Clear(d)>>
           g == <<Get(d, u), Get(p, u), Get(k, u)>>
           E == ExitC(c)
<1>1. InitC(c) = <<g>> /\ E = u
  BY DEF InitC, ExitC, InitOf, ExitOf, RwInit, RwExit
<1>2. d \in Things /\ p \in Things /\ k \in Things
  BY ThingsAre DEF Kinds
<1>3. d # p /\ d # k /\ p # k
  BY ThingsAre
<1>4. Front(k) /\ ~Front(d) /\ ~Front(p) /\ Behind(c.driver, k) = {d, p}
  BY ThingsAre DEF Front, Behind
<1>5. u \in Seq(Releases)
  BY <1>2, ReleasesAre
<1>6. /\ Len(u) = 3 /\ u[1].of = k /\ u[2].of = p /\ u[3].of = d
      /\ u[1].guarded /\ u[2].guarded /\ u[3].guarded
  <2> HIDE DEF d, p, k
  <2> QED
    BY ReleasesAre
<1> HIDE DEF u
<1>7. /\ Len(g) = 3 /\ g[1].get = d /\ g[2].get = p /\ g[3].get = k
      /\ g[1].vital /\ g[2].vital /\ g[3].vital
      /\ g[1].undo = u /\ g[2].undo = u /\ g[3].undo = u
  <2> HIDE DEF d, p, k
  <2> QED
    BY StepsAre
<1>8. g \in Seq(Steps)
  <2> DEFINE x == Get(d, u)  y == Get(p, u)  z == Get(k, u)
  <2>1. x \in Steps /\ y \in Steps /\ z \in Steps
    BY <1>2, <1>5, StepsAre
  <2>2. g = <<x, y, z>>
    OBVIOUS
  <2> HIDE DEF x, y, z, g
  <2> QED
    BY <2>1, <2>2
<1> HIDE DEF d, p, k, g, E
<1>9. 1 .. 3 = {1, 2, 3}
  OBVIOUS
<1>10. \A i \in 1 .. Len(g) : g[i].vital /\ g[i].undo = u
  BY <1>7, <1>9
<1>11. \A i, j \in 1 .. Len(g) : g[i].get = g[j].get => i = j
  BY <1>3, <1>7, <1>9
<1>12. ASSUME NEW j \in 1 .. Len(g), Front(g[j].get), NEW r \in Behind(c.driver, g[j].get)
       PROVE  \E i \in 1 .. j - 1 : g[i].get = r
  <2>1. j = 3
    BY <1>4, <1>7, <1>9, <1>12
  <2>2. r \in {d, p}
    BY <1>4, <1>7, <1>12, <2>1
  <2>3. 1 \in 1 .. j - 1 /\ 2 \in 1 .. j - 1
    BY <2>1
  <2> QED
    BY <1>7, <2>2, <2>3
<1>13. ASSUME NEW j \in 1 .. 4 PROVE Fits(c.driver, g, u, j)
  <2>1. \A h \in 1 .. j - 1 : h \in 1 .. 3
    OBVIOUS
  <2>2. \A h, i \in 1 .. Len(u) : u[h].of = u[i].of => h = i
    BY <1>3, <1>6, <1>9
  <2>3. \A i \in 1 .. Len(u) : u[i].guarded
    BY <1>6, <1>9
  <2>4. \A h \in 1 .. 3 : \E i \in 1 .. Len(u) : u[i].of = g[h].get
    BY <1>6, <1>7, <1>9
  <2>5. ASSUME NEW i \in 1 .. Len(u), NEW h \in 1 .. 3, Front(g[h].get),
               u[i].of \in Behind(c.driver, g[h].get)
        PROVE  \E e \in 1 .. i - 1 : u[e].of = g[h].get
    <3>1. h = 3
      BY <1>4, <1>7, <1>9, <2>5
    <3>2. u[i].of # k
      BY <1>3, <1>4, <1>7, <2>5, <3>1
    <3>3. 1 \in 1 .. i - 1
      BY <1>6, <3>2
    <3> QED
      BY <1>6, <1>7, <3>1, <3>3
  <2> QED
    BY <2>1, <2>2, <2>3, <2>4, <2>5 DEF Fits
<1>14. \A j \in 1 .. Len(g) : CanFail(c, g[j]) => Fits(c.driver, g, g[j].undo, j)
  <2>1. \A j \in 1 .. 3 : j \in 1 .. 4
    OBVIOUS
  <2> QED
    BY <1>7, <1>10, <1>13, <2>1
<1>15. InitC(c) = <<g>> /\ ExitC(c) \in Seq(Releases) /\ Fits(c.driver, g, ExitC(c), Len(g) + 1)
  <2>1. Len(g) + 1 = 4 /\ 4 \in 1 .. 4
    BY <1>7
  <2> QED
    BY <1>1, <1>5, <1>13, <2>1 DEF E
<1>16. Len(g) > 0
  BY <1>7
<1> QED
  BY <1>8, <1>10, <1>11, <1>12, <1>14, <1>15, <1>16, OnePartSound

\* The small procfs example fits, whatever cannot be had.
LEMMA ProctSound ==
    ASSUME NEW c, c.driver = "proct"
    PROVE  Sound(c)
<1> DEFINE p == One("dir")
           k == One("file")
           u == <<Free(p)>>
           g == <<Get(p, << >>), Get(k, u)>>
           E == ExitC(c)
<1>1. InitC(c) = <<g>> /\ E = <<Free(k), Free(p)>>
  BY DEF InitC, ExitC, InitOf, ExitOf, ProctInit, ProctExit
<1>2. p \in Things /\ k \in Things
  BY ThingsAre DEF Kinds
<1>3. p # k
  BY ThingsAre
<1>4. Front(k) /\ ~Front(p) /\ Behind(c.driver, k) = {p}
  BY ThingsAre DEF Front, Behind
<1>5. u \in Seq(Releases)
  BY <1>2, ReleasesAre
<1> HIDE DEF p, k
<1>6. E \in Seq(Releases)
  BY <1>1, <1>2, ReleasesAre
<1>7. Len(E) = 2 /\ E[1].of = k /\ E[2].of = p
  <2> HIDE DEF E
  <2> QED
    BY <1>1, ReleasesAre
<1>8. /\ Len(g) = 2 /\ g[1].get = p /\ g[2].get = k
      /\ g[1].vital /\ g[2].vital /\ g[1].undo = << >> /\ g[2].undo = u
  BY StepsAre
<1>9. g \in Seq(Steps)
  <2> DEFINE x == Get(p, << >>)  y == Get(k, u)
  <2>1. x \in Steps /\ y \in Steps
    <3>1. << >> \in Seq(Releases)
      OBVIOUS
    <3> QED
      BY <1>2, <1>5, <3>1, StepsAre
  <2>2. g = <<x, y>>
    OBVIOUS
  <2> HIDE DEF x, y, g
  <2> QED
    BY <2>1, <2>2
<1> HIDE DEF g, E
<1>10. 1 .. 2 = {1, 2} /\ 1 .. 1 = {1} /\ 1 .. 0 = {}
  OBVIOUS
<1>11. \A i \in 1 .. Len(g) : g[i].vital
  BY <1>8, <1>10
<1>12. \A i, j \in 1 .. Len(g) : g[i].get = g[j].get => i = j
  BY <1>3, <1>8, <1>10
<1>13. ASSUME NEW j \in 1 .. Len(g), Front(g[j].get), NEW r \in Behind(c.driver, g[j].get)
       PROVE  \E i \in 1 .. j - 1 : g[i].get = r
  <2>1. j = 2 /\ r = p
    BY <1>4, <1>8, <1>10, <1>13
  <2>2. 1 \in 1 .. j - 1
    BY <2>1
  <2> QED
    BY <1>8, <2>1, <2>2
<1>14. ASSUME NEW j \in 1 .. Len(g), CanFail(c, g[j]) PROVE Fits(c.driver, g, g[j].undo, j)
  <2>2. CASE j = 1
    <3>1. Len(g[j].undo) = 0 /\ j - 1 = 0
      BY <1>8, <2>2
    <3> QED
      BY <1>10, <3>1 DEF Fits
  <2>3. CASE j = 2
    <3>1. Len(u) = 1 /\ u[1].of = p /\ j - 1 = 1
      BY <2>3, ReleasesAre
    <3> HIDE DEF u
    <3>2. g[j].undo = u
      BY <1>8, <2>3
    <3>3. \A i \in 1 .. Len(u) : i = 1
      BY <3>1
    <3>4. \A h \in 1 .. j - 1 : h = 1
      BY <3>1
    <3>5. 1 \in 1 .. Len(u) /\ 1 \in 1 .. j - 1 /\ g[1].get = p
      BY <1>8, <3>1
    <3>6. Fits(c.driver, g, u, j)
      BY <1>4, <3>1, <3>3, <3>4, <3>5 DEF Fits
    <3> QED
      BY <3>2, <3>6
  <2>4. j = 1 \/ j = 2
    BY <1>8
  <2> QED
    BY <2>2, <2>3, <2>4
<1>15. Fits(c.driver, g, E, Len(g) + 1)
  <2> DEFINE e == Len(g) + 1
  <2>1. e - 1 = 2
    BY <1>8
  <2> HIDE DEF e
  <2>2. \A h, i \in 1 .. Len(E) : E[h].of = E[i].of => h = i
    BY <1>3, <1>7, <1>10
  <2>3. \A i \in 1 .. Len(E) : E[i].guarded \/ \E h \in 1 .. 2 : g[h].get = E[i].of
    BY <1>7, <1>8, <1>10
  <2>4. \A h \in 1 .. 2 : \E i \in 1 .. Len(E) : E[i].of = g[h].get
    BY <1>7, <1>8, <1>10
  <2>5. ASSUME NEW i \in 1 .. Len(E), NEW h \in 1 .. 2, Front(g[h].get),
               E[i].of \in Behind(c.driver, g[h].get)
        PROVE  \E f \in 1 .. i - 1 : E[f].of = g[h].get
    <3>1. h = 2 /\ i = 2
      BY <1>3, <1>4, <1>7, <1>8, <1>10, <2>5
    <3>2. 1 \in 1 .. i - 1
      BY <3>1
    <3> QED
      BY <1>7, <1>8, <3>1, <3>2
  <2>6. Fits(c.driver, g, E, e)
    BY <2>1, <2>2, <2>3, <2>4, <2>5, SMTT(30) DEF Fits
  <2> QED
    BY <2>6 DEF e
<1>16. InitC(c) = <<g>> /\ ExitC(c) \in Seq(Releases) /\ Fits(c.driver, g, ExitC(c), Len(g) + 1)
  BY <1>1, <1>6, <1>15 DEF E
<1>17. Len(g) > 0
  BY <1>8
<1> QED
  BY <1>9, <1>11, <1>12, <1>13, <1>14, <1>16, <1>17, OnePartSound

\* A single file of procfs fits, whether it can be had or not.
LEMMA ProcSound ==
    ASSUME NEW c, c.driver = "proc"
    PROVE  Sound(c)
<1> DEFINE k == One("file")  g == <<Get(k, << >>)>>  E == ExitC(c)
<1>1. InitC(c) = <<g>> /\ E = <<Free(k)>>
  BY DEF InitC, ExitC, InitOf, ExitOf, ProcInit, ProcExit
<1>2. k \in Things
  BY ThingsAre DEF Kinds
<1>3. Behind(c.driver, k) = {}
  BY DEF Behind
<1> HIDE DEF k
<1>4. Len(E) = 1 /\ E[1].of = k /\ E \in Seq(Releases)
  <2> HIDE DEF E
  <2> QED
    BY <1>1, <1>2, ReleasesAre
<1>5. Len(g) = 1 /\ g[1].get = k /\ g[1].vital /\ g[1].undo = << >>
  BY StepsAre
<1>6. g \in Seq(Steps)
  <2>1. << >> \in Seq(Releases)
    OBVIOUS
  <2>2. Get(k, << >>) \in Steps
    BY <1>2, <2>1, StepsAre
  <2> QED
    BY <2>2
<1> HIDE DEF g, E
<1>7. 1 .. 1 = {1} /\ 1 .. 0 = {} /\ Len(g[1].undo) = 0 /\ 1 - 1 = 0 /\ Len(g) > 0
  BY <1>5
<1>8. Fits(c.driver, g, g[1].undo, 1)
  BY <1>7 DEF Fits
<1>9. Fits(c.driver, g, E, Len(g) + 1)
  <2> DEFINE e == Len(g) + 1
  <2>1. e - 1 = 1
    BY <1>5
  <2> HIDE DEF e
  <2>2. Fits(c.driver, g, E, e)
    BY <1>3, <1>4, <1>5, <1>7, <2>1 DEF Fits
  <2> QED
    BY <2>2 DEF e
<1>10. \A j \in 1 .. Len(g) : j = 1
  BY <1>5
<1>11. \A j \in 1 .. Len(g) : g[j].vital /\ Behind(c.driver, g[j].get) = {}
  BY <1>3, <1>5, <1>10
<1>12. InitC(c) = <<g>> /\ ExitC(c) \in Seq(Releases) /\ Fits(c.driver, g, ExitC(c), Len(g) + 1)
  BY <1>1, <1>4, <1>9 DEF E
<1>13. \A j \in 1 .. Len(g) : CanFail(c, g[j]) => Fits(c.driver, g, g[j].undo, j)
  BY <1>8, <1>10
<1> QED
  BY <1>6, <1>7, <1>10, <1>11, <1>12, <1>13, OnePartSound

\* mpu6050 fits, when the i2c driver cannot be added.
LEMMA MpuSound ==
    ASSUME NEW c, c.driver = "mpu6050", c.fails \subseteq {"driver"}
    PROVE  Sound(c)
<1> DEFINE d == One("driver")  s == One("class")  fl(i) == Of("file", i)
           a == <<Get(d, << >>), Get(s, << >>)>>
           b == [i \in 1 .. 7 |-> Get(MpuFiles[i], << >>)]
           g == a \o b
           x == [i \in 1 .. 7 |-> Free(MpuFiles[i])]
           y == <<FreeIf(s), Free(d)>>
           E == x \o y
<1>1. InitC(c) = <<g>> /\ ExitC(c) = E
  BY DEF InitC, ExitC, InitOf, ExitOf, MpuInit, MpuExit
<1>2. d \in Things /\ s \in Things /\ \A i \in 1 .. 7 : fl(i) \in Things
  <2>1. \A i \in 1 .. 7 : i \in 0 .. (IF N > 7 THEN N ELSE 7)
    BY LifeAssumption
  <2> QED
    BY <2>1, ThingsAre DEF Kinds, Things, Of
<1>3. /\ d # s /\ \A i : fl(i) # d /\ fl(i) # s
      /\ \A i, j : fl(i) = fl(j) => i = j
  BY ThingsAre
<1>4. /\ ~Front(d) /\ ~Front(s) /\ \A i : Behind(c.driver, fl(i)) = {s, d}
      /\ s[1] = "class" /\ \A i : fl(i)[1] = "file"
  BY ThingsAre DEF Front, Behind
<1>5. \A i \in 1 .. 7 : b[i] = Get(fl(i), << >>) /\ x[i] = Free(fl(i))
  BY DEF MpuFiles
<1> HIDE DEF d, s, fl
<1>6. << >> \in Seq(Releases)
  OBVIOUS
<1>7. a \in Seq(Steps) /\ Len(a) = 2 /\ a[1] = Get(d, << >>) /\ a[2] = Get(s, << >>)
  <2> DEFINE v == Get(d, << >>)  w == Get(s, << >>)
  <2>1. v \in Steps /\ w \in Steps
    BY <1>2, <1>6, StepsAre
  <2> HIDE DEF v, w
  <2>2. <<v, w>> \in Seq(Steps) /\ Len(<<v, w>>) = 2 /\ <<v, w>>[1] = v /\ <<v, w>>[2] = w
    BY <2>1
  <2> QED
    BY <2>2 DEF v, w
<1>8. b \in Seq(Steps) /\ Len(b) = 7
  <2>1. \A i \in 1 .. 7 : b[i] \in Steps
    <3>1. \A i \in 1 .. 7 : Get(fl(i), << >>) \in Steps
      BY <1>2, <1>6, StepsAre
    <3> HIDE DEF b
    <3> QED
      BY <1>5, <3>1
  <2>2. b \in [1 .. 7 -> Steps] /\ 7 \in Nat
    BY <2>1
  <2> HIDE DEF b
  <2>3. ASSUME NEW k \in Nat, b \in [1 .. k -> Steps] PROVE b \in Seq(Steps) /\ Len(b) = k
    BY <2>3
  <2> QED
    BY <2>2, <2>3, Zenon
<1>9. x \in Seq(Releases) /\ Len(x) = 7
  <2>1. \A i \in 1 .. 7 : x[i] \in Releases
    <3> HIDE DEF x
    <3> QED
      BY <1>2, <1>5, ReleasesAre
  <2>2. x \in [1 .. 7 -> Releases] /\ 7 \in Nat
    BY <2>1
  <2> HIDE DEF x
  <2>3. ASSUME NEW k \in Nat, x \in [1 .. k -> Releases] PROVE x \in Seq(Releases) /\ Len(x) = k
    BY <2>3
  <2> QED
    BY <2>2, <2>3, Zenon
<1>10. y \in Seq(Releases) /\ Len(y) = 2 /\ y[1] = FreeIf(s) /\ y[2] = Free(d)
  <2> DEFINE v == FreeIf(s)  w == Free(d)
  <2>1. v \in Releases /\ w \in Releases
    BY <1>2, ReleasesAre
  <2> HIDE DEF v, w
  <2>2. <<v, w>> \in Seq(Releases) /\ Len(<<v, w>>) = 2 /\ <<v, w>>[1] = v /\ <<v, w>>[2] = w
    BY <2>1
  <2> QED
    BY <2>2 DEF v, w
<1> HIDE DEF a, b, x, y
<1>11. /\ g \in Seq(Steps) /\ Len(g) = 9 /\ g[1] = a[1] /\ g[2] = a[2]
       /\ \A i \in 1 .. 7 : g[i + 2] = b[i]
  <2>1. /\ g \in Seq(Steps) /\ Len(g) = Len(a) + Len(b)
        /\ \A j \in 1 .. Len(a) : g[j] = a[j]
        /\ \A j \in 1 .. Len(b) : g[Len(a) + j] = b[j]
    BY <1>7, <1>8, JoinStepsIs
  <2>2. 1 \in 1 .. 2 /\ 2 \in 1 .. 2 /\ \A i \in 1 .. 7 : i + 2 = 2 + i
    OBVIOUS
  <2> HIDE DEF g
  <2> QED
    BY <1>7, <1>8, <2>1, <2>2
<1>12. /\ E \in Seq(Releases) /\ Len(E) = 9 /\ \A i \in 1 .. 7 : E[i] = x[i]
       /\ E[8] = y[1] /\ E[9] = y[2]
  <2>1. /\ E \in Seq(Releases) /\ Len(E) = Len(x) + Len(y)
        /\ \A j \in 1 .. Len(x) : E[j] = x[j]
        /\ \A j \in 1 .. Len(y) : E[Len(x) + j] = y[j]
    BY <1>9, <1>10, JoinIs
  <2>2. 1 \in 1 .. 2 /\ 2 \in 1 .. 2 /\ 7 + 1 = 8 /\ 7 + 2 = 9
    OBVIOUS
  <2> HIDE DEF E
  <2> QED
    BY <1>9, <1>10, <2>1, <2>2
<1> HIDE DEF g, E
<1>13. /\ g[1].get = d /\ g[2].get = s /\ \A i \in 1 .. 7 : g[i + 2].get = fl(i)
       /\ g[1].vital /\ g[2].vital /\ \A i \in 1 .. 7 : g[i + 2].vital
       /\ g[1].undo = << >>
  BY <1>5, <1>7, <1>11, StepsAre
<1>14. /\ \A i \in 1 .. 7 : E[i].of = fl(i)
       /\ E[8].of = s /\ E[9].of = d
  BY <1>5, <1>10, <1>12, ReleasesAre
<1>15. \A j \in 1 .. 9 : j = 1 \/ j = 2 \/ \E i \in 1 .. 7 : j = i + 2
  <2> SUFFICES ASSUME NEW j \in 1 .. 9, j # 1, j # 2
               PROVE  \E i \in 1 .. 7 : j = i + 2
    OBVIOUS
  <2> WITNESS j - 2 \in 1 .. 7
  <2> QED
    OBVIOUS
<1>16. \A j \in 1 .. 9 : j = 8 \/ j = 9 \/ j \in 1 .. 7
  OBVIOUS
<1>17. \A j \in 1 .. Len(g) : g[j].vital
  BY <1>11, <1>13, <1>15
<1>18. \A i, j \in 1 .. Len(g) : g[i].get = g[j].get => i = j
  <2>1. \A j \in 1 .. 9 : /\ g[j].get = d => j = 1
                          /\ g[j].get = s => j = 2
                          /\ \A i \in 1 .. 7 : g[j].get = fl(i) => j = i + 2
    BY <1>3, <1>13, <1>15
  <2>2. \A j \in 1 .. 9 : g[j].get = d \/ g[j].get = s \/ \E i \in 1 .. 7 : g[j].get = fl(i)
    BY <1>13, <1>15
  <2> QED
    BY <1>11, <2>1, <2>2, SMTT(30)
<1>19. ASSUME NEW j \in 1 .. Len(g), Front(g[j].get), NEW r \in Behind(c.driver, g[j].get)
       PROVE  \E i \in 1 .. j - 1 : g[i].get = r
  <2>1. PICK i \in 1 .. 7 : j = i + 2
    BY <1>4, <1>11, <1>13, <1>15, <1>19
  <2>2. r \in {s, d}
    BY <1>4, <1>13, <1>19, <2>1
  <2>3. 1 \in 1 .. j - 1 /\ 2 \in 1 .. j - 1
    BY <2>1
  <2> QED
    BY <1>13, <2>2, <2>3
<1>20. ASSUME NEW j \in 1 .. Len(g), CanFail(c, g[j]) PROVE Fits(c.driver, g, g[j].undo, j)
  <2>1. j = 1
    BY <1>4, <1>11, <1>13, <1>15, <1>20 DEF CanFail
  <2>2. Len(g[j].undo) = 0 /\ j - 1 = 0 /\ 1 .. 0 = {}
    BY <1>13, <2>1
  <2> QED
    BY <2>2 DEF Fits
<1>21. Fits(c.driver, g, E, Len(g) + 1)
  <2> DEFINE e == Len(g) + 1
  <2>1. e - 1 = 9
    BY <1>11
  <2> HIDE DEF e
  <2>2. \A h, i \in 1 .. Len(E) : E[h].of = E[i].of => h = i
    <3>1. \A j \in 1 .. 9 : /\ E[j].of = s => j = 8
                            /\ E[j].of = d => j = 9
                            /\ \A i \in 1 .. 7 : E[j].of = fl(i) => j = i
      BY <1>3, <1>14, <1>16
    <3>2. \A j \in 1 .. 9 : E[j].of = s \/ E[j].of = d \/ \E i \in 1 .. 7 : E[j].of = fl(i)
      BY <1>14, <1>16
    <3> QED
      BY <1>12, <3>1, <3>2
  <2>3. \A i \in 1 .. Len(E) : E[i].guarded \/ \E h \in 1 .. 9 : g[h].get = E[i].of
    <3>1. \A i \in 1 .. 7 : i + 2 \in 1 .. 9
      OBVIOUS
    <3>2. 1 \in 1 .. 9 /\ 2 \in 1 .. 9
      OBVIOUS
    <3> QED
      BY <1>12, <1>13, <1>14, <1>16, <3>1, <3>2
  <2>4. \A h \in 1 .. 9 : \E i \in 1 .. Len(E) : E[i].of = g[h].get
    <3>1. 8 \in 1 .. 9 /\ 9 \in 1 .. 9 /\ \A i \in 1 .. 7 : i \in 1 .. 9
      OBVIOUS
    <3> QED
      BY <1>12, <1>13, <1>14, <1>15, <3>1
  <2>5. ASSUME NEW i \in 1 .. Len(E), NEW h \in 1 .. 9, Front(g[h].get),
               E[i].of \in Behind(c.driver, g[h].get)
        PROVE  \E f \in 1 .. i - 1 : E[f].of = g[h].get
    <3>1. PICK j \in 1 .. 7 : h = j + 2
      BY <1>4, <1>13, <1>15, <2>5
    <3>2. g[h].get = fl(j)
      BY <1>13, <3>1
    <3>3. E[i].of \in {s, d}
      BY <1>4, <2>5, <3>2
    <3>4. i = 8 \/ i = 9
      BY <1>3, <1>12, <1>14, <1>16, <3>3
    <3>5. j \in 1 .. i - 1
      BY <3>4
    <3> QED
      BY <1>14, <3>2, <3>5
  <2>6. Fits(c.driver, g, E, e)
    BY <2>1, <2>2, <2>3, <2>4, <2>5 DEF Fits
  <2> QED
    BY <2>6 DEF e
<1>22. ExitC(c) \in Seq(Releases) /\ Fits(c.driver, g, ExitC(c), Len(g) + 1) /\ Len(g) > 0
  BY <1>1, <1>11, <1>12, <1>21
<1>23. InitC(c) = <<g>> /\ g \in Seq(Steps)
  BY <1>1, <1>11
<1> QED
  BY <1>17, <1>18, <1>19, <1>20, <1>22, <1>23, OnePartSound

-----------------------------------------------------------------------------
\* dubfl fits, when there is no major number or queue.
LEMMA DubflSound ==
    ASSUME NEW c, c.driver = "dubfl", c.fails \subseteq {"major", "queue"}
    PROVE  Sound(c) /\ \A r \in DubflExitUses : SureBefore(c, Len(InitC(c)) + 1, 1, r)
<1> DEFINE m == One("major")  f == One("image")  d == One("data")
           q == One("queue")  k == One("disk")
           U == <<Clear(d), Clear(f)>>  v == <<Free(m)>>  R == U \o v
           w == <<Free(k), Free(q), Free(m)>>
           x == <<Get(m, << >>)>>  y == <<Try(f, << >>), Try(d, U)>>
           z == <<Get(q, R), Get(k, R)>>
           P == InitC(c)  E == ExitC(c)
<1>1. P = <<x, y, z>> /\ E = U \o w
  <2>1. P = DubflInit /\ E = DubflExit
    BY DEF InitC, ExitC, InitOf, ExitOf
  <2>2. DubflInit = <<x, y, z>> /\ DubflExit = U \o w
    BY Zenon DEF DubflUnlink, DubflInit, DubflExit
  <2> HIDE DEF P, E, x, y, z, U, w
  <2> QED
    BY <2>1, <2>2
<1>2. m \in Things /\ f \in Things /\ d \in Things /\ q \in Things /\ k \in Things
  BY ThingsAre DEF Kinds
<1>3. /\ m # f /\ m # d /\ m # q /\ m # k /\ f # d /\ f # q /\ f # k
      /\ d # q /\ d # k /\ q # k
  BY ThingsAre
<1>4. /\ Front(k) /\ ~Front(m) /\ ~Front(f) /\ ~Front(d) /\ ~Front(q)
      /\ Behind(c.driver, k) = {m, q}
      /\ m[1] = "major" /\ k[1] = "disk" /\ f[1] = "image" /\ d[1] = "data"
  BY ThingsAre DEF Front, Behind
<1>0. DubflExitUses = {f}
  BY DEF DubflExitUses
<1> HIDE DEF m, f, d, q, k
<1>5. << >> \in Seq(Releases) /\ U \in Seq(Releases) /\ v \in Seq(Releases) /\ w \in Seq(Releases)
  BY <1>2, ReleasesAre
<1>6. /\ Len(U) = 2 /\ U[1].of = d /\ U[2].of = f
      /\ U[1].guarded /\ U[2].guarded /\ U[1].clears /\ U[2].clears
  BY ReleasesAre
<1>7. /\ R \in Seq(Releases) /\ Len(R) = 3 /\ R[1].of = d /\ R[2].of = f /\ R[3].of = m
      /\ R[1].guarded /\ R[2].guarded
  <2>1. Len(v) = 1 /\ v[1].of = m
    BY ReleasesAre
  <2> HIDE DEF U, v
  <2>2. /\ R \in Seq(Releases) /\ Len(R) = Len(U) + Len(v)
        /\ \A j \in 1 .. Len(U) : R[j] = U[j]
        /\ \A j \in 1 .. Len(v) : R[Len(U) + j] = v[j]
    BY <1>5, JoinIs
  <2>3. 1 \in 1 .. 1 /\ 1 \in 1 .. 2 /\ 2 \in 1 .. 2 /\ 2 + 1 = 3
    OBVIOUS
  <2> HIDE DEF R
  <2> QED
    BY <1>6, <2>1, <2>2, <2>3
<1> HIDE DEF R
<1>8. /\ E \in Seq(Releases)
      /\ Len(E) = 5 /\ E[1] = U[1] /\ E[2] = U[2] /\ E[3] = w[1] /\ E[4] = w[2] /\ E[5] = w[3]
  <2>1. Len(w) = 3
    OBVIOUS
  <2> HIDE DEF U, w, E
  <2>2. /\ E \in Seq(Releases) /\ Len(E) = Len(U) + Len(w)
        /\ \A j \in 1 .. Len(U) : E[j] = U[j]
        /\ \A j \in 1 .. Len(w) : E[Len(U) + j] = w[j]
    BY <1>1, <1>5, JoinIs
  <2>3. /\ 1 \in 1 .. 2 /\ 2 \in 1 .. 2 /\ 1 \in 1 .. 3 /\ 2 \in 1 .. 3 /\ 3 \in 1 .. 3
        /\ 2 + 1 = 3 /\ 2 + 2 = 4 /\ 2 + 3 = 5
    OBVIOUS
  <2> QED
    BY <1>6, <2>1, <2>2, <2>3
<1>9. /\ Len(E) = 5 /\ E[1].of = d /\ E[2].of = f /\ E[3].of = k /\ E[4].of = q /\ E[5].of = m
      /\ E[1].guarded /\ E[2].guarded
  <2>1. w[1].of = k /\ w[2].of = q /\ w[3].of = m
    BY ReleasesAre
  <2> HIDE DEF U, w, E
  <2> QED
    BY <1>6, <1>8, <2>1
<1> HIDE DEF U, v, w
<1>10. /\ Len(x) = 1 /\ x[1].get = m /\ x[1].vital /\ x[1].undo = << >>
       /\ Len(y) = 2 /\ y[1].get = f /\ ~y[1].vital /\ y[1].undo = << >>
       /\ y[2].get = d /\ ~y[2].vital /\ y[2].undo = U
       /\ Len(z) = 2 /\ z[1].get = q /\ z[1].vital /\ z[1].undo = R
       /\ z[2].get = k /\ z[2].vital /\ z[2].undo = R
  BY StepsAre
<1>11. x \in Seq(Steps) /\ y \in Seq(Steps) /\ z \in Seq(Steps)
  <2> DEFINE v1 == Get(m, << >>)  v2 == Try(f, << >>)  v3 == Try(d, U)
             v4 == Get(q, R)  v5 == Get(k, R)
  <2>1. v1 \in Steps /\ v2 \in Steps /\ v3 \in Steps /\ v4 \in Steps /\ v5 \in Steps
    BY <1>2, <1>5, <1>7, StepsAre
  <2>2. x = <<v1>> /\ y = <<v2, v3>> /\ z = <<v4, v5>>
    OBVIOUS
  <2> HIDE DEF v1, v2, v3, v4, v5, x, y, z
  <2> QED
    BY <2>1, <2>2
<1> HIDE DEF x, y, z, E
<1>12. Len(P) = 3 /\ P[1] = x /\ P[2] = y /\ P[3] = z
  <2> HIDE DEF P
  <2> QED
    BY <1>1
<1>13. P \in Seq(Seq(Steps))
  <2> HIDE DEF P
  <2> QED
    BY <1>1, <1>11
<1>14. Typing(c)
  <2>1. \A a \in 1 .. 3 : a = 1 \/ a = 2 \/ a = 3
    OBVIOUS
  <2>2. \A a \in 1 .. Len(P) : Len(P[a]) > 0
    <3>1. Len(P) = 3 /\ Len(P[1]) = 1 /\ Len(P[2]) = 2 /\ Len(P[3]) = 2
      BY <1>10, <1>12, Zenon
    <3> HIDE DEF P
    <3> QED
      BY <2>1, <3>1
  <2> QED
    BY <1>8, <1>13, <2>2 DEF Typing, E
<1>15. ASSUME NEW a \in 1 .. Len(P), NEW b \in 1 .. Len(P[a])
       PROVE  \/ a = 1 /\ b = 1 /\ P[a][b] = x[1]
              \/ a = 2 /\ b = 1 /\ P[a][b] = y[1]
              \/ a = 2 /\ b = 2 /\ P[a][b] = y[2]
              \/ a = 3 /\ b = 1 /\ P[a][b] = z[1]
              \/ a = 3 /\ b = 2 /\ P[a][b] = z[2]
  <2>1. a = 1 \/ a = 2 \/ a = 3
    BY <1>12
  <2> HIDE DEF P
  <2>2. CASE a = 1
    <3>1. P[a] = x /\ b \in 1 .. 1
      BY <1>10, <1>12, <2>2
    <3> QED
      BY <2>2, <3>1
  <2>3. CASE a = 2
    <3>1. P[a] = y /\ b \in 1 .. 2
      BY <1>10, <1>12, <2>3
    <3> QED
      BY <2>3, <3>1
  <2>4. CASE a = 3
    <3>1. P[a] = z /\ b \in 1 .. 2
      BY <1>10, <1>12, <2>4
    <3> QED
      BY <2>4, <3>1
  <2> QED
    BY <2>1, <2>2, <2>3, <2>4
<1>16. /\ 1 \in 1 .. Len(P) /\ 2 \in 1 .. Len(P) /\ 3 \in 1 .. Len(P)
       /\ 1 \in 1 .. Len(P[1]) /\ 1 \in 1 .. Len(P[2]) /\ 2 \in 1 .. Len(P[2])
       /\ 1 \in 1 .. Len(P[3]) /\ 2 \in 1 .. Len(P[3])
  <2>1. /\ 1 \in 1 .. 3 /\ 2 \in 1 .. 3 /\ 3 \in 1 .. 3
        /\ 1 \in 1 .. 1 /\ 1 \in 1 .. 2 /\ 2 \in 1 .. 2
    OBVIOUS
  <2>2. Len(P) = 3 /\ Len(P[1]) = 1 /\ Len(P[2]) = 2 /\ Len(P[3]) = 2
    BY <1>10, <1>12, Zenon
  <2> HIDE DEF P
  <2> QED
    BY <2>1, <2>2
<1>17. ~Dropped(c, m) /\ ~Dropped(c, q) /\ ~Dropped(c, k)
  <2> SUFFICES ASSUME NEW r, r = m \/ r = q \/ r = k,
                      NEW a \in 1 .. Len(P), NEW b \in 1 .. Len(P[a]), ~P[a][b].vital,
                      NEW i \in 1 .. Len(P[a][b].undo), P[a][b].undo[i].of = r
               PROVE  FALSE
    BY DEF Dropped
  <2>1. P[a][b].undo = << >> \/ P[a][b].undo = U
    BY <1>10, <1>15
  <2>2. CASE P[a][b].undo = << >>
    BY <2>2
  <2>3. CASE P[a][b].undo = U
    <3>1. i \in 1 .. Len(U)
      BY <2>3
    <3>2. i = 1 \/ i = 2
      BY <1>6, <3>1
    <3> QED
      BY <1>3, <1>6, <2>3, <3>2
  <2> QED
    BY <2>1, <2>2, <2>3
<1>18. Certain(c, 1, 1) /\ Certain(c, 3, 1) /\ Certain(c, 3, 2)
  <2>1. P[1][1].vital /\ P[3][1].vital /\ P[3][2].vital
    BY <1>10, <1>12
  <2>2. \A i \in 1 .. 1 : i = 1
    OBVIOUS
  <2>3. \A i \in 1 .. 2 : i = 1 \/ i = 2
    OBVIOUS
  <2> QED
    BY <2>1, <2>2, <2>3 DEF Certain
<1>19. /\ \A j : SureBefore(c, 3, j, m)
       /\ SureBefore(c, 4, 1, m) /\ SureBefore(c, 4, 1, q) /\ SureBefore(c, 4, 1, k)
  <2>1. P[1][1].get = m /\ P[3][1].get = q /\ P[3][2].get = k
    BY <1>10, <1>12
  <2>2. /\ \A j : Earlier(1, 1, 3, j)
        /\ Earlier(1, 1, 4, 1) /\ Earlier(3, 1, 4, 1) /\ Earlier(3, 2, 4, 1)
    BY DEF Earlier
  <2> QED
    BY <1>16, <1>17, <1>18, <2>1, <2>2 DEF SureBefore
<1>20. Distinct(c)
  BY <1>3, <1>10, <1>15, SMTT(30) DEF Distinct
<1>21. FrontLast(c)
  <2> SUFFICES ASSUME NEW a \in 1 .. Len(P), NEW j \in 1 .. Len(P[a]), Front(P[a][j].get),
                      NEW r \in Behind(c.driver, P[a][j].get)
               PROVE  \/ SureBefore(c, a, j, r)
                      \/ \E i \in 1 .. j - 1 : P[a][i].get = r
    BY DEF FrontLast
  <2>1. a = 3 /\ j = 2 /\ P[a][j].get = k
    BY <1>4, <1>10, <1>15
  <2>2. r \in {m, q}
    BY <1>4, <2>1
  <2>3. 1 \in 1 .. j - 1 /\ P[a][1].get = q
    BY <1>10, <1>12, <2>1
  <2> QED
    BY <1>19, <2>1, <2>2, <2>3
<1>22. UndoFits(c)
  <2> SUFFICES ASSUME NEW a \in 1 .. Len(P), NEW j \in 1 .. Len(P[a]), CanFail(c, P[a][j])
               PROVE  IF P[a][j].vital THEN Returns(c, P[a][j].undo, a, j)
                      ELSE /\ InOrder(c, P[a][j].undo, a, j)
                           /\ \A i \in 1 .. Len(P[a][j].undo) :
                                 P[a][j].undo[i].guarded /\ P[a][j].undo[i].clears
    BY DEF UndoFits
  <2>1. CASE a = 1 /\ j = 1
    <3>1. \A r : ~GotBefore(c, 1, 1, r)
      BY <1>15 DEF GotBefore, Earlier
    <3>2. P[a][j].vital /\ Len(P[a][j].undo) = 0
      BY <1>10, <1>12, <2>1
    <3> QED
      BY <2>1, <3>1, <3>2 DEF Returns, InOrder
  <2>2. CASE a = 2 /\ j = 1
    <3>1. ~P[a][j].vital /\ Len(P[a][j].undo) = 0
      BY <1>10, <1>12, <2>2
    <3> QED
      BY <3>1 DEF InOrder
  <2>3. CASE a = 2 /\ j = 2
    <3>1. ~P[a][j].vital /\ P[a][j].undo = U
      BY <1>10, <1>12, <2>3
    <3>2. \A r : GotBefore(c, 2, 2, r) => ~Front(r)
      BY <1>4, <1>10, <1>15 DEF GotBefore, Earlier
    <3>3. \A i \in 1 .. Len(U) : U[i].guarded /\ U[i].clears
      <4>1. \A i \in 1 .. 2 : i = 1 \/ i = 2
        OBVIOUS
      <4> QED
        BY <1>6, <4>1
    <3> QED
      BY <2>3, <3>1, <3>2, <3>3 DEF InOrder
  <2>4. CASE a = 3 /\ j = 1
    <3>1. P[a][j].vital /\ P[a][j].undo = R
      BY <1>10, <1>12, <2>4
    <3>2. \A r : GotBefore(c, 3, 1, r) => r = m \/ r = f \/ r = d
      BY <1>10, <1>15, SMTT(30) DEF GotBefore, Earlier
    <3>3. \A i \in 1 .. Len(R) : i = 1 \/ i = 2 \/ i = 3
      BY <1>7
    <3>4. 1 \in 1 .. Len(R) /\ 2 \in 1 .. Len(R) /\ 3 \in 1 .. Len(R)
      BY <1>7
    <3>5. \A h, i \in 1 .. Len(R) : R[h].of = R[i].of => h = i
      BY <1>3, <1>7, <3>3
    <3>6. \A i \in 1 .. Len(R) : R[i].guarded \/ SureBefore(c, 3, 1, R[i].of)
      BY <1>7, <1>19, <3>3
    <3>7. \A r : GotBefore(c, 3, 1, r) => \E i \in 1 .. Len(R) : R[i].of = r
      BY <1>7, <3>2, <3>4
    <3>8. InOrder(c, R, 3, 1)
      BY <1>4, <3>2 DEF InOrder
    <3>9. Returns(c, R, 3, 1)
      BY <3>5, <3>6, <3>7, <3>8 DEF Returns
    <3> QED
      BY <2>4, <3>1, <3>9
  <2>5. ~(a = 3 /\ j = 2)
    <3>1. CASE a = 3 /\ j = 2
      <4>1. P[a][j].get = k
        BY <1>10, <1>12, <3>1
      <4> QED
        BY <1>4, <4>1 DEF CanFail
    <3> QED
      BY <3>1
  <2> QED
    BY <1>15, <2>1, <2>2, <2>3, <2>4, <2>5
<1>23. Returns(c, E, 4, 1)
  <2>1. \A i \in 1 .. Len(E) : i = 1 \/ i = 2 \/ i = 3 \/ i = 4 \/ i = 5
    BY <1>9
  <2>2. /\ 1 \in 1 .. Len(E) /\ 2 \in 1 .. Len(E) /\ 3 \in 1 .. Len(E)
        /\ 4 \in 1 .. Len(E) /\ 5 \in 1 .. Len(E)
    BY <1>9
  <2>3. \A r : GotBefore(c, 4, 1, r) => r \in {m, f, d, q, k}
    BY <1>10, <1>15 DEF GotBefore
  <2>4. \A h, i \in 1 .. Len(E) : E[h].of = E[i].of => h = i
    BY <1>3, <1>9, <2>1
  <2>5. \A i \in 1 .. Len(E) : E[i].guarded \/ SureBefore(c, 4, 1, E[i].of)
    BY <1>9, <1>19, <2>1
  <2>6. \A r : GotBefore(c, 4, 1, r) => \E i \in 1 .. Len(E) : E[i].of = r
    BY <1>9, <2>2, <2>3
  <2>7. InOrder(c, E, 4, 1)
    <3> SUFFICES ASSUME NEW i \in 1 .. Len(E), NEW r, Front(r), GotBefore(c, 4, 1, r),
                        E[i].of \in Behind(c.driver, r)
                 PROVE  \E h \in 1 .. i - 1 : E[h].of = r
      BY DEF InOrder
    <3>1. r = k
      BY <1>4, <2>3
    <3>2. i = 4 \/ i = 5
      BY <1>3, <1>4, <1>9, <2>1, <3>1
    <3>3. 3 \in 1 .. i - 1
      BY <3>2
    <3> QED
      BY <1>9, <3>1, <3>3
  <2> QED
    BY <2>4, <2>5, <2>6, <2>7 DEF Returns
<1>24. Returns(c, ExitC(c), Len(InitC(c)) + 1, 1)
  <2>1. Len(P) + 1 = 4
    BY <1>12
  <2> QED
    BY <1>23, <2>1 DEF E
<1>25. SureBefore(c, Len(InitC(c)) + 1, 1, f)
  <2>1. ASSUME NEW a \in 1 .. Len(P), NEW b \in 1 .. Len(P[a]), ~P[a][b].vital
        PROVE  ~CanFail(c, P[a][b])
    <3>1. P[a][b].get = f \/ P[a][b].get = d
      BY <1>10, <1>15, <2>1
    <3> QED
      BY <1>4, <3>1 DEF CanFail
  <2>2. ~Dropped(c, f)
    BY <2>1 DEF Dropped
  <2>3. Certain(c, 2, 1)
    <3>1. ~CanFail(c, P[2][1])
      BY <1>10, <1>12, <1>16, <2>1
    <3>2. \A i \in 1 .. 1 : i = 1
      OBVIOUS
    <3> QED
      BY <3>1, <3>2 DEF Certain
  <2>4. P[2][1].get = f /\ Len(P) + 1 = 4 /\ Earlier(2, 1, 4, 1)
    BY <1>10, <1>12 DEF Earlier
  <2>5. SureBefore(c, 4, 1, f)
    BY <1>16, <2>2, <2>3, <2>4 DEF SureBefore
  <2> QED
    BY <2>4, <2>5
<1> QED
  BY <1>0, <1>14, <1>20, <1>21, <1>22, <1>24, <1>25 DEF Sound

\* The sysfs example with three files fits, when nothing fails.
LEMMA XxmSound ==
    ASSUME NEW c, c.driver = "xxm", c.fails = {}
    PROVE  Sound(c)
<1> DEFINE s == One("class")  fl(i) == Of("file", i)  S == Seq(Steps)
           g == <<Try(s, << >>)>>
           a == <<g>>
           b == [i \in 1 .. 3 |-> <<Try(fl(i), << >>)>>]
           x == [i \in 1 .. 3 |-> Free(fl(i))]
           y == <<Free(s)>>
           P == InitC(c)  E == ExitC(c)
<1>1. P = a \o b /\ E = x \o y
  <2>1. P = XxmInit /\ E = XxmExit
    BY DEF InitC, ExitC, InitOf, ExitOf
  <2>2. XxmInit = a \o b /\ XxmExit = x \o y
    BY Zenon DEF XxmInit, XxmExit
  <2> HIDE DEF P, E, a, b, x, y
  <2> QED
    BY <2>1, <2>2
<1>2. s \in Things /\ \A i \in 1 .. 3 : fl(i) \in Things
  <2>1. \A i \in 1 .. 3 : i \in 0 .. (IF N > 7 THEN N ELSE 7)
    BY LifeAssumption
  <2> QED
    BY <2>1, ThingsAre DEF Kinds, Things, Of
<1>3. (\A i : fl(i) # s) /\ \A i, j : fl(i) = fl(j) => i = j
  BY ThingsAre
<1>4. ~Front(s) /\ \A i : Behind(c.driver, fl(i)) = {s}
  BY ThingsAre DEF Front, Behind
<1>5. << >> \in Seq(Releases)
  OBVIOUS
<1>6. Try(s, << >>) \in Steps /\ \A i \in 1 .. 3 : Try(fl(i), << >>) \in Steps
  BY <1>2, <1>5, StepsAre
<1>7. /\ Try(s, << >>).get = s
      /\ \A i : Try(fl(i), << >>).get = fl(i)
  BY StepsAre
<1>8. g \in S /\ Len(g) = 1 /\ g[1] = Try(s, << >>)
  BY <1>6
<1>9. \A i \in 1 .. 3 : b[i] \in S /\ Len(b[i]) = 1 /\ b[i][1] = Try(fl(i), << >>)
  BY <1>6
<1>10. x \in Seq(Releases) /\ Len(x) = 3 /\ \A i \in 1 .. 3 : x[i] = Free(fl(i))
  <2>1. \A i \in 1 .. 3 : x[i] = Free(fl(i)) /\ Free(fl(i)) \in Releases
    BY <1>2, ReleasesAre
  <2>2. x \in [1 .. 3 -> Releases] /\ 3 \in Nat
    BY <2>1
  <2> HIDE DEF x
  <2>3. ASSUME NEW k \in Nat, x \in [1 .. k -> Releases] PROVE x \in Seq(Releases) /\ Len(x) = k
    BY <2>3
  <2> QED
    BY <2>1, <2>2, <2>3, Zenon
<1>11. y \in Seq(Releases) /\ Len(y) = 1 /\ y[1] = Free(s)
  <2>1. Free(s) \in Releases
    BY <1>2, ReleasesAre
  <2> QED
    BY <2>1
<1>12. /\ P \in Seq(S) /\ Len(P) = 4 /\ P[1] = g /\ \A i \in 1 .. 3 : P[i + 1] = b[i]
  <2>1. a \in Seq(S) /\ Len(a) = 1 /\ a[1] = g
    <3> HIDE DEF g, S
    <3> QED
      BY <1>8
  <2>2. b \in [1 .. 3 -> S] /\ 3 \in Nat
    BY <1>9
  <2> HIDE DEF a, b, S
  <2>3. b \in Seq(S) /\ Len(b) = 3
    <3>1. ASSUME NEW k \in Nat, b \in [1 .. k -> S] PROVE b \in Seq(S) /\ Len(b) = k
      BY <3>1
    <3> QED
      BY <2>2, <3>1, Zenon
  <2>4. \A e, f \in Seq(S) : /\ e \o f \in Seq(S) /\ Len(e \o f) = Len(e) + Len(f)
                             /\ \A i \in 1 .. Len(e) : (e \o f)[i] = e[i]
                             /\ \A i \in 1 .. Len(f) : (e \o f)[Len(e) + i] = f[i]
    OBVIOUS
  <2>5. 1 \in 1 .. 1 /\ \A i \in 1 .. 3 : i + 1 = 1 + i
    OBVIOUS
  <2> HIDE DEF P
  <2>6. /\ P \in Seq(S) /\ Len(P) = Len(a) + Len(b)
        /\ \A i \in 1 .. Len(a) : P[i] = a[i]
        /\ \A i \in 1 .. Len(b) : P[Len(a) + i] = b[i]
    BY <1>1, <2>1, <2>3, <2>4
  <2> QED
    BY <2>1, <2>3, <2>5, <2>6
<1>13. /\ E \in Seq(Releases) /\ Len(E) = 4 /\ \A i \in 1 .. 3 : E[i] = x[i]
       /\ E[4] = y[1]
  <2> HIDE DEF x, y, E
  <2>1. /\ E \in Seq(Releases) /\ Len(E) = Len(x) + Len(y)
        /\ \A j \in 1 .. Len(x) : E[j] = x[j]
        /\ \A j \in 1 .. Len(y) : E[Len(x) + j] = y[j]
    BY <1>1, <1>10, <1>11, JoinIs
  <2>2. 1 \in 1 .. 1 /\ 3 + 1 = 4
    OBVIOUS
  <2> QED
    BY <1>10, <1>11, <2>1, <2>2
<1> HIDE DEF s, fl, g, a, b, x, y
<1>14. (\A i \in 1 .. 3 : E[i].of = fl(i)) /\ E[4].of = s
  <2> HIDE DEF E
  <2> QED
    BY <1>10, <1>11, <1>13, ReleasesAre
<1>15. ASSUME NEW k \in 1 .. Len(P), NEW j \in 1 .. Len(P[k])
       PROVE  \/ k = 1 /\ j = 1 /\ P[k][j].get = s
              \/ \E i \in 1 .. 3 : k = i + 1 /\ j = 1 /\ P[k][j].get = fl(i)
  <2> HIDE DEF P
  <2>1. CASE k = 1
    <3>1. P[k] = g /\ j \in 1 .. 1
      BY <1>8, <1>12, <2>1
    <3> QED
      BY <1>7, <1>8, <2>1, <3>1
  <2>2. CASE k # 1
    <3>1. k - 1 \in 1 .. 3 /\ k = (k - 1) + 1
      BY <1>12, <2>2
    <3>2. P[k] = b[k - 1] /\ j \in 1 .. 1
      <4> DEFINE i == k - 1
      <4>1. i \in 1 .. 3 /\ k = i + 1
        BY <3>1
      <4> HIDE DEF i
      <4>2. P[k] = b[i]
        BY <1>12, <4>1
      <4>3. Len(P[k]) = 1
        BY <1>9, <4>1, <4>2
      <4> QED
        BY <4>2, <4>3 DEF i
    <3>3. j = 1 /\ P[k][j].get = fl(k - 1)
      BY <1>7, <1>9, <3>1, <3>2
    <3> QED
      BY <3>1, <3>3
  <2> QED
    BY <2>1, <2>2
<1>16. \A t : ~CanFail(c, t)
  BY DEF CanFail
<1>17. Typing(c)
  <2>1. \A k \in 1 .. 4 : k = 1 \/ \E i \in 1 .. 3 : k = i + 1
    <3> SUFFICES ASSUME NEW k \in 1 .. 4, k # 1 PROVE \E i \in 1 .. 3 : k = i + 1
      OBVIOUS
    <3> WITNESS k - 1 \in 1 .. 3
    <3> QED
      OBVIOUS
  <2> HIDE DEF P
  <2>2. \A k \in 1 .. Len(P) : Len(P[k]) > 0
    BY <1>8, <1>9, <1>12, <2>1
  <2> QED
    BY <1>12, <1>13, <2>2 DEF Typing, P
<1>18. \A r : ~Dropped(c, r)
  BY <1>16 DEF Dropped
<1>19. \A k, j : Certain(c, k, j)
  BY <1>16 DEF Certain
<1>20. /\ 1 \in 1 .. Len(P) /\ 1 \in 1 .. Len(P[1]) /\ P[1][1].get = s
       /\ \A i \in 1 .. 3 : /\ i + 1 \in 1 .. Len(P) /\ 1 \in 1 .. Len(P[i + 1])
                            /\ P[i + 1][1].get = fl(i)
  <2>1. 1 \in 1 .. 4 /\ 1 \in 1 .. 1 /\ \A i \in 1 .. 3 : i + 1 \in 1 .. 4
    OBVIOUS
  <2> HIDE DEF P
  <2> QED
    BY <1>7, <1>8, <1>9, <1>12, <2>1
<1>21. /\ \A i \in 1 .. 3 : SureBefore(c, i + 1, 1, s) /\ SureBefore(c, 5, 1, fl(i))
       /\ SureBefore(c, 5, 1, s)
  <2>1. /\ \A i \in 1 .. 3 : Earlier(1, 1, i + 1, 1) /\ Earlier(i + 1, 1, 5, 1)
        /\ Earlier(1, 1, 5, 1)
    BY DEF Earlier
  <2> QED
    BY <1>18, <1>19, <1>20, <2>1 DEF SureBefore
<1>22. Distinct(c)
  <2> SUFFICES ASSUME NEW k \in 1 .. Len(P), NEW h \in 1 .. Len(P),
                      NEW j \in 1 .. Len(P[k]), NEW i \in 1 .. Len(P[h]),
                      P[k][j].get = P[h][i].get
               PROVE  k = h /\ j = i
    BY DEF Distinct
  <2> HIDE DEF P
  <2> QED
    BY <1>3, <1>15
<1>23. FrontLast(c)
  <2> SUFFICES ASSUME NEW k \in 1 .. Len(P), NEW j \in 1 .. Len(P[k]), Front(P[k][j].get),
                      NEW r \in Behind(c.driver, P[k][j].get)
               PROVE  SureBefore(c, k, j, r)
    BY DEF FrontLast
  <2> HIDE DEF P
  <2>1. PICK i \in 1 .. 3 : k = i + 1 /\ j = 1 /\ P[k][j].get = fl(i)
    BY <1>4, <1>15
  <2> QED
    BY <1>4, <1>21, <2>1
<1>24. UndoFits(c)
  BY <1>16 DEF UndoFits
<1>25. Returns(c, E, 5, 1)
  <2>1. \A i \in 1 .. Len(E) : i = 4 \/ i \in 1 .. 3
    BY <1>13
  <2>2. 4 \in 1 .. Len(E) /\ \A i \in 1 .. 3 : i \in 1 .. Len(E)
    BY <1>13
  <2>3. \A r : GotBefore(c, 5, 1, r) => r = s \/ \E i \in 1 .. 3 : r = fl(i)
    BY <1>15 DEF GotBefore
  <2> HIDE DEF E
  <2>4. \A h, i \in 1 .. Len(E) : E[h].of = E[i].of => h = i
    BY <1>3, <1>14, <2>1
  <2>5. \A i \in 1 .. Len(E) : SureBefore(c, 5, 1, E[i].of)
    BY <1>14, <1>21, <2>1
  <2>6. \A r : GotBefore(c, 5, 1, r) => \E i \in 1 .. Len(E) : E[i].of = r
    BY <1>14, <2>2, <2>3
  <2>7. InOrder(c, E, 5, 1)
    <3> SUFFICES ASSUME NEW i \in 1 .. Len(E), NEW r, Front(r), GotBefore(c, 5, 1, r),
                        E[i].of \in Behind(c.driver, r)
                 PROVE  \E h \in 1 .. i - 1 : E[h].of = r
      BY DEF InOrder
    <3>1. PICK h \in 1 .. 3 : r = fl(h)
      BY <1>4, <2>3
    <3>2. i = 4
      BY <1>3, <1>4, <1>14, <2>1, <3>1
    <3>3. h \in 1 .. i - 1
      BY <3>2
    <3> QED
      BY <1>14, <3>1, <3>3
  <2> QED
    BY <2>4, <2>5, <2>6, <2>7 DEF Returns
<1>26. Returns(c, ExitC(c), Len(InitC(c)) + 1, 1)
  <2>1. Len(P) + 1 = 5
    BY <1>12
  <2> QED
    BY <1>25, <2>1
<1> QED
  BY <1>17, <1>22, <1>23, <1>24, <1>26 DEF Sound

\* The sysfs example with one file fits, when nothing fails.
LEMMA XxxSound ==
    ASSUME NEW c, c.driver = "xxx", c.fails = {}
    PROVE  Sound(c)
<1> DEFINE s == One("class")  k == One("file")
           x == <<Try(s, << >>)>>  y == <<Get(k, << >>)>>
           P == InitC(c)  E == ExitC(c)
<1>1. P = <<x, y>> /\ E = <<Free(k), Free(s)>>
  BY DEF InitC, ExitC, InitOf, ExitOf, XxxInit, XxxExit
<1>2. s \in Things /\ k \in Things
  BY ThingsAre DEF Kinds
<1>3. s # k
  BY ThingsAre
<1>4. ~Front(s) /\ Behind(c.driver, k) = {s}
  BY ThingsAre DEF Front, Behind
<1> HIDE DEF s, k
<1>5. E \in Seq(Releases) /\ Len(E) = 2 /\ E[1].of = k /\ E[2].of = s
  <2>1. Free(k) \in Releases /\ Free(s) \in Releases
    BY <1>2, ReleasesAre
  <2> HIDE DEF E
  <2> QED
    BY <1>1, <2>1, ReleasesAre
<1>6. /\ x \in Seq(Steps) /\ Len(x) = 1 /\ x[1].get = s
      /\ y \in Seq(Steps) /\ Len(y) = 1 /\ y[1].get = k
  <2>1. << >> \in Seq(Releases)
    OBVIOUS
  <2>2. Try(s, << >>) \in Steps /\ Get(k, << >>) \in Steps
    BY <1>2, <2>1, StepsAre
  <2> QED
    BY <2>2, StepsAre
<1> HIDE DEF x, y, E
<1>7. Len(P) = 2 /\ P[1] = x /\ P[2] = y /\ P \in Seq(Seq(Steps))
  <2> HIDE DEF P
  <2> QED
    BY <1>1, <1>6
<1>8. \A t : ~CanFail(c, t)
  BY DEF CanFail
<1>9. ASSUME NEW a \in 1 .. Len(P), NEW b \in 1 .. Len(P[a])
      PROVE  \/ a = 1 /\ b = 1 /\ P[a][b].get = s
             \/ a = 2 /\ b = 1 /\ P[a][b].get = k
  <2> HIDE DEF P
  <2>1. CASE a = 1
    <3>1. P[a] = x /\ b \in 1 .. 1
      BY <1>6, <1>7, <2>1
    <3> QED
      BY <1>6, <2>1, <3>1
  <2>2. CASE a = 2
    <3>1. P[a] = y /\ b \in 1 .. 1
      BY <1>6, <1>7, <2>2
    <3> QED
      BY <1>6, <2>2, <3>1
  <2>3. a = 1 \/ a = 2
    BY <1>7
  <2> QED
    BY <2>1, <2>2, <2>3
<1>10. /\ 1 \in 1 .. Len(P) /\ 2 \in 1 .. Len(P) /\ 1 \in 1 .. Len(P[1])
       /\ 1 \in 1 .. Len(P[2]) /\ P[1][1].get = s /\ P[2][1].get = k
  <2>1. 1 \in 1 .. 2 /\ 2 \in 1 .. 2 /\ 1 \in 1 .. 1
    OBVIOUS
  <2> HIDE DEF P
  <2>2. Len(P) = 2 /\ Len(P[1]) = 1 /\ Len(P[2]) = 1
    BY <1>6, <1>7, Zenon
  <2>3. P[1][1].get = s /\ P[2][1].get = k
    BY <1>6, <1>7, Zenon
  <2> QED
    BY <2>1, <2>2, <2>3
<1>11. Typing(c)
  <2>1. \A a \in 1 .. 2 : a = 1 \/ a = 2
    OBVIOUS
  <2> HIDE DEF P
  <2>2. ASSUME NEW a \in 1 .. Len(P) PROVE Len(P[a]) > 0
    <3>1. Len(P) = 2 /\ Len(P[1]) = 1 /\ Len(P[2]) = 1
      BY <1>6, <1>7, Zenon
    <3>2. a = 1 \/ a = 2
      BY <2>1, <3>1, Zenon
    <3>3. Len(P[a]) = 1
      BY <3>1, <3>2, Zenon
    <3> QED
      BY <3>3
  <2> QED
    BY <1>5, <1>7, <2>2 DEF Typing, P, E
<1>12. (\A r : ~Dropped(c, r)) /\ \A a, b : Certain(c, a, b)
  BY <1>8 DEF Dropped, Certain
<1>13. SureBefore(c, 2, 1, s) /\ SureBefore(c, 3, 1, s) /\ SureBefore(c, 3, 1, k)
  <2>1. Earlier(1, 1, 2, 1) /\ Earlier(1, 1, 3, 1) /\ Earlier(2, 1, 3, 1)
    BY DEF Earlier
  <2> QED
    BY <1>10, <1>12, <2>1 DEF SureBefore
<1>14. Distinct(c)
  BY <1>3, <1>9 DEF Distinct
<1>15. FrontLast(c)
  <2> SUFFICES ASSUME NEW a \in 1 .. Len(P), NEW j \in 1 .. Len(P[a]), Front(P[a][j].get),
                      NEW r \in Behind(c.driver, P[a][j].get)
               PROVE  SureBefore(c, a, j, r)
    BY DEF FrontLast
  <2>1. a = 2 /\ j = 1 /\ P[a][j].get = k
    BY <1>4, <1>9
  <2> QED
    BY <1>4, <1>13, <2>1
<1>16. UndoFits(c)
  BY <1>8 DEF UndoFits
<1>17. Returns(c, E, 3, 1)
  <2>1. /\ \A i \in 1 .. Len(E) : i = 1 \/ i = 2
        /\ 1 \in 1 .. Len(E) /\ 2 \in 1 .. Len(E)
    BY <1>5
  <2>2. \A r : GotBefore(c, 3, 1, r) => r = s \/ r = k
    BY <1>9 DEF GotBefore
  <2>3. \A h, i \in 1 .. Len(E) : E[h].of = E[i].of => h = i
    BY <1>3, <1>5, <2>1
  <2>4. \A i \in 1 .. Len(E) : SureBefore(c, 3, 1, E[i].of)
    BY <1>5, <1>13, <2>1
  <2>5. \A r : GotBefore(c, 3, 1, r) => \E i \in 1 .. Len(E) : E[i].of = r
    BY <1>5, <2>1, <2>2
  <2>6. InOrder(c, E, 3, 1)
    <3> SUFFICES ASSUME NEW i \in 1 .. Len(E), NEW r, Front(r), GotBefore(c, 3, 1, r),
                        E[i].of \in Behind(c.driver, r)
                 PROVE  \E h \in 1 .. i - 1 : E[h].of = r
      BY DEF InOrder
    <3>1. r = k /\ i = 2
      BY <1>3, <1>4, <1>5, <2>1, <2>2
    <3>2. 1 \in 1 .. i - 1
      BY <3>1
    <3> QED
      BY <1>5, <3>1, <3>2
  <2> QED
    BY <2>3, <2>4, <2>5, <2>6 DEF Returns
<1>18. Returns(c, ExitC(c), Len(InitC(c)) + 1, 1)
  <2>1. Len(P) + 1 = 3
    BY <1>7
  <2> QED
    BY <1>17, <2>1 DEF E
<1> QED
  BY <1>11, <1>14, <1>15, <1>16, <1>18 DEF Sound

\* Every module of the repository fits, for the failures its code provides for.
LEMMA ProvidedSound == ASSUME OnlyProvided PROVE AllSound
<1> SUFFICES ASSUME NEW c \in Configs PROVE Sound(c) /\ SureOfItself(c)
  BY DEF AllSound
<1>1. c.driver \in Drivers /\ c.fails \subseteq Provided[c.driver]
  BY LifeAssumption DEF OnlyProvided
<1>2. Drivers = {"xd", "sbull", "xbc", "lab2", "dubfl", "rw", "proct", "proc", "xxx", "xxm",
                 "mpu6050"}
  BY DEF Drivers, InitOf
<1>a. "given" \notin c.fails
  <2>1. \A d \in Drivers : "given" \notin Provided[d]
    BY <1>2 DEF Provided, Kinds
  <2> QED
    BY <1>1, <2>1
<1>b. c.driver # "dubfl" => SureOfItself(c)
  BY <1>a DEF SureOfItself, ExitUses
<1>3. CASE c.driver = "xd"
  BY <1>1, <1>3, <1>b, XdSound
<1>4. CASE c.driver = "sbull"
  BY <1>1, <1>4, <1>b, SbullSound
<1>5. CASE c.driver \in {"xbc", "lab2"}
  <2>1. c.fails \subseteq {"data", "queue"}
    BY <1>1, <1>5 DEF Provided
  <2> QED
    BY <1>5, <1>b, <2>1, XbcSound
<1>6. CASE c.driver = "dubfl"
  <2>1. c.fails \subseteq {"major", "queue"}
    BY <1>1, <1>6 DEF Provided
  <2>2. Sound(c) /\ \A r \in DubflExitUses : SureBefore(c, Len(InitC(c)) + 1, 1, r)
    BY <1>6, <2>1, DubflSound
  <2>3. DubflExitUses \subseteq Things
    BY ThingsAre DEF DubflExitUses, Kinds
  <2> QED
    BY <1>6, <1>a, <2>2, <2>3 DEF SureOfItself, ExitUses
<1>7. CASE c.driver \in {"rw", "proct", "proc"}
  BY <1>7, <1>b, RwSound, ProctSound, ProcSound
<1>8. CASE c.driver = "xxx"
  <2>1. c.fails = {}
    BY <1>1, <1>8 DEF Provided
  <2> QED
    BY <1>8, <1>b, <2>1, XxxSound
<1>9. CASE c.driver = "xxm"
  <2>1. c.fails = {}
    BY <1>1, <1>9 DEF Provided
  <2> QED
    BY <1>9, <1>b, <2>1, XxmSound
<1>10. CASE c.driver = "mpu6050"
  <2>1. c.fails \subseteq {"driver"}
    BY <1>1, <1>10 DEF Provided
  <2> QED
    BY <1>10, <1>b, <2>1, MpuSound
<1> QED
  BY <1>1, <1>2, <1>3, <1>4, <1>5, <1>6, <1>7, <1>8, <1>9, <1>10

-----------------------------------------------------------------------------
\* What follows for the modules of the repository, with any number of devices.

\* The inductive invariant.
THEOREM Invariance == ASSUME OnlyProvided PROVE Spec => []IInv
BY ProvidedSound, SoundInvariance

\* What the variables of a module name is what it has, and a step of its init
\* function finds the pointer it sets NULL: no memory is lost by asking twice.
THEOREM TypeCorrect == ASSUME OnlyProvided PROVE Spec => []TypeOK
<1>1. AllSound
  BY ProvidedSound
<1>2. IInv => TypeOK
  <2> SUFFICES ASSUME IInv PROVE TypeOK
    OBVIOUS
  <2> USE DEF IInv, Types
  <2>1. /\ conf \in Configs
        /\ module \in {"out", "loading", "failing", "live", "unloading", "stuck"}
        /\ ptr \in [Things -> {"null", "held", "stale"}]
        /\ part \in 1 .. Len(Parts) + 1
        /\ part =< Len(Parts) => step \in 1 .. Len(Parts[part])
    OBVIOUS
  <2>2. held \subseteq Things /\ leaked \subseteq Things /\ fault \in BOOLEAN
        /\ \A r \in held : ptr[r] = "held"
    OBVIOUS
  <2>3. ASSUME module = "loading", NEW k \in 1 .. Len(Parts), NEW j \in 1 .. Len(Parts[k]),
               k > part \/ (k = part /\ j >= step)
        PROVE  ptr[Parts[k][j].get] = "null"
    <3> DEFINE r == Parts[k][j].get
    <3>1. Parts = InitC(conf)
      BY DEF Parts, InitC
    <3>2. Distinct(conf) /\ Parts \in Seq(Seq(Steps))
      BY <1>1, <2>1, <3>1 DEF AllSound, Sound, Typing
    <3>3. r \in Things
      <4>1. Parts[k] \in Seq(Steps)
        BY <3>2
      <4>2. Parts[k][j] \in Steps
        BY <4>1
      <4> QED
        BY <4>2 DEF Steps
    <3>4. ~GotBefore(conf, part, step, r)
      <4> SUFFICES ASSUME NEW a \in 1 .. Len(Parts), NEW b \in 1 .. Len(Parts[a]),
                          Earlier(a, b, part, step), Parts[a][b].get = r
                   PROVE  FALSE
        BY <3>1 DEF GotBefore
      <4>0. \A e, f \in 1 .. Len(Parts) :
               \A h \in 1 .. Len(Parts[e]) : \A i \in 1 .. Len(Parts[f]) :
                  Parts[e][h].get = Parts[f][i].get => e = f /\ h = i
        BY <3>2 DEF Distinct, InitC, Parts
      <4>1. a = k /\ b = j
        <5> HIDE DEF IInv, Types
        <5>1. k \in 1 .. Len(Parts) /\ j \in 1 .. Len(Parts[k])
          BY <2>3
        <5>2. Parts[a][b].get = Parts[k][j].get
          OBVIOUS
        <5> QED
          BY <4>0, <5>1, <5>2, Zenon
      <4>2. a < part \/ (a = part /\ b < step)
        BY DEF Earlier
      <4>3. part \in Int /\ k \in Int /\ j \in Int /\ (part =< Len(Parts) => step \in Int)
        BY <2>1
      <4> QED
        BY <2>1, <2>3, <4>1, <4>2, <4>3
    <3>5. ptr[r] # "held" /\ ptr[r] # "stale"
      BY <2>3, <3>3, <3>4 DEF Coming
    <3> QED
      BY <2>1, <3>3, <3>5
  <2> QED
    BY <2>1, <2>2, <2>3 DEF TypeOK
<1>3. Spec => []IInv
  BY <1>1, SoundInvariance
<1> QED
  BY <1>2, <1>3, PTL

\* Nothing is released that is not there, whichever of the failures occur, and
\* however often the module is loaded again.
THEOREM NoFaultHolds == ASSUME OnlyProvided PROVE Spec => []NoFault
<1>1. IInv => NoFault
  BY DEF IInv, NoFault
<1> QED
  BY <1>1, Invariance, PTL

\* A load that fails and an unload leave nothing.
THEOREM NothingLeftHolds == ASSUME OnlyProvided PROVE Spec => []NothingLeft
<1>1. IInv => NothingLeft
  BY DEF IInv, NothingLeft
<1> QED
  BY <1>1, Invariance, PTL

\* The kernel finds behind a disk or a file what the functions it calls use, in
\* the middle of a load or an unload too.
THEOREM BackedHolds == ASSUME OnlyProvided PROVE Spec => []Backed
<1>1. IInv => Backed
  BY DEF IInv, AllBehind, Backed
<1> QED
  BY <1>1, Invariance, PTL
=============================================================================
