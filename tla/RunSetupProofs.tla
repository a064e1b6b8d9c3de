---------------------------- MODULE RunSetupProofs ----------------------------
(***************************************************************************)
(* Proofs about RunSetup for any run mode documents, boards and readers.   *)
(* The board in it behaves as the board by itself, so that what            *)
(* BaselinesProofs proves holds of it; the merge of documents keeps, for   *)
(* every field, the first document that had it; and the thread that makes  *)
(* collections stays ahead of the readers' clocks.                         *)
(***************************************************************************)
EXTENDS RunSetup, Sequences, TLAPS

-----------------------------------------------------------------------------
(* The merge of run modes.                                                 *)

\* Document i of the chain is the first that has the field f.
First(f, i) ==
  /\ i \in DOMAIN chain /\ f \in DOMAIN read[chain[i]]
  /\ \A j \in DOMAIN chain : j < i => f \notin DOMAIN read[chain[j]]

\* The merged document has the fields of all documents, each as the first one has it.
Merged ==
  pull \in {"follow", "done"} =>
    /\ \A n \in DOMAIN read : DOMAIN read[n] \ {"parent"} \subseteq DOMAIN res
    /\ \A f \in DOMAIN res \ {"parent"} :
         \E i \in DOMAIN chain : First(f, i) /\ res[f] = read[chain[i]][f]

\* What a document may say of its parent and of the baselines.
DocOK(doc) ==
  /\ Modes!ParentOf(doc) \in Names \cup {"none"}
  /\ Modes!OptionOf(doc, "baseline_mode") \in -1 .. 2

ChainOK ==
  /\ chain \in Seq(Names) /\ DOMAIN read = {chain[i] : i \in DOMAIN chain}
  /\ \A n \in DOMAIN read : read[n] # Modes!NoDoc /\ DocOK(read[n])

ModesInv ==
  /\ ChainOK /\ Merged
  /\ pull \in {"idle", "follow", "failed", "done"}
  /\ pull = "idle" => chain = <<>>
  /\ pull \in {"idle", "failed"} => res = Modes!NoDoc
  /\ Modes!ParentOf(res) \in Names \cup {"none"}

LEMMA Parameters ==
  /\ "none" \notin Names /\ "parent" # "baseline_mode"
  /\ \A c \in Contents : DOMAIN c # {} /\ "parent" \notin DOMAIN c
  /\ \A c \in Contents : Modes!OptionOf(c, "baseline_mode") \in -1 .. 2
  /\ Commanded \subseteq Names
  BY SetupAssumption DEF Modes!ModesAssumption

LEMMA NothingFound ==
  DOMAIN Modes!NoDoc = {} /\ DocOK(Modes!NoDoc) /\ DOMAIN Modes!NoFields = {}
<1>1. DOMAIN Modes!NoDoc = {} /\ DOMAIN Modes!NoFields = {}  BY DEF Modes!NoDoc, Modes!NoFields
<1>2. QED  BY <1>1 DEF DocOK, Modes!ParentOf, Modes!OptionOf

LEMMA DocsAreOK == ASSUME NEW n \in Names, NEW doc \in Modes!Docs(n) PROVE DocOK(doc)
<1>1. CASE doc = Modes!NoDoc  BY <1>1, NothingFound
<1>2. CASE doc \in Contents
  BY <1>2, Parameters DEF DocOK, Modes!ParentOf
<1>3. CASE \E m \in Modes!Parents(n) : \E c \in Contents :
             doc = Modes!AppendUnique(Modes!Field("parent", m), c)
  <2>1. PICK m \in Modes!Parents(n), c \in Contents :
               doc = Modes!AppendUnique(Modes!Field("parent", m), c)
    BY <1>3
  <2>2. m \in Names \cup {"none"}  BY DEF Modes!Parents
  <2> DEFINE p == Modes!Field("parent", m)
  <2>3. DOMAIN p = {"parent"} /\ p["parent"] = m  BY DEF Modes!Field
  <2>4. /\ DOMAIN doc = {"parent"} \cup DOMAIN c /\ doc["parent"] = m
        /\ \A f \in DOMAIN c \ {"parent"} : doc[f] = c[f]
    <3> HIDE DEF p
    <3>1. doc = Modes!AppendUnique(p, c)  BY <2>1 DEF p
    <3>2. QED  BY <2>3, <3>1 DEF Modes!AppendUnique
  <2>5. Modes!OptionOf(doc, "baseline_mode") = Modes!OptionOf(c, "baseline_mode")
    BY <2>4, Parameters DEF Modes!OptionOf
  <2>6. Modes!ParentOf(doc) = m  BY <2>4 DEF Modes!ParentOf
  <2>7. QED  BY <2>2, <2>5, <2>6, Parameters DEF DocOK
<1>4. QED  BY <1>1, <1>2, <1>3 DEF Modes!Docs

\* A lookup leaves what was found before as it is, and adds the document if it is new.
LEMMA Looked ==
  ASSUME ChainOK, NEW n \in Names, NEW doc \in Modes!Found(n), Modes!Remember(n, doc)
  PROVE  /\ ChainOK' /\ DocOK(doc)
         /\ \/ /\ UNCHANGED <<read, chain>>
               /\ doc = Modes!NoDoc \/ (n \in DOMAIN read /\ doc = read[n])
            \/ /\ n \notin DOMAIN read /\ doc # Modes!NoDoc
               /\ chain' \in Seq(Names) /\ DOMAIN chain' = DOMAIN chain \cup {Len(chain) + 1}
               /\ \A i \in DOMAIN chain : chain'[i] = chain[i] /\ i < Len(chain) + 1
               /\ Len(chain) + 1 \notin DOMAIN chain /\ chain'[Len(chain) + 1] = n
               /\ DOMAIN read' = DOMAIN read \cup {n}
               /\ read'[n] = doc /\ \A m \in DOMAIN read : read'[m] = read[m]
<1>1. DocOK(doc)
  <2>1. CASE n \in DOMAIN read  BY <2>1 DEF Modes!Found, ChainOK
  <2>2. CASE n \notin DOMAIN read  BY <2>2, DocsAreOK DEF Modes!Found
  <2>3. QED  BY <2>1, <2>2
<1>2. CASE n \in DOMAIN read \/ doc = Modes!NoDoc
  <2>1. UNCHANGED <<read, chain>>  BY <1>2 DEF Modes!Remember
  <2>2. doc = Modes!NoDoc \/ (n \in DOMAIN read /\ doc = read[n])  BY <1>2 DEF Modes!Found
  <2>3. ChainOK'  BY <2>1 DEF ChainOK
  <2>4. QED  BY <1>1, <2>1, <2>2, <2>3
<1>3. CASE n \notin DOMAIN read /\ doc # Modes!NoDoc
  <2>1. read' = Modes!AppendUnique(read, Modes!Field(n, doc)) /\ chain' = Append(chain, n)
    BY <1>3 DEF Modes!Remember
  <2>2. /\ DOMAIN read' = DOMAIN read \cup {n}
        /\ read'[n] = doc /\ \A m \in DOMAIN read : read'[m] = read[m]
    <3> DEFINE new == Modes!Field(n, doc)
    <3>1. DOMAIN new = {n} /\ new[n] = doc  BY DEF Modes!Field
    <3> HIDE DEF new
    <3>2. read' = Modes!AppendUnique(read, new)  BY <2>1 DEF new
    <3>3. QED  BY <1>3, <3>1, <3>2 DEF Modes!AppendUnique
  <2>3. chain \in Seq(Names)  BY DEF ChainOK
  <2>4. /\ chain' \in Seq(Names) /\ DOMAIN chain' = DOMAIN chain \cup {Len(chain) + 1}
        /\ \A i \in DOMAIN chain : chain'[i] = chain[i] /\ i < Len(chain) + 1
        /\ Len(chain) + 1 \notin DOMAIN chain /\ chain'[Len(chain) + 1] = n
    BY <2>1, <2>3
  <2>5. DOMAIN read' = {chain'[i] : i \in DOMAIN chain'}
    <3>1. DOMAIN read = {chain[i] : i \in DOMAIN chain}  BY DEF ChainOK
    <3>2. ASSUME NEW m \in DOMAIN read' PROVE \E i \in DOMAIN chain' : chain'[i] = m
      BY <2>2, <2>4, <3>1
    <3>3. ASSUME NEW i \in DOMAIN chain' PROVE chain'[i] \in DOMAIN read'
      BY <2>2, <2>4, <3>1
    <3>4. QED  BY <3>2, <3>3
  <2>6. \A m \in DOMAIN read' : read'[m] # Modes!NoDoc /\ DocOK(read'[m])
    BY <1>1, <1>3, <2>2 DEF ChainOK
  <2>7. ChainOK'
    BY <2>4, <2>5, <2>6 DEF ChainOK, DocOK, Modes!ParentOf, Modes!OptionOf, Modes!NoDoc, Modes!NoFields
  <2>8. QED  BY <1>1, <1>3, <2>2, <2>4, <2>7
<1>4. QED  BY <1>2, <1>3

LEMMA Composed ==
  ASSUME NEW child, NEW parent, NEW both, both = Modes!Composite(child, parent)
  PROVE  /\ DOMAIN both = {"parent"} \cup DOMAIN child \cup DOMAIN parent
         /\ \A f \in DOMAIN child \ {"parent"} : both[f] = child[f]
         /\ \A f \in DOMAIN parent \ (DOMAIN child \cup {"parent"}) : both[f] = parent[f]
         /\ Modes!ParentOf(both) = Modes!ParentOf(parent)
<1> DEFINE p == Modes!Field("parent", Modes!ParentOf(parent))
           rest == Modes!AppendUnique(child, parent)
<1>1. DOMAIN p = {"parent"} /\ p["parent"] = Modes!ParentOf(parent)  BY DEF Modes!Field
<1>2. /\ DOMAIN rest = DOMAIN child \cup DOMAIN parent
      /\ \A f \in DOMAIN child : rest[f] = child[f]
      /\ \A f \in DOMAIN parent \ DOMAIN child : rest[f] = parent[f]
  BY DEF Modes!AppendUnique
<1>3. both = Modes!AppendUnique(p, rest)  BY DEF Modes!Composite
<1> HIDE DEF p, rest
<1>4. /\ DOMAIN both = DOMAIN p \cup DOMAIN rest
      /\ \A f \in DOMAIN p : both[f] = p[f]
      /\ \A f \in DOMAIN rest \ DOMAIN p : both[f] = rest[f]
  BY <1>3 DEF Modes!AppendUnique
<1>5. Modes!ParentOf(both) = Modes!ParentOf(parent)  BY <1>1, <1>4 DEF Modes!ParentOf
<1>6. QED  BY <1>1, <1>2, <1>4, <1>5

\* The document that is first for a field stays so when another is found.
LEMMA FirstStays ==
  ASSUME NEW f, NEW i, First(f, i), NEW n, NEW doc, ChainOK,
         DOMAIN chain' = DOMAIN chain \cup {Len(chain) + 1},
         \A j \in DOMAIN chain : chain'[j] = chain[j] /\ j < Len(chain) + 1,
         \A m \in DOMAIN read : read'[m] = read[m]
  PROVE  First(f, i)' /\ read'[chain'[i]] = read[chain[i]]
<1>1. \A j \in DOMAIN chain : chain[j] \in DOMAIN read  BY DEF ChainOK
<1>2. \A j \in DOMAIN chain : read'[chain'[j]] = read[chain[j]]  BY <1>1
<1>3. i \in DOMAIN chain /\ i \in Int /\ Len(chain) \in Nat  BY DEF First, ChainOK
<1>4. ~(Len(chain) + 1 < i)  BY <1>3
<1>5. QED  BY <1>2, <1>3, <1>4 DEF First

LEMMA TopLevelStep ==
  ASSUME ModesInv, NEW n \in Commanded, Modes!TopLevel(n) PROVE ModesInv'
<1>1. PICK doc \in Modes!Found(n) :
        /\ Modes!Remember(n, doc)
        /\ res' = doc
        /\ pull' = IF doc = Modes!NoDoc THEN "failed" ELSE "follow"
  BY DEF Modes!TopLevel
<1>2. n \in Names  BY Parameters
<1>3. chain = <<>> /\ DOMAIN read = {}
  BY DEF ModesInv, ChainOK, Modes!TopLevel
<1>4. /\ ChainOK' /\ DocOK(doc)
      /\ \/ /\ UNCHANGED <<read, chain>>
            /\ doc = Modes!NoDoc
         \/ /\ doc # Modes!NoDoc
            /\ DOMAIN chain' = {1} /\ chain'[1] = n
            /\ DOMAIN read' = {n} /\ read'[n] = doc
  <2>1. Len(chain) + 1 = 1 /\ DOMAIN chain = {}  BY <1>3
  <2>2. ChainOK  BY DEF ModesInv
  <2>3. QED  BY <1>1, <1>2, <1>3, <2>1, <2>2, Looked
<1>5. Modes!ParentOf(res') \in Names \cup {"none"}  BY <1>1, <1>4 DEF DocOK
<1>6. Merged'
  <2>1. CASE doc = Modes!NoDoc  BY <1>1, <2>1 DEF Merged
  <2>2. CASE doc # Modes!NoDoc
    <3>1. /\ DOMAIN chain' = {1} /\ chain'[1] = n /\ DOMAIN read' = {n} /\ read'[n] = doc
          /\ res' = doc
      BY <1>1, <1>4, <2>2
    <3>2. \A f \in DOMAIN doc : First(f, 1)'  BY <3>1 DEF First
    <3>3. QED  BY <3>1, <3>2 DEF Merged
  <2>3. QED  BY <2>1, <2>2
<1>7. (Modes!ParentOf(res) \in Names \cup {"none"})'
  BY <1>5 DEF Modes!ParentOf
<1>8. (res = Modes!NoDoc)' <=> res' = Modes!NoDoc  BY DEF Modes!NoDoc, Modes!NoFields
<1>9. QED  BY <1>1, <1>4, <1>6, <1>7, <1>8 DEF ModesInv

\* "The magic part" keeps what nearer documents said and takes over the rest.
LEMMA FollowStep == ASSUME ModesInv, Modes!FollowParent PROVE ModesInv'
<1> DEFINE n == res["parent"]
<1>1. PICK doc \in Modes!Found(n) :
        /\ Modes!Remember(n, doc)
        /\ IF doc = Modes!NoDoc THEN pull' = "done" /\ UNCHANGED res
                                ELSE res' = Modes!Composite(res, doc) /\ UNCHANGED pull
  BY DEF Modes!FollowParent
<1>2. n \in Names /\ pull = "follow"
  BY DEF Modes!FollowParent, Modes!HasParent, ModesInv, Modes!ParentOf
<1> HIDE DEF n
<1>3. /\ ChainOK' /\ DocOK(doc)
      /\ \/ /\ UNCHANGED <<read, chain>>
            /\ doc = Modes!NoDoc \/ (n \in DOMAIN read /\ doc = read[n])
         \/ /\ n \notin DOMAIN read /\ doc # Modes!NoDoc
            /\ chain' \in Seq(Names) /\ DOMAIN chain' = DOMAIN chain \cup {Len(chain) + 1}
            /\ \A i \in DOMAIN chain : chain'[i] = chain[i] /\ i < Len(chain) + 1
            /\ Len(chain) + 1 \notin DOMAIN chain /\ chain'[Len(chain) + 1] = n
            /\ DOMAIN read' = DOMAIN read \cup {n}
            /\ read'[n] = doc /\ \A m \in DOMAIN read : read'[m] = read[m]
  BY <1>1, <1>2, Looked DEF ModesInv
<1>4. /\ ChainOK
      /\ \A m \in DOMAIN read : DOMAIN read[m] \ {"parent"} \subseteq DOMAIN res
      /\ \A f \in DOMAIN res \ {"parent"} :
           \E i \in DOMAIN chain : First(f, i) /\ res[f] = read[chain[i]][f]
  BY <1>2 DEF ModesInv, Merged
<1>5. CASE doc = Modes!NoDoc
  <2>1. UNCHANGED <<read, chain, res>> /\ pull' = "done"  BY <1>1, <1>3, <1>5
  <2>2. Merged'  BY <1>4, <2>1 DEF Merged, First
  <2>3. QED  BY <1>3, <2>1, <2>2 DEF ModesInv, Modes!ParentOf
<1>6. CASE doc # Modes!NoDoc
  <2>1. /\ DOMAIN res' = {"parent"} \cup DOMAIN res \cup DOMAIN doc
        /\ \A f \in DOMAIN res \ {"parent"} : res'[f] = res[f]
        /\ \A f \in DOMAIN doc \ (DOMAIN res \cup {"parent"}) : res'[f] = doc[f]
        /\ Modes!ParentOf(res') = Modes!ParentOf(doc)
    BY <1>1, <1>6, Composed
  <2>2. (Modes!ParentOf(res) \in Names \cup {"none"})'
    BY <1>3, <2>1 DEF DocOK, Modes!ParentOf
  <2>3. pull' = "follow"  BY <1>1, <1>2, <1>6
  <2>4. Merged'
    <3>1. CASE UNCHANGED <<read, chain>> /\ n \in DOMAIN read /\ doc = read[n]
      <4>1. DOMAIN doc \ {"parent"} \subseteq DOMAIN res  BY <1>4, <3>1
      <4>2. DOMAIN res' \ {"parent"} = DOMAIN res \ {"parent"}  BY <2>1, <4>1
      <4>3. \A f, i : First(f, i)' <=> First(f, i)  BY <3>1 DEF First
      <4>4. \A m \in DOMAIN read' : DOMAIN read'[m] \ {"parent"} \subseteq DOMAIN res'
        BY <1>4, <2>1, <3>1
      <4>5. \A f \in DOMAIN res' \ {"parent"} :
              \E i \in DOMAIN chain' : First(f, i)' /\ res'[f] = read'[chain'[i]][f]
        BY <1>4, <2>1, <3>1, <4>2, <4>3
      <4>6. QED  BY <4>4, <4>5 DEF Merged
    <3>2. CASE /\ n \notin DOMAIN read
               /\ DOMAIN chain' = DOMAIN chain \cup {Len(chain) + 1}
               /\ \A i \in DOMAIN chain : chain'[i] = chain[i] /\ i < Len(chain) + 1
               /\ chain'[Len(chain) + 1] = n
               /\ DOMAIN read' = DOMAIN read \cup {n}
               /\ read'[n] = doc /\ \A m \in DOMAIN read : read'[m] = read[m]
      <4>1. \A m \in DOMAIN read' : DOMAIN read'[m] \ {"parent"} \subseteq DOMAIN res'
        BY <1>4, <2>1, <3>2
      <4>2. ASSUME NEW f \in DOMAIN res' \ {"parent"}
            PROVE  \E i \in DOMAIN chain' : First(f, i)' /\ res'[f] = read'[chain'[i]][f]
        <5>1. CASE f \in DOMAIN res
          <6>1. PICK i \in DOMAIN chain : First(f, i) /\ res[f] = read[chain[i]][f]
            BY <1>4, <5>1
          <6>2. First(f, i)' /\ read'[chain'[i]] = read[chain[i]]
            BY <1>4, <3>2, <6>1, FirstStays
          <6>3. QED  BY <2>1, <3>2, <5>1, <6>1, <6>2
        <5>2. CASE f \notin DOMAIN res
          <6>1. f \in DOMAIN doc /\ res'[f] = doc[f]  BY <2>1, <5>2
          <6>2. \A m \in DOMAIN read : f \notin DOMAIN read[m]  BY <1>4, <5>2
          <6>3. \A j \in DOMAIN chain : chain[j] \in DOMAIN read  BY <1>4 DEF ChainOK
          <6>4. PICK last \in Nat : last = Len(chain) + 1  BY <1>4 DEF ChainOK
          <6>5. \A j \in DOMAIN chain' : j < last => f \notin DOMAIN read'[chain'[j]]
            <7>1. DOMAIN chain' = DOMAIN chain \cup {last}  BY <3>2, <6>4
            <7>2. QED  BY <3>2, <6>2, <6>3, <7>1
          <6>6. First(f, last)'  BY <3>2, <6>1, <6>4, <6>5 DEF First
          <6>7. last \in DOMAIN chain' /\ res'[f] = read'[chain'[last]][f]
            BY <3>2, <6>1, <6>4
          <6>8. QED  BY <6>6, <6>7
        <5>3. QED  BY <5>1, <5>2
      <4>3. QED  BY <4>1, <4>2 DEF Merged
    <3>3. QED  BY <1>3, <1>6, <3>1, <3>2
  <2>5. QED  BY <1>3, <2>2, <2>3, <2>4 DEF ModesInv
<1>7. QED  BY <1>5, <1>6

\* The options that are delivered say what some document says.
OptionsInv == Modes!OptionOf(options, "baseline_mode") \in -1 .. 2

SetupInv == ModesInv /\ OptionsInv

LEMMA OptionKnown ==
  ASSUME ModesInv, pull = "done" PROVE Modes!OptionOf(res, "baseline_mode") \in -1 .. 2
<1>1. CASE "baseline_mode" \notin DOMAIN res  BY <1>1 DEF Modes!OptionOf
<1>2. CASE "baseline_mode" \in DOMAIN res
  <2>1. PICK i \in DOMAIN chain :
          First("baseline_mode", i) /\ res["baseline_mode"] = read[chain[i]]["baseline_mode"]
    BY <1>2 DEF ModesInv, Merged
  <2>2. chain[i] \in DOMAIN read  BY DEF ModesInv, ChainOK
  <2>3. Modes!OptionOf(read[chain[i]], "baseline_mode") \in -1 .. 2
    BY <2>2 DEF ModesInv, ChainOK, DocOK
  <2>4. QED  BY <1>2, <2>1, <2>3 DEF Modes!OptionOf, First
<1>3. QED  BY <1>1, <1>2

LEMMA ModesKept == ASSUME ModesInv, UNCHANGED modes PROVE ModesInv'
<1>1. UNCHANGED <<read, chain, res, pull>>  BY DEF modes
<1>2. ChainOK'  BY <1>1 DEF ModesInv, ChainOK, DocOK, Modes!ParentOf, Modes!OptionOf,
                            Modes!NoDoc, Modes!NoFields
<1>3. Merged'  BY <1>1 DEF ModesInv, Merged, First
<1>4. (Modes!ParentOf(res) \in Names \cup {"none"})'  BY <1>1 DEF ModesInv, Modes!ParentOf
<1>5. (res = Modes!NoDoc)' <=> res = Modes!NoDoc  BY <1>1 DEF Modes!NoDoc, Modes!NoFields
<1>6. QED  BY <1>1, <1>2, <1>3, <1>4, <1>5 DEF ModesInv

LEMMA SetupStep == SetupInv /\ [Next]_vars => SetupInv'
<1> SUFFICES ASSUME SetupInv, [Next]_vars PROVE SetupInv'
  OBVIOUS
<1>1. options' = options => OptionsInv'  BY DEF SetupInv, OptionsInv, Modes!OptionOf
<1>2. options' = <<>> => OptionsInv'
  <2>1. DOMAIN <<>> = {}  OBVIOUS
  <2>2. QED  BY <2>1 DEF OptionsInv, Modes!OptionOf
<1>3. CASE StartCommand
  <2>1. PICK n \in Commanded : Modes!TopLevel(n)  BY <1>3 DEF StartCommand
  <2>2. ModesInv'  BY <2>1, TopLevelStep DEF SetupInv
  <2>3. QED  BY <1>1, <1>3, <2>2 DEF StartCommand, SetupInv
<1>4. CASE PullRunMode
  <2>1. CASE Modes!FollowParent
    BY <1>1, <1>4, <2>1, FollowStep DEF PullRunMode, SetupInv
  <2>2. CASE Modes!NoMoreParents
    <3>1. UNCHANGED <<read, chain, res>> /\ pull = "follow" /\ pull' = "done"
      BY <2>2 DEF Modes!NoMoreParents
    <3>2. ChainOK'  BY <3>1 DEF SetupInv, ModesInv, ChainOK, DocOK, Modes!ParentOf,
                                Modes!OptionOf, Modes!NoDoc, Modes!NoFields
    <3>3. Merged'  BY <3>1 DEF SetupInv, ModesInv, Merged, First
    <3>4. (Modes!ParentOf(res) \in Names \cup {"none"})'
      BY <3>1 DEF SetupInv, ModesInv, Modes!ParentOf
    <3>5. ModesInv'  BY <3>1, <3>2, <3>3, <3>4 DEF ModesInv
    <3>6. QED  BY <1>1, <1>4, <3>5 DEF PullRunMode, SetupInv
  <2>3. QED  BY <1>4, <2>1, <2>2 DEF PullRunMode, Modes!Pulling
<1>5. CASE Deliver
  <2>1. /\ pull' = "idle" /\ read' = Modes!NoFields /\ chain' = <<>> /\ res' = Modes!NoDoc
        /\ options' = IF pull = "done" THEN Modes!Without(res, "parent") ELSE <<>>
    BY <1>5 DEF Deliver
  <2>2. ModesInv'
    <3>1. DOMAIN chain' = {} /\ chain' \in Seq(Names) /\ DOMAIN read' = {}
      BY <2>1, NothingFound
    <3>2. ChainOK'  BY <3>1 DEF ChainOK
    <3>3. Merged'  BY <2>1 DEF Merged
    <3>4. (Modes!ParentOf(res) \in Names \cup {"none"})'
      BY <2>1, NothingFound DEF Modes!ParentOf
    <3>5. (res = Modes!NoDoc)'  BY <2>1 DEF Modes!NoDoc, Modes!NoFields
    <3>6. QED  BY <2>1, <3>2, <3>3, <3>4, <3>5 DEF ModesInv
  <2>3. OptionsInv'
    <3>1. CASE pull = "done"
      <4> DEFINE o == Modes!Without(res, "parent")
      <4>1. DOMAIN o = DOMAIN res \ {"parent"} /\ \A f \in DOMAIN o : o[f] = res[f]
        BY DEF Modes!Without
      <4>2. options' = o  BY <2>1, <3>1
      <4>3. Modes!OptionOf(res, "baseline_mode") \in -1 .. 2
        BY <3>1, OptionKnown DEF SetupInv
      <4> HIDE DEF o
      <4>4. QED  BY <4>1, <4>2, <4>3 DEF OptionsInv, Modes!OptionOf
    <3>2. CASE pull # "done"  BY <1>2, <2>1, <3>2
    <3>3. QED  BY <3>1, <3>2
  <2>4. QED  BY <2>2, <2>3 DEF SetupInv
<1>6. CASE Arm \/ InitializeBoard \/ Prepare \/ Running
  BY <1>1, <1>6, ModesKept DEF Arm, InitializeBoard, Prepare, Running, SetupInv
<1>7. CASE Stop \/ GiveUp
  BY <1>2, <1>7, ModesKept DEF Stop, GiveUp, SetupInv
<1>8. CASE UNCHANGED vars  BY <1>1, <1>8, ModesKept DEF vars, SetupInv
<1>9. QED  BY <1>3, <1>4, <1>5, <1>6, <1>7, <1>8 DEF Next

LEMMA SetupInit == Init => SetupInv
<1> SUFFICES ASSUME Init PROVE SetupInv
  OBVIOUS
<1>1. /\ read = Modes!NoFields /\ chain = <<>> /\ res = Modes!NoDoc /\ pull = "idle"
      /\ options = <<>>
  BY DEF Init, Modes!Init
<1>2. DOMAIN chain = {} /\ chain \in Seq(Names) /\ DOMAIN read = {} /\ DOMAIN options = {}
  BY <1>1, NothingFound
<1>3. ChainOK /\ Merged /\ OptionsInv
  BY <1>1, <1>2 DEF ChainOK, Merged, OptionsInv, Modes!OptionOf
<1>4. Modes!ParentOf(res) \in Names \cup {"none"}  BY <1>1, NothingFound DEF Modes!ParentOf
<1>5. QED  BY <1>1, <1>3, <1>4 DEF SetupInv, ModesInv

LEMMA ModesTypes == ModesInv => Modes!TypeOK
  BY DEF ModesInv, ChainOK, DocOK, Modes!TypeOK

\* A run mode has every field that it or one of its ancestors has, with the value of the
\* nearest one, for any number of generations and also if documents are their own ancestors
\* (PullRunMode, "the magic part").
THEOREM NearestAncestorWins == Spec => []NearestWins
<1>1. SetupInv => NearestWins
  <2> SUFFICES ASSUME SetupInv, pull \in {"follow", "done"},
                      NEW f \in (UNION {DOMAIN read[n] : n \in DOMAIN read}) \ {"parent"}
               PROVE  LET having  == {i \in DOMAIN chain : f \in DOMAIN read[chain[i]]}
                          nearest == CHOOSE i \in having : \A j \in having : i <= j
                      IN f \in DOMAIN res /\ res[f] = read[chain[nearest]][f]
    BY Zenon DEF NearestWins, Modes!NearestWins
  <2> DEFINE having  == {i \in DOMAIN chain : f \in DOMAIN read[chain[i]]}
             nearest == CHOOSE i \in having : \A j \in having : i <= j
  <2>1. f \in DOMAIN res
    <3>1. PICK n \in DOMAIN read : f \in DOMAIN read[n]  OBVIOUS
    <3>2. QED  BY <3>1 DEF SetupInv, ModesInv, Merged
  <2>2. PICK i \in DOMAIN chain : First(f, i) /\ res[f] = read[chain[i]][f]
    BY <2>1 DEF SetupInv, ModesInv, Merged
  <2>3. \A j \in DOMAIN chain : j \in Int  BY DEF SetupInv, ModesInv, ChainOK
  <2>4. i \in having /\ \A j \in having : i <= j  BY <2>2, <2>3 DEF First
  <2>5. nearest \in having /\ \A j \in having : nearest <= j  BY <2>4
  <2>6. nearest = i  BY <2>3, <2>4, <2>5
  <2>7. QED  BY <2>1, <2>2, <2>6
<1>2. QED  BY <1>1, SetupInit, SetupStep, PTL DEF Spec

-----------------------------------------------------------------------------
(* The board.  BaselinesProofs is about the module Baselines, of which RunSetup has an
   instance: the same operators under two names. *)

BP == INSTANCE BaselinesProofs

LEMMA SameValues ==
  /\ BP!MaxDac = Board!MaxDac /\ BP!Dac = Board!Dac /\ BP!Initial = Board!Initial
  /\ BP!routine = Board!routine /\ BP!board = Board!board
  /\ BP!baselineVars = Board!baselineVars
  /\ \A d : BP!Abs(d) = Board!Abs(d) /\ (BP!Near(d) <=> Board!Near(d))
  /\ \A c : BP!Distance(c) = Board!Distance(c)
  /\ \A v, d : BP!Stepped(v, d) = Board!Stepped(v, d)
<1>1. BP!MaxDac = Board!MaxDac  BY DEF BP!MaxDac, Board!MaxDac
<1>2. BP!Dac = Board!Dac  BY <1>1 DEF BP!Dac, Board!Dac
<1>3. BP!Initial = Board!Initial  BY DEF BP!Initial, Board!Initial
<1>4. BP!routine = Board!routine /\ BP!board = Board!board
  BY DEF BP!routine, Board!routine, BP!board, Board!board
<1>5. BP!baselineVars = Board!baselineVars  BY <1>4 DEF BP!baselineVars, Board!baselineVars
<1>6. \A d : BP!Abs(d) = Board!Abs(d)  BY DEF BP!Abs, Board!Abs
<1>7. \A d : BP!Near(d) <=> Board!Near(d)  BY <1>6 DEF BP!Near, Board!Near
<1>8. \A c : BP!Distance(c) = Board!Distance(c)  BY DEF BP!Distance, Board!Distance
<1>9. \A d : BP!StepSize(d) = Board!StepSize(d)  BY <1>6 DEF BP!StepSize, Board!StepSize
<1>10. \A v : BP!Clamp(v) = Board!Clamp(v)  BY <1>1 DEF BP!Clamp, Board!Clamp
<1>11. \A v, d : BP!Stepped(v, d) = Board!Stepped(v, d)
  BY <1>9, <1>10 DEF BP!Stepped, Board!Stepped
<1>12. QED  BY <1>1, <1>2, <1>3, <1>4, <1>5, <1>6, <1>7, <1>8, <1>11

LEMMA SameActions ==
  /\ \A m, b : Board!Initialize(m, b) => BP!Initialize(m, b)
  /\ Board!Initializing => BP!Initializing
  /\ Board!Close => BP!Close
<1>1. \A m, b : Board!Initialize(m, b) => BP!Initialize(m, b)
  BY DEF Board!Initialize, BP!Initialize
<1>2. Board!Fault => BP!Fault  BY DEF Board!Fault, BP!Fault
<1>3. \A v : Board!LoadDAC(v) => BP!LoadDAC(v)  BY DEF Board!LoadDAC, BP!LoadDAC
<1>4. \A v : Board!LoadDACFails(v) => BP!LoadDACFails(v)
  BY <1>2, Zenon DEF Board!LoadDACFails, BP!LoadDACFails
<1>5. \A r : Board!Return(r) => BP!Return(r)  BY Zenon DEF Board!Return, BP!Return
<1>6. Board!AllFinished <=> BP!AllFinished  BY Zenon DEF Board!AllFinished, BP!AllFinished
<1>7. Board!DetermineBaselines => BP!DetermineBaselines
  <2>1. Board!StartRounds => BP!StartRounds
    BY SameValues DEF Board!StartRounds, BP!StartRounds
  <2>2. QED
    BY <1>2, <1>3, <1>4, <1>5, <2>1, Zenon
    DEF Board!DetermineBaselines, BP!DetermineBaselines, BP!board, Board!board
<1>8. \A u, d : Board!Evaluate(u, d) => BP!Evaluate(u, d)
  BY SameValues DEF Board!Evaluate, BP!Evaluate
<1>9. Board!Round => BP!Round
  <2> SUFFICES ASSUME Board!Round PROVE BP!Round
    OBVIOUS
  <2> DEFINE usable == {c \in Channels \ busy : finished[c] < 5}
             dist(n) == [c \in usable |-> Board!Distance(c) + n[c]]
             readings(n) == [c \in usable |-> BP!Distance(c) + n[c]]
  <2>1. PICK n \in [usable -> Noise] :
          \/ Board!Evaluate(usable, dist(n)) /\ Board!LoadDAC(values')
          \/ Board!Evaluate(usable, dist(n)) /\ Board!LoadDACFails(values')
          \/ /\ Board!Fault
             /\ \E c \in usable : Board!Evaluate(usable \ {c}, dist(n)) /\ dac' = values'
    BY Zenon DEF Board!Round
  <2>2. dist(n) = readings(n)  BY SameValues
  <2>3. \/ BP!Evaluate(usable, readings(n)) /\ BP!LoadDAC(values')
        \/ BP!Evaluate(usable, readings(n)) /\ BP!LoadDACFails(values')
        \/ /\ BP!Fault
           /\ \E c \in usable : BP!Evaluate(usable \ {c}, readings(n)) /\ dac' = values'
    <3> DEFINE d == dist(n)
               r == readings(n)
    <3> HIDE DEF usable, dist, readings, d, r
    <3>1. QED  BY <1>2, <1>3, <1>4, <1>8, <2>1, <2>2, Zenon
  <2>4. bl = "rounds" /\ iteration <= MaxIterations /\ ~BP!AllFinished
    BY <1>6 DEF Board!Round
  <2>5. /\ iteration' = iteration + 1
        /\ UNCHANGED <<BP!board, file, bl, tries, ret, loaded, good, unsettled>>
    BY DEF Board!Round, BP!board, Board!board
  <2>6. QED  BY <2>3, <2>4, <2>5, Zenon DEF BP!Round
<1>10. Board!ReadFails => BP!ReadFails
  BY <1>2, <1>6, Zenon DEF Board!ReadFails, BP!ReadFails, BP!board, Board!board
<1>11. Board!WriteBaselines => BP!WriteBaselines
  BY <1>5, <1>6, Zenon DEF Board!WriteBaselines, BP!WriteBaselines, BP!board, Board!board
<1>12. Board!Finish => BP!Finish
  <2>1. Board!LoadBaselines => BP!LoadBaselines
    BY <1>3, <1>4 DEF Board!LoadBaselines, BP!LoadBaselines
  <2>2. Board!Initial = BP!Initial  BY SameValues
  <2>3. QED
    BY <2>1, <2>2 DEF Board!Finish, BP!Finish, BP!board, Board!board
<1>13. Board!Close => BP!Close
  BY DEF Board!Close, BP!Close, BP!board, Board!board, BP!routine, Board!routine
<1>14. Board!Initializing => BP!Initializing
  BY <1>7, <1>9, <1>10, <1>11, <1>12 DEF Board!Initializing, BP!Initializing
<1>15. QED  BY <1>1, <1>13, <1>14

LEMMA BoardParameters == BP!BaselinesParameters
  BY SetupAssumption, SameValues DEF Board!BaselinesParameters, BP!BaselinesParameters

LEMMA BoardSteps == SetupInv /\ [Next]_vars => [Board!Next]_(Board!baselineVars)
<1> SUFFICES ASSUME SetupInv, [Next]_vars PROVE [Board!Next]_(Board!baselineVars)
  OBVIOUS
<1>1. UNCHANGED baselines => UNCHANGED Board!baselineVars
  BY DEF baselines, Board!baselineVars, Board!board, Board!routine
<1>2. CASE Arm
  <2>1. PICK b \in BusySets : Board!Initialize(Modes!OptionOf(options, "baseline_mode"), b)
    BY <1>2 DEF Arm
  <2>2. Modes!OptionOf(options, "baseline_mode") \in -1 .. 2  BY DEF SetupInv, OptionsInv
  <2>3. QED  BY <2>1, <2>2 DEF Board!Next
<1>3. CASE InitializeBoard  BY <1>3 DEF InitializeBoard, Board!Next
<1>4. CASE Stop \/ GiveUp  BY <1>4 DEF Stop, GiveUp, Board!Next
<1>5. CASE StartCommand \/ PullRunMode \/ Deliver \/ Prepare \/ Running
  BY <1>1, <1>5 DEF StartCommand, PullRunMode, Deliver, Prepare, Running
<1>6. CASE UNCHANGED vars  BY <1>1, <1>6 DEF vars
<1>7. QED  BY <1>2, <1>3, <1>4, <1>5, <1>6 DEF Next

\* Whatever run modes, arming and stopping do around it, the board goes through what it can
\* by itself (CBV1724::Initialize is called once for every board object).
THEOREM BoardByItself == Spec => Board!Spec
<1>1. Init => Board!Init  BY DEF Init
<1>2. QED  BY <1>1, SetupInit, SetupStep, BoardSteps, PTL DEF Spec, Board!Spec

LEMMA SameSpec == Board!Spec => BP!Spec
<1>1. Board!Init => BP!Init  BY SameValues DEF Board!Init, BP!Init
<1>2. [Board!Next]_(Board!baselineVars) => [BP!Next]_(BP!baselineVars)
  <2>1. Board!Next => BP!Next  BY SameActions DEF Board!Next, BP!Next
  <2>2. UNCHANGED Board!baselineVars => UNCHANGED BP!baselineVars
    BY DEF Board!baselineVars, Board!board, Board!routine, BP!baselineVars, BP!board, BP!routine
  <2>3. QED  BY <2>1, <2>2
<1>3. QED  BY <1>1, <1>2, PTL DEF Board!Spec, BP!Spec

\* An armed board that loaded the values of a successful determination is near its levels also
\* when the merged run modes decide what it does, under the condition of BaselinesProofs.
THEOREM ArmedBoardsAreGood ==
  ASSUME MaxFaults <= 4 \/ Noise = {0}
  PROVE  Spec => []Board!ArmedBoardIsGood
<1>1. BP!Spec => []BP!ArmedBoardIsGood  BY BoardParameters, BP!ArmedBoardsAreGood
<1>2. BP!ArmedBoardIsGood => Board!ArmedBoardIsGood
  BY SameValues DEF BP!ArmedBoardIsGood, Board!ArmedBoardIsGood
<1>3. QED  BY <1>1, <1>2, BoardByItself, SameSpec, PTL

-----------------------------------------------------------------------------
(* The collections of a run.                                               *)

\* Between two runs nothing is prepared.
IdleInv ==
  prep = "none" => target = Coll!Idle /\ made = {} /\ missing = {} /\ now = 0 /\ began = -1

ClockInv ==
  /\ counter \in Nat /\ at \in Nat
  /\ began <= now /\ (began = -1 => now <= MaxLag)

\* What was made, or failed: all up to the counter of the thread, which runs.
MadeInv ==
  prep = "done" =>
    /\ ~target.rotating => Coll!Targets(target) \X {-1} \subseteq made
    /\ target.rotating =>
         /\ run
         /\ target.hosts # {} =>
              \A a \in Coll!Targets(target) : \A k \in 0 .. counter - 1 :
                <<a, k>> \in made \cup missing

\* The thread makes a collection in no more than 21 s, and is never late.
PaceInv ==
  prep = "done" /\ target.rotating =>
    /\ now <= at
    /\ thread = "awake" => 21 * counter >= at + 42
    /\ thread = "making" => 21 * counter >= at + 22

CollInv == Coll!TypeOK /\ IdleInv /\ ClockInv /\ MadeInv

LEMMA Bounds ==
  /\ MaxMake \in Nat /\ MaxFails \in Nat /\ MaxLag \in Nat /\ MaxTime \in Nat
  /\ MaxLag <= MaxTime
  BY SetupAssumption DEF Coll!CollectionsAssumption

\* What is made first belongs to the targets.
LEMMA FirstOnesOK ==
  ASSUME NEW t
  PROVE  /\ Coll!FirstOnes(t) \subseteq Coll!Targets(t) \X Int
         /\ ~t.rotating => Coll!FirstOnes(t) = Coll!Targets(t) \X {-1}
         /\ t.rotating /\ t.hosts # {} =>
              \A a \in Coll!Targets(t) : \A k \in 0 .. 1 : <<a, k>> \in Coll!FirstOnes(t)
<1>1. CASE t.rotating /\ t.hosts = {}  BY <1>1 DEF Coll!FirstOnes
<1>2. CASE t.rotating /\ t.hosts # {}
  <2>1. Coll!Targets(t) = t.hosts /\ Coll!FirstOnes(t) = t.hosts \X {0, 1}
    BY <1>2 DEF Coll!FirstOnes, Coll!Targets
  <2>2. 0 .. 1 = {0, 1}  OBVIOUS
  <2>3. QED  BY <1>2, <2>1, <2>2
<1>3. CASE ~t.rotating
  <2>1. Coll!FirstOnes(t) = Coll!Targets(t) \X {-1}  BY <1>3 DEF Coll!FirstOnes
  <2>2. QED  BY <1>3, <2>1
<1>4. QED  BY <1>1, <1>2, <1>3

LEMMA InsertStep ==
  ASSUME CollInv, prep = "none", NEW t, DOMAIN t = DOMAIN Coll!Idle, Coll!InsertRunDoc(t)
  PROVE  CollInv' /\ PaceInv'
<1>1. thread = "ended" /\ target' = t /\ now' = 0 /\ began' = -1  BY DEF Coll!InsertRunDoc
<1>2. made = {} /\ missing = {} /\ ~run /\ counter \in Nat /\ at \in Nat
  BY <1>1 DEF CollInv, IdleInv, ClockInv, Coll!TypeOK
<1>3. 0 \in 0 .. MaxTime /\ 0 <= MaxLag /\ -1 \in -1 .. MaxTime  BY Bounds
<1>4. CASE /\ prep' = "done"
           /\ made' = Coll!FirstOnes(t) /\ missing' = {}
           /\ IF t.rotating THEN Coll!StartThread
                            ELSE run' = FALSE /\ UNCHANGED <<thread, counter, at>>
  <2>1. CASE t.rotating
    <3>1. run' = TRUE /\ thread' = "awake" /\ counter' = 2 /\ at' = 0
      BY <1>4, <2>1 DEF Coll!StartThread, Coll!FirstCounter
    <3>2. (Coll!TypeOK)'
      BY <1>1, <1>3, <1>4, <3>1, FirstOnesOK DEF Coll!TypeOK, Coll!Targets, Coll!Idle
    <3>3. IdleInv' /\ ClockInv'  BY <1>1, <1>3, <1>4, <3>1 DEF IdleInv, ClockInv
    <3>4. MadeInv'
      <4>1. 0 .. counter' - 1 = 0 .. 1  BY <3>1
      <4>2. Coll!Targets(target)' = Coll!Targets(t)  BY <1>1 DEF Coll!Targets
      <4>3. t.hosts # {} =>
              \A a \in Coll!Targets(t) : \A k \in 0 .. 1 : <<a, k>> \in made' \cup missing'
        BY <1>4, <2>1, FirstOnesOK
      <4>4. QED  BY <1>1, <2>1, <3>1, <4>1, <4>2, <4>3 DEF MadeInv
    <3>5. PaceInv'  BY <1>1, <3>1 DEF PaceInv
    <3>6. QED  BY <3>2, <3>3, <3>4, <3>5 DEF CollInv
  <2>2. CASE ~t.rotating
    <3>1. run' = FALSE /\ UNCHANGED <<thread, counter, at>>  BY <1>4, <2>2
    <3>2. (Coll!TypeOK)'
      BY <1>1, <1>3, <1>4, <3>1, FirstOnesOK DEF Coll!TypeOK, Coll!Targets, Coll!Idle
    <3>3. IdleInv' /\ ClockInv'  BY <1>1, <1>2, <1>3, <1>4, <3>1 DEF IdleInv, ClockInv
    <3>4. MadeInv'  BY <1>1, <1>4, <2>2, FirstOnesOK DEF MadeInv, Coll!Targets
    <3>5. PaceInv'  BY <1>1, <2>2 DEF PaceInv
    <3>6. QED  BY <3>2, <3>3, <3>4, <3>5 DEF CollInv
  <2>3. QED  BY <2>1, <2>2
<1>5. CASE /\ prep' = "failed" /\ run' = FALSE
           /\ made' \subseteq Coll!FirstOnes(t) \/ made' = made
           /\ UNCHANGED <<missing, thread, counter, at>>
  <2>1. made' \cup missing' \subseteq Coll!Targets(t) \X Int  BY <1>2, <1>5, FirstOnesOK
  <2>2. (Coll!TypeOK)'
    BY <1>1, <1>3, <1>5, <2>1 DEF Coll!TypeOK, Coll!Targets, Coll!Idle
  <2>3. QED
    BY <1>1, <1>2, <1>3, <1>5, <2>2 DEF CollInv, IdleInv, ClockInv, MadeInv, PaceInv
<1>6. QED  BY <1>4, <1>5, Zenon DEF Coll!InsertRunDoc

LEMMA LookStep ==
  ASSUME CollInv, Coll!Look PROVE CollInv' /\ (MaxMake <= 20 /\ PaceInv => PaceInv')
<1>1. /\ thread = "awake" /\ at <= now /\ prep # "none"
      /\ UNCHANGED <<target, prep, made, missing, run, counter, now, began>>
  BY DEF Coll!Look
<1>2. now \in Nat /\ at \in Nat /\ counter \in Nat /\ now \in 0 .. MaxTime
  BY Bounds DEF CollInv, ClockInv, Coll!TypeOK
<1>3. /\ at' \in Nat /\ thread' \in {"ended", "awake", "making"}
      /\ run => thread' # "ended"
      /\ MaxMake <= 20 /\ PaceInv => PaceInv'
  <2>1. CASE ~run
    <3>1. thread' = "ended" /\ at' = at  BY <2>1 DEF Coll!Look
    <3>2. prep = "done" /\ target.rotating => run  BY DEF CollInv, MadeInv
    <3>3. PaceInv'  BY <1>1, <2>1, <3>2 DEF PaceInv
    <3>4. QED  BY <1>2, <2>1, <3>1, <3>3
  <2>2. CASE run /\ ~Coll!Due
    <3>1. thread' = "awake" /\ at' = now + 1  BY <2>2 DEF Coll!Look, Coll!Sleep
    <3>2. 11 * now + 2100 <= 210 * counter  BY <1>2, <2>2 DEF Coll!Due
    <3>3. PaceInv'  BY <1>1, <1>2, <3>1, <3>2 DEF PaceInv
    <3>4. QED  BY <1>2, <3>1, <3>3
  <2>3. CASE run /\ Coll!Due
    <3>1. PICK d \in 0 .. MaxMake : thread' = "making" /\ at' = now + d
      BY <2>3 DEF Coll!Look
    <3>2. d \in Nat /\ d <= MaxMake  BY Bounds
    <3>3. ASSUME MaxMake <= 20, PaceInv PROVE PaceInv'
      <4>1. d <= 20  BY <3>2, <3>3, Bounds
      <4>2. prep = "done" /\ target.rotating => now = at /\ 21 * counter >= at + 42
        BY <1>1, <1>2, <3>3 DEF PaceInv
      <4>3. QED  BY <1>1, <1>2, <3>1, <3>2, <4>1, <4>2 DEF PaceInv
    <3>4. QED  BY <1>2, <3>1, <3>2, <3>3
  <2>4. QED  BY <2>1, <2>2, <2>3
<1>4. (Coll!TypeOK)'
  BY <1>1, <1>3 DEF CollInv, Coll!TypeOK, Coll!Targets, Coll!Idle
<1>5. IdleInv' /\ ClockInv'  BY <1>1, <1>3 DEF CollInv, IdleInv, ClockInv, Coll!Idle
<1>6. MadeInv'  BY <1>1 DEF CollInv, MadeInv, Coll!Targets
<1>7. QED  BY <1>3, <1>4, <1>5, <1>6 DEF CollInv

LEMMA MakeStep == ASSUME CollInv, Coll!Make PROVE CollInv' /\ (PaceInv => PaceInv')
<1> DEFINE new == Coll!Targets(target) \X {counter}
<1>1. /\ thread = "making" /\ at <= now /\ prep # "none"
      /\ counter' = counter + 1 /\ thread' = "awake" /\ at' = now + 1
      /\ UNCHANGED <<target, prep, run, now, began>>
  BY DEF Coll!Make, Coll!Sleep
<1>2. now \in Nat /\ at \in Nat /\ counter \in Nat /\ now \in 0 .. MaxTime
  BY Bounds DEF CollInv, ClockInv, Coll!TypeOK
<1>3. made' \cup missing' = made \cup missing \cup new /\ made \subseteq made'
  <2>1. CASE made' = made \cup new /\ UNCHANGED missing  BY <2>1
  <2>2. CASE \E c \in new : made' = made \cup (new \ {c}) /\ missing' = missing \cup {c}
    BY <2>2
  <2>3. QED  BY <2>1, <2>2, Zenon DEF Coll!Make
<1>4. Coll!Targets(target)' = Coll!Targets(target)  BY <1>1 DEF Coll!Targets
<1>5. (Coll!TypeOK)'
  <2>1. new \subseteq Coll!Targets(target) \X Int  BY <1>2
  <2>2. made' \cup missing' \subseteq Coll!Targets(target) \X Int
    BY <1>3, <2>1 DEF CollInv, Coll!TypeOK
  <2>3. QED  BY <1>1, <1>4, <2>2 DEF CollInv, Coll!TypeOK, Coll!Idle
<1>6. IdleInv' /\ ClockInv'  BY <1>1, <1>2 DEF CollInv, IdleInv, ClockInv
<1>7. MadeInv'
  <2> SUFFICES ASSUME prep = "done" PROVE MadeInv'
    BY <1>1 DEF MadeInv
  <2>1. CASE ~target.rotating
    BY <1>1, <1>3, <1>4, <2>1 DEF CollInv, MadeInv
  <2>2. CASE target.rotating
    <3>1. run'  BY <1>1, <2>2 DEF CollInv, MadeInv
    <3>2. ASSUME target.hosts # {}, NEW a \in Coll!Targets(target), NEW k \in 0 .. counter
          PROVE  <<a, k>> \in made' \cup missing'
      <4>1. CASE k = counter  BY <1>3, <4>1
      <4>2. CASE k # counter
        <5>1. k \in 0 .. counter - 1  BY <1>2, <4>2
        <5>2. QED  BY <1>3, <2>2, <3>2, <5>1 DEF CollInv, MadeInv
      <4>3. QED  BY <4>1, <4>2
    <3>3. 0 .. counter' - 1 = 0 .. counter  BY <1>1, <1>2
    <3>4. QED  BY <1>1, <1>4, <2>2, <3>1, <3>2, <3>3 DEF MadeInv
  <2>3. QED  BY <2>1, <2>2
<1>8. PaceInv => PaceInv'
  <2> SUFFICES ASSUME PaceInv, prep = "done", target.rotating
               PROVE  21 * counter' >= at' + 42 /\ now' <= at'
    BY <1>1 DEF PaceInv
  <2>1. now = at /\ 21 * counter >= at + 22  BY <1>1, <1>2 DEF PaceInv
  <2>2. QED  BY <1>1, <1>2, <2>1
<1>9. QED  BY <1>5, <1>6, <1>7, <1>8 DEF CollInv

LEMMA CollKept ==
  ASSUME CollInv, UNCHANGED collections PROVE CollInv' /\ (PaceInv => PaceInv')
<1>1. UNCHANGED <<target, prep, made, missing, run, thread, counter, at, now, began>>
  BY DEF collections
<1>2. (Coll!TypeOK)'  BY <1>1 DEF CollInv, Coll!TypeOK, Coll!Targets, Coll!Idle
<1>3. IdleInv' /\ ClockInv' /\ MadeInv'
  BY <1>1 DEF CollInv, IdleInv, ClockInv, MadeInv, Coll!Targets, Coll!Idle
<1>4. PaceInv => PaceInv'  BY <1>1 DEF PaceInv
<1>5. QED  BY <1>2, <1>3, <1>4 DEF CollInv

LEMMA RunStep ==
  ASSUME CollInv, Coll!Begin \/ Coll!Tick \/ Coll!Leave
  PROVE  CollInv' /\ (PaceInv => PaceInv')
<1>1. now \in Nat /\ at \in Nat /\ now \in 0 .. MaxTime
  BY Bounds DEF CollInv, ClockInv, Coll!TypeOK
<1>2. CASE Coll!Begin
  <2>1. /\ began' = now /\ prep # "none" /\ now <= MaxLag
        /\ UNCHANGED <<target, prep, made, missing, run, thread, counter, at, now>>
    BY <1>2 DEF Coll!Begin, Coll!collThread
  <2>2. (Coll!TypeOK)'
    BY <1>1, <2>1 DEF CollInv, Coll!TypeOK, Coll!Targets, Coll!Idle
  <2>3. IdleInv' /\ ClockInv' /\ MadeInv'
    BY <1>1, <2>1 DEF CollInv, IdleInv, ClockInv, MadeInv, Coll!Targets
  <2>4. PaceInv => PaceInv'  BY <2>1 DEF PaceInv
  <2>5. QED  BY <2>2, <2>3, <2>4 DEF CollInv
<1>3. CASE Coll!Tick
  <2>1. /\ prep # "none" /\ now < (IF began = -1 THEN MaxLag ELSE MaxTime)
        /\ thread # "ended" => at > now
        /\ now' = now + 1
        /\ UNCHANGED <<target, prep, made, missing, run, thread, counter, at, began>>
    BY <1>3 DEF Coll!Tick, Coll!collThread
  <2>2. now' \in 0 .. MaxTime  BY <1>1, <2>1, Bounds
  <2>3. (Coll!TypeOK)'
    BY <2>1, <2>2 DEF CollInv, Coll!TypeOK, Coll!Targets, Coll!Idle
  <2>4. began' <= now' /\ (began' = -1 => now' <= MaxLag)
    BY <1>1, <2>1, Bounds DEF CollInv, ClockInv, Coll!TypeOK
  <2>5. IdleInv' /\ ClockInv' /\ MadeInv'
    BY <2>1, <2>4 DEF CollInv, IdleInv, ClockInv, MadeInv, Coll!Targets
  <2>6. prep = "done" /\ target.rotating => thread # "ended"
    BY DEF CollInv, MadeInv, Coll!TypeOK
  <2>7. PaceInv => PaceInv'  BY <1>1, <2>1, <2>6 DEF PaceInv
  <2>8. QED  BY <2>3, <2>5, <2>7 DEF CollInv
<1>4. CASE Coll!Leave
  <2>1. /\ ~run /\ thread' = "ended"
        /\ UNCHANGED <<target, prep, made, missing, run, counter, at, now, began>>
    BY <1>4 DEF Coll!Leave
  <2>2. (Coll!TypeOK)'  BY <2>1 DEF CollInv, Coll!TypeOK, Coll!Targets, Coll!Idle
  <2>3. IdleInv' /\ ClockInv' /\ MadeInv'
    BY <2>1 DEF CollInv, IdleInv, ClockInv, MadeInv, Coll!Targets, Coll!Idle
  <2>4. PaceInv => PaceInv'  BY <2>1 DEF CollInv, MadeInv, PaceInv
  <2>5. QED  BY <2>2, <2>3, <2>4 DEF CollInv
<1>5. QED  BY <1>2, <1>3, <1>4

LEMMA EndStep ==
  ASSUME CollInv, NEW marked \in BOOLEAN, Coll!UpdateEndTime(marked) PROVE CollInv' /\ PaceInv'
<1>1. /\ run' = (run /\ ~marked) /\ prep' = "none" /\ target' = Coll!Idle
      /\ made' = {} /\ missing' = {} /\ now' = 0 /\ began' = -1
      /\ at' = 0 /\ counter' = 0 /\ UNCHANGED thread
  BY DEF Coll!UpdateEndTime
<1>2. run' \in BOOLEAN /\ (run' => run)  BY <1>1
<1>3. 0 \in 0 .. MaxTime /\ 0 <= MaxLag /\ -1 \in -1 .. MaxTime /\ 0 \in Nat  BY Bounds
<1>4. (Coll!TypeOK)'
  BY <1>1, <1>2, <1>3 DEF CollInv, Coll!TypeOK, Coll!Targets, Coll!Idle
<1>5. IdleInv'
  <2>1. Coll!Idle' = Coll!Idle  BY DEF Coll!Idle
  <2>2. QED  BY <1>1, <2>1 DEF IdleInv
<1>6. ClockInv'  BY <1>1, <1>3 DEF ClockInv
<1>7. MadeInv' /\ PaceInv'  BY <1>1 DEF MadeInv, PaceInv
<1>8. QED  BY <1>4, <1>5, <1>6, <1>7 DEF CollInv

LEMMA TellStep ==
  ASSUME CollInv, prep = "none", Coll!TellThread PROVE CollInv' /\ PaceInv'
<1>1. /\ run' = FALSE
      /\ UNCHANGED <<target, prep, made, missing, thread, counter, at, now, began>>
  BY DEF Coll!TellThread
<1>2. (Coll!TypeOK)'  BY <1>1 DEF CollInv, Coll!TypeOK, Coll!Targets, Coll!Idle
<1>3. IdleInv' /\ ClockInv' /\ MadeInv' /\ PaceInv'
  BY <1>1 DEF CollInv, IdleInv, ClockInv, MadeInv, PaceInv, Coll!Idle
<1>4. QED  BY <1>2, <1>3 DEF CollInv

LEMMA CollStep ==
  ASSUME CollInv, [Next]_vars PROVE CollInv' /\ (MaxMake <= 20 /\ PaceInv => PaceInv')
<1>1. CASE UNCHANGED collections  BY <1>1, CollKept
<1>2. CASE Prepare
  <2>1. CASE Coll!TellThread  BY <1>2, <2>1, TellStep DEF Prepare
  <2>2. CASE Coll!InsertRunDoc(TargetOf(options))
    <3> DEFINE t == TargetOf(options)
    <3>1. DOMAIN t = DOMAIN Coll!Idle  BY DEF TargetOf, Coll!Idle
    <3> HIDE DEF t
    <3>2. Coll!InsertRunDoc(t) /\ prep = "none"  BY <1>2, <2>2 DEF t, Prepare
    <3>3. QED  BY <3>1, <3>2, InsertStep
  <2>3. QED  BY <1>2, <2>1, <2>2 DEF Prepare
<1>3. CASE Running  BY <1>3, RunStep, LookStep, MakeStep DEF Running
<1>4. CASE Stop
  <2>1. PICK marked \in BOOLEAN : Coll!UpdateEndTime(marked)  BY <1>4 DEF Stop
  <2>2. QED  BY <2>1, EndStep
<1>5. CASE StartCommand \/ PullRunMode \/ Deliver \/ Arm \/ InitializeBoard \/ GiveUp
           \/ UNCHANGED vars
  BY <1>1, <1>5 DEF StartCommand, PullRunMode, Deliver, Arm, InitializeBoard, GiveUp, vars
<1>6. QED  BY <1>2, <1>3, <1>4, <1>5 DEF Next

LEMMA CollInit == Init => CollInv /\ PaceInv
<1> SUFFICES ASSUME Init PROVE CollInv /\ PaceInv
  OBVIOUS
<1>1. /\ target = Coll!Idle /\ prep = "none" /\ made = {} /\ missing = {} /\ run = FALSE
      /\ thread = "ended" /\ counter = 0 /\ at = 0 /\ now = 0 /\ began = -1
  BY DEF Init, Coll!Init
<1>2. 0 \in 0 .. MaxTime /\ 0 <= MaxLag /\ -1 \in -1 .. MaxTime /\ 0 \in Nat  BY Bounds
<1>3. Coll!TypeOK  BY <1>1, <1>2 DEF Coll!TypeOK, Coll!Targets
<1>4. QED  BY <1>1, <1>2, <1>3 DEF CollInv, IdleInv, ClockInv, MadeInv, PaceInv

\* Every variable keeps its type, for any documents that give the baseline mode a value the
\* code knows.
THEOREM TypeCorrect == Spec => []TypeOK
<1>1. SetupInv => Modes!TypeOK  BY ModesTypes DEF SetupInv
<1>2. BP!Spec => []BP!TypeOK  BY BoardParameters, BP!TypeCorrect
<1>3. BP!TypeOK => Board!TypeOK  BY SameValues DEF BP!TypeOK, Board!TypeOK
<1>4. Spec => []Board!TypeOK  BY <1>2, <1>3, BoardByItself, SameSpec, PTL
<1>5. Init => CollInv  BY CollInit
<1>6. CollInv /\ [Next]_vars => CollInv'  BY CollStep
<1>7. CollInv => Coll!TypeOK  BY DEF CollInv
<1>8. Spec => []Modes!TypeOK  BY <1>1, SetupInit, SetupStep, PTL DEF Spec
<1>9. Spec => []Coll!TypeOK  BY <1>5, <1>6, <1>7, PTL DEF Spec
<1>10. Modes!TypeOK /\ Board!TypeOK /\ Coll!TypeOK => TypeOK  BY DEF TypeOK
<1>11. QED  BY <1>4, <1>8, <1>9, <1>10, PTL

\* The readers' clocks are not ahead of the thread: their turns are longer than it takes.
LEMMA ClockBehind ==
  ASSUME NEW s \in Nat, NEW k \in Nat, s <= 21 * k - 22
  PROVE  (100 * s) \div 2147 \in 0 .. k - 1
<1>1. 100 * s < 2147 * k /\ 100 * s \in Nat  OBVIOUS
<1>2. \A a \in Nat, b \in Nat : a < 2147 * b => a \div 2147 \in 0 .. b - 1  OBVIOUS
<1>3. QED  BY <1>1, <1>2

\* Readers find the collection that their count of clock resets names, in any run and however
\* long it lasts, as long as making one takes no more than 20 s: the thread of
\* CollectionThreadWrapper then makes one in 21 s or less, and the clocks turn in 21.47 s.
\* With 21 s it falls behind after a quarter of an hour.
THEOREM CollectionsAreAhead ==
  ASSUME MaxMake <= 20
  PROVE  Spec => []WritesFindCollection
<1>1. CollInv /\ PaceInv => WritesFindCollection
  <2> SUFFICES ASSUME CollInv, PaceInv, prep = "done", began # -1, NEW r \in Readers,
                      target.writes[r] \in Coll!Targets(target),
                      target.rotating => target.hosts # {}
               PROVE  <<target.writes[r], IF target.rotating THEN Coll!Resets ELSE -1>>
                        \in made \cup missing
    BY DEF WritesFindCollection, Coll!WritesFindCollection
  <2>1. CASE ~target.rotating  BY <2>1 DEF CollInv, MadeInv
  <2>2. CASE target.rotating
    <3>1. run /\ thread \in {"awake", "making"}
      BY <2>2 DEF CollInv, MadeInv, Coll!TypeOK
    <3>2. /\ now \in Nat /\ at \in Nat /\ counter \in Nat
          /\ began \in Nat /\ began <= now
      BY Bounds DEF CollInv, ClockInv, Coll!TypeOK
    <3>3. now - began \in Nat /\ now - began <= 21 * counter - 22
      BY <2>2, <3>1, <3>2 DEF PaceInv
    <3>4. Coll!Resets \in 0 .. counter - 1  BY <3>2, <3>3, ClockBehind DEF Coll!Resets
    <3>5. QED  BY <2>2, <3>4 DEF CollInv, MadeInv
  <2>3. QED  BY <2>1, <2>2
<1>2. Init => CollInv /\ PaceInv  BY CollInit
<1>3. (CollInv /\ PaceInv) /\ [Next]_vars => (CollInv /\ PaceInv)'  BY CollStep
<1>4. QED  BY <1>1, <1>2, <1>3, PTL DEF Spec
==============================================================================
