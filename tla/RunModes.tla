------------------------------- MODULE RunModes -------------------------------
(***************************************************************************)
(* Run modes: the option documents of the collection run_modes, merged     *)
(* with their parents by MasterMongodbConnection::PullRunMode when a Start *)
(* command names one, and what koOptions makes of the result: the copy     *)
(* that goes to a reader and the database that both sides read from it.    *)
(*                                                                         *)
(* A document is a function from the names of its fields to their values;  *)
(* nested documents such as "mongo" are values of their own, as the merge  *)
(* looks at top-level fields only.                                         *)
(***************************************************************************)
EXTENDS Integers, Sequences

CONSTANTS
  Names,    \* names a document may have or refer to
  Contents, \* what documents may hold besides the field parent: a set of functions
  Cyclic    \* documents may be their own ancestors

\* Assumed by RunSetup.
ModesAssumption ==
  /\ "none" \notin Names
  /\ \A c \in Contents : DOMAIN c # {} /\ "parent" \notin DOMAIN c
  /\ Cyclic \in BOOLEAN

VARIABLES
  read,  \* the documents that were looked up, by name (NoDoc: there is none)
  chain, \* history: their names in the order of the lookups
  res,   \* the document being made
  pull   \* where PullRunMode is: idle, follow, failed, done

modeVars == <<read, chain, res, pull>>

NoFields == [f \in {} |-> {}]
NoDoc    == NoFields   \* findOne found nothing: a document without fields
Field(f, v) == [g \in {f} |-> v]

\* BSONObjBuilder::appendElementsUnique: what is there already stays.
AppendUnique(first, second) ==
  [f \in DOMAIN first \cup DOMAIN second |-> IF f \in DOMAIN first THEN first[f] ELSE second[f]]

Without(doc, f) == [g \in DOMAIN doc \ {f} |-> doc[g]]

\* koOptions::SetString and SetInt.
SetField(options, f, v) == AppendUnique(Field(f, v), options)

\* What may be found under the name n: nothing, or a document that refers to no parent, to
\* "none" or to a name that was not looked up on the way (to any if Cyclic).
Parents(n) == {"none"} \cup {m \in Names : Cyclic \/ m \notin DOMAIN read \cup {n}}
Docs(n) ==
  {NoDoc} \cup Contents
    \cup {AppendUnique(Field("parent", m), c) : m \in Parents(n), c \in Contents}

\* findOne: nobody edits a run mode while it is looked up.
Found(n) == IF n \in DOMAIN read THEN {read[n]} ELSE Docs(n)

\* History: the documents that were found, each once.
Remember(n, doc) ==
  IF n \in DOMAIN read \/ doc = NoDoc THEN UNCHANGED <<read, chain>>
  ELSE /\ read' = AppendUnique(read, Field(n, doc))
       /\ chain' = Append(chain, n)

Init ==
  /\ read = NoFields
  /\ chain = <<>>
  /\ res = NoDoc
  /\ pull = "idle"

-----------------------------------------------------------------------------
(***************************************************************************)
(* PullRunMode.                                                            *)
(***************************************************************************)

\* The run mode that the command names.
TopLevel(n) ==
  /\ pull = "idle"
  /\ \E doc \in Found(n) :
       /\ Remember(n, doc)
       /\ res' = doc
       /\ pull' = IF doc = NoDoc THEN "failed" ELSE "follow"

HasParent == "parent" \in DOMAIN res /\ res["parent"] # "none"

ParentOf(doc) == IF "parent" \in DOMAIN doc THEN doc["parent"] ELSE "none"

\* A bug for the mutation runs: the parent's fields go first.
CompositeParentFirst(child, parent) ==
  AppendUnique(Field("parent", ParentOf(parent)), AppendUnique(parent, child))

\* A bug for the mutation runs: the child's own field parent stays.
CompositeKeepsParent(child, parent) ==
  AppendUnique(AppendUnique(child, parent), Field("parent", ParentOf(parent)))

\* "The magic part": the next parent, then the fields that the child has, then the others.
Composite(child, parent) ==
  AppendUnique(Field("parent", ParentOf(parent)), AppendUnique(child, parent))

\* One round of the loop.  An empty parent ends it, and is allowed.
FollowParent ==
  /\ pull = "follow" /\ HasParent
  /\ \E doc \in Found(res["parent"]) :
       /\ Remember(res["parent"], doc)
       /\ IF doc = NoDoc THEN pull' = "done" /\ UNCHANGED res
                         ELSE res' = Composite(res, doc) /\ UNCHANGED pull

NoMoreParents ==
  /\ pull = "follow" /\ ~HasParent
  /\ pull' = "done"
  /\ UNCHANGED <<read, chain, res>>

Pulling == NoMoreParents \/ FollowParent

-----------------------------------------------------------------------------
(***************************************************************************)
(* What the options mean.                                                  *)
(***************************************************************************)
\* HasField and GetInt: -1 stands for a field that is not there.
OptionOf(options, f) == IF f \in DOMAIN options THEN options[f] ELSE -1

\* GetMongoOptions, as far as it says where to write: an address that is not there is "".
MongoOptions(options) ==
  LET mongo == IF "mongo" \in DOMAIN options THEN options["mongo"] ELSE NoFields
  IN [address |-> IF "address" \in DOMAIN mongo THEN mongo["address"] ELSE "",
      hosts   |-> IF "hosts" \in DOMAIN mongo THEN mongo["hosts"] ELSE NoFields]

\* ToStream_MongoUpdate: the copy for a reader, with its own host when it has one.
ForReader(options, r) ==
  LET mongo == IF "mongo" \in DOMAIN options THEN options["mongo"] ELSE NoFields
      hosts == MongoOptions(options).hosts
  IN SetField(options, "mongo",
              IF r \in DOMAIN hosts THEN SetField(mongo, "address", hosts[r]) ELSE mongo)

-----------------------------------------------------------------------------
(***************************************************************************)
(* Properties.                                                             *)
(***************************************************************************)
TypeOK ==
  /\ DOMAIN read = {chain[i] : i \in DOMAIN chain} /\ DOMAIN read \subseteq Names
  /\ \A n \in DOMAIN read : read[n] # NoDoc /\ ParentOf(read[n]) \in Names \cup {"none"}
  /\ pull \in {"idle", "follow", "failed", "done"}
  /\ pull \in {"idle", "failed"} => res = NoDoc

\* The rule written beside the loop, and more than one step of it: whatever the number of
\* ancestors, the merged document has every field that any of them has, with the value of the
\* nearest one.
NearestWins ==
  \A f \in (UNION {DOMAIN read[n] : n \in DOMAIN read}) \ {"parent"} :
    LET having  == {i \in DOMAIN chain : f \in DOMAIN read[chain[i]]}
        nearest == CHOOSE i \in having : \A j \in having : i <= j
    IN pull \in {"follow", "done"} => f \in DOMAIN res /\ res[f] = read[chain[nearest]][f]

\* PullRunMode returns, on documents that are not their own ancestors.
PullReturns == pull = "follow" ~> pull = "done"
=============================================================================
