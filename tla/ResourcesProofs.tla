-------------------------- MODULE ResourcesProofs --------------------------
(***************************************************************************)
(* Theorems of what surrounds the conversations.                           *)
(***************************************************************************)
EXTENDS SettingsFiles, Sessions, ProjectFiles, WorkflowStore, KnowledgeDocuments,
        ModelSettings, FiniteSetTheorems, WellFoundedInduction, TLAPS

-----------------------------------------------------------------------------
(* The lists of the settings: orders *)

\* Orders of finitely many entries, and those of folders that are numbered without a gap.
Orders == {order \in UNION {[D -> Nat] : D \in SUBSET Entries} : IsFiniteSet(DOMAIN order)}
Numbered(order) == {order[f] : f \in DOMAIN order} = 0..(Cardinality(DOMAIN order) - 1)

LEMMA OrderType ==
    ASSUME NEW order \in Orders
    PROVE  /\ DOMAIN order \subseteq Entries /\ IsFiniteSet(DOMAIN order)
           /\ order \in [DOMAIN order -> Nat] /\ Cardinality(DOMAIN order) \in Nat
<1>1. PICK D \in SUBSET Entries : order \in [D -> Nat]
  BY DEF Orders
<1>2. DOMAIN order = D /\ IsFiniteSet(DOMAIN order)
  BY <1>1 DEF Orders
<1> QED
  BY <1>1, <1>2, FS_CardinalityType

LEMMA IsOrder ==
    ASSUME NEW D \in SUBSET Entries, IsFiniteSet(D), NEW order \in [D -> Nat]
    PROVE  order \in Orders /\ DOMAIN order = D
<1>1. DOMAIN order = D
  OBVIOUS
<1> QED
  BY <1>1 DEF Orders

LEMMA EmptyOrder == <<>> \in Orders /\ Numbered(<<>>)
<1>1. <<>> \in [{} -> Nat] /\ DOMAIN <<>> = {}
  OBVIOUS
<1>2. IsFiniteSet({}) /\ Cardinality({}) = 0
  BY FS_EmptySet
<1>3. {} \in SUBSET Entries
  OBVIOUS
<1>4. <<>> \in Orders
  BY <1>1, <1>2, <1>3, IsOrder
<1> QED
  BY <1>1, <1>2, <1>4 DEF Numbered

\* A new entry is listed, the last one if it is a folder.
LEMMA AddedRight ==
    ASSUME NEW order \in Orders, NEW id \in Entries, id \notin DOMAIN order
    PROVE  /\ Added(order, id) \in Orders
           /\ kind = "folders" /\ Numbered(order) => Numbered(Added(order, id))
<1> DEFINE D == DOMAIN order
           place == IF kind = "folders" THEN Cardinality(D) ELSE 0
           new == Added(order, id)
<1>1. D \subseteq Entries /\ IsFiniteSet(D) /\ order \in [D -> Nat] /\ Cardinality(D) \in Nat
  BY OrderType
<1>2. new = [e \in D \cup {id} |-> IF e # id THEN order[e] ELSE place]
  BY DEF Added
<1>3. IsFiniteSet(D \cup {id}) /\ Cardinality(D \cup {id}) = Cardinality(D) + 1
  BY <1>1, FS_AddElement
<1>4. new \in [D \cup {id} -> Nat]
  BY <1>1, <1>2
<1>5. new \in Orders /\ DOMAIN new = D \cup {id}
  BY <1>1, <1>3, <1>4, IsOrder
<1>6. ASSUME kind = "folders", Numbered(order)
      PROVE  Numbered(new)
  <2>1. new[id] = Cardinality(D) /\ \A e \in D : new[e] = order[e]
    BY <1>2, <1>6
  <2>2. {order[e] : e \in D} = 0..(Cardinality(D) - 1)
    BY <1>6 DEF Numbered
  <2>3. {new[e] : e \in D \cup {id}} = {order[e] : e \in D} \cup {Cardinality(D)}
    BY <2>1
  <2>4. {new[e] : e \in D \cup {id}} = 0..((Cardinality(D) + 1) - 1)
    <3>1. \A n \in Nat : (0..(n - 1)) \cup {n} = 0..((n + 1) - 1)
      OBVIOUS
    <3> QED
      BY <1>1, <2>2, <2>3, <3>1, Zenon
  <2> QED
    BY <2>4, <1>3, <1>5 DEF Numbered
<1> QED
  BY <1>5, <1>6

\* Numbering is one to one.
LEMMA NumberedOnce ==
    ASSUME NEW order \in Orders, Numbered(order)
    PROVE  /\ \A e \in DOMAIN order : order[e] \in 0..(Cardinality(DOMAIN order) - 1)
           /\ \A k \in 0..(Cardinality(DOMAIN order) - 1) :
                 \E e \in DOMAIN order : order[e] = k
           /\ \A e, f \in DOMAIN order : order[e] = order[f] => e = f
<1> DEFINE D == DOMAIN order
           n == Cardinality(D)
<1>1. IsFiniteSet(D) /\ order \in [D -> Nat] /\ n \in Nat
  BY OrderType
<1>2. {order[e] : e \in D} = 0..(n - 1)
  BY DEF Numbered
<1>3. /\ \A e \in D : order[e] \in 0..(n - 1)
      /\ \A k \in 0..(n - 1) : \E e \in D : order[e] = k
  BY <1>2
<1>4. order \in Surjection(D, 0..(n - 1))
  BY <1>1, <1>3 DEF Surjection
<1> HIDE DEF n
<1>5. Cardinality(0..(n - 1)) = n
  <2>1. n \in Nat /\ n - 1 \in Int
    BY <1>1
  <2> QED
    BY <2>1, FS_Interval
<1>6. order \in Injection(D, 0..(n - 1))
  BY <1>1, <1>4, <1>5, FS_SurjSameCardinalityImpliesInj DEF n
<1>7. \A e, f \in D : order[e] = order[f] => e = f
  BY <1>1, <1>6, Zenon DEF Injection, IsInjective
<1> QED
  BY <1>3, <1>7 DEF n

\* As many are before an entry as its number says.
LEMMA Before ==
    ASSUME NEW order \in Orders, Numbered(order), NEW e \in DOMAIN order
    PROVE  LET before == {g \in DOMAIN order : order[g] < order[e]}
           IN  IsFiniteSet(before) /\ Cardinality(before) = order[e]
<1> DEFINE D == DOMAIN order
           n == Cardinality(D)
           before == {g \in D : order[g] < order[e]}
           number == [g \in before |-> order[g]]
           first == 0..(order[e] - 1)
<1>1. IsFiniteSet(D) /\ order \in [D -> Nat] /\ n \in Nat
  BY OrderType
<1>2. IsFiniteSet(before)
  BY <1>1, FS_Subset
<1>3. order[e] \in 0..(n - 1)
  BY NumberedOnce
<1>4. number \in [before -> first]
  BY <1>1
<1>5. ASSUME NEW k \in first
      PROVE  \E g \in before : number[g] = k
  <2>1. k \in 0..(n - 1)
    BY <1>1, <1>3
  <2>2. PICK g \in D : order[g] = k
    BY <2>1, NumberedOnce
  <2>3. g \in before
    BY <1>3, <2>2
  <2> QED
    BY <2>2, <2>3
<1>6. \A g, h \in before : number[g] = number[h] => g = h
  BY NumberedOnce
<1> HIDE DEF number, first
<1>7. number \in Bijection(before, first)
  <2>1. DOMAIN number = before
    BY DEF number
  <2> QED
    BY <1>4, <1>5, <1>6, <2>1 DEF Bijection, Injection, IsInjective, Surjection
<1>8. Cardinality(first) = Cardinality(before)
  BY <1>2, <1>7, FS_Bijection DEF ExistsBijection
<1>9. Cardinality(first) = order[e]
  <2>1. order[e] \in Nat /\ order[e] - 1 \in Int
    BY <1>1
  <2> HIDE DEF D
  <2> QED
    BY <2>1, FS_Interval DEF first
<1> QED
  BY <1>2, <1>8, <1>9

\* What is left after a removal is numbered anew.
LEMMA RemovedRight ==
    ASSUME NEW order \in Orders, NEW id \in DOMAIN order
    PROVE  /\ Removed(order, id) \in Orders
           /\ Numbered(order) => Numbered(Removed(order, id))
<1> DEFINE D == DOMAIN order
           n == Cardinality(D)
           rest == D \ {id}
           ahead(e) == {g \in rest : order[g] < order[e]}
           new == Removed(order, id)
<1>1. D \subseteq Entries /\ IsFiniteSet(D) /\ order \in [D -> Nat] /\ n \in Nat
  BY OrderType
<1>2. IsFiniteSet(rest) /\ Cardinality(rest) = n - 1
  BY <1>1, FS_RemoveElement
<1>3. new = [e \in rest |-> Cardinality(ahead(e))]
  BY DEF Removed
<1>4. \A e \in rest : Cardinality(ahead(e)) \in Nat
  <2>1. ASSUME NEW e \in rest
        PROVE  IsFiniteSet(ahead(e))
    BY <1>2, FS_Subset
  <2> QED
    BY <2>1, FS_CardinalityType
<1>5. new \in [rest -> Nat]
  BY <1>3, <1>4
<1>6. new \in Orders /\ DOMAIN new = rest
  BY <1>1, <1>2, <1>5, IsOrder
<1>7. ASSUME Numbered(order)
      PROVE  Numbered(new)
  <2>1. ASSUME NEW e \in rest
        PROVE  new[e] = IF order[id] < order[e] THEN order[e] - 1 ELSE order[e]
    <3> DEFINE before == {g \in D : order[g] < order[e]}
    <3>1. IsFiniteSet(before) /\ Cardinality(before) = order[e]
      BY <1>7, Before
    <3>2. ahead(e) = before \ {id}
      OBVIOUS
    <3>3. id \in before <=> order[id] < order[e]
      OBVIOUS
    <3>4. Cardinality(before \ {id}) =
             IF id \in before THEN Cardinality(before) - 1 ELSE Cardinality(before)
      BY <3>1, FS_RemoveElement
    <3>5. new[e] = Cardinality(before \ {id})
      BY <1>3, <3>2
    <3> QED
      BY <3>1, <3>3, <3>4, <3>5
  <2>2. /\ \A e \in D : order[e] \in 0..(n - 1)
        /\ \A k \in 0..(n - 1) : \E e \in D : order[e] = k
        /\ \A e, f \in D : order[e] = order[f] => e = f
    BY <1>7, NumberedOnce
  <2> HIDE DEF new, n
  <2>3. ASSUME NEW e \in rest
        PROVE  new[e] \in 0..(n - 2)
    <3>1. order[e] # order[id] /\ order[e] \in 0..(n - 1) /\ order[id] \in 0..(n - 1)
      BY <2>2
    <3> QED
      BY <1>1, <2>1, <3>1
  <2>4. ASSUME NEW k \in 0..(n - 2)
        PROVE  \E e \in rest : new[e] = k
    <3>1. order[id] \in 0..(n - 1)
      BY <2>2
    <3>2. CASE k < order[id]
      <4>1. k \in 0..(n - 1)
        BY <1>1
      <4>2. PICK e \in D : order[e] = k
        BY <2>2, <4>1
      <4>3. e \in rest /\ new[e] = k
        BY <2>1, <3>1, <3>2, <4>2
      <4> QED
        BY <4>3
    <3>3. CASE k >= order[id]
      <4>1. k + 1 \in 0..(n - 1)
        BY <1>1
      <4>2. PICK e \in D : order[e] = k + 1
        BY <2>2, <4>1
      <4>3. e \in rest /\ new[e] = k
        BY <2>1, <3>1, <3>3, <4>2
      <4> QED
        BY <4>3
    <3> QED
      BY <3>1, <3>2, <3>3
  <2>5. {new[e] : e \in rest} = 0..(n - 2)
    BY <2>3, <2>4
  <2>6. 0..(n - 2) = 0..(Cardinality(DOMAIN new) - 1)
    BY <1>1, <1>2, <1>6
  <2> QED
    BY <1>6, <2>5, <2>6 DEF Numbered
<1> QED
  BY <1>6, <1>7

\* So is a folder that goes to another place among them.
LEMMA MovedRight ==
    ASSUME NEW order \in Orders, NEW id \in DOMAIN order, NEW to \in Nat,
           to < Cardinality(DOMAIN order)
    PROVE  /\ Numbered(order) => Moved(order, id, to) \in Orders
           /\ Numbered(order) => Numbered(Moved(order, id, to))
<1> DEFINE D == DOMAIN order
           n == Cardinality(D)
           old == order[id]
           new == Moved(order, id, to)
<1>1. D \subseteq Entries /\ IsFiniteSet(D) /\ order \in [D -> Nat] /\ n \in Nat
  BY OrderType
<1> SUFFICES ASSUME Numbered(order) PROVE new \in Orders /\ Numbered(new)
  OBVIOUS
<1>2. /\ \A e \in D : order[e] \in 0..(n - 1)
      /\ \A k \in 0..(n - 1) : \E e \in D : order[e] = k
  BY NumberedOnce
<1>3. new = [e \in D |-> IF e = id THEN to
                         ELSE IF old < order[e] /\ order[e] <= to THEN order[e] - 1
                         ELSE IF to <= order[e] /\ order[e] < old THEN order[e] + 1
                         ELSE order[e]]
  BY DEF Moved
<1>4. \A e \in D : new[e] = IF e = id THEN to
                            ELSE IF old < order[e] /\ order[e] <= to THEN order[e] - 1
                            ELSE IF to <= order[e] /\ order[e] < old THEN order[e] + 1
                            ELSE order[e]
  BY <1>3
<1> HIDE DEF new, n
<1>5. old \in 0..(n - 1) /\ to \in 0..(n - 1)
  BY <1>1, <1>2 DEF n
<1>6. ASSUME NEW e \in D
      PROVE  new[e] \in 0..(n - 1)
  BY <1>1, <1>2, <1>4, <1>5
<1>7. ASSUME NEW k \in 0..(n - 1)
      PROVE  \E e \in D : new[e] = k
  <2>1. CASE k = to
    BY <1>4, <2>1
  <2>2. CASE old <= k /\ k < to
    <3>1. PICK e \in D : order[e] = k + 1
      BY <1>1, <1>2, <1>5, <2>2
    <3>2. new[e] = k
      BY <1>4, <1>5, <2>2, <3>1
    <3> QED
      BY <3>2
  <2>3. CASE to < k /\ k <= old
    <3>1. PICK e \in D : order[e] = k - 1
      BY <1>1, <1>2, <1>5, <2>3
    <3>2. new[e] = k
      BY <1>4, <1>5, <2>3, <3>1
    <3> QED
      BY <3>2
  <2>4. CASE (k < old \/ k > to) /\ (k > old \/ k < to)
    <3>1. PICK e \in D : order[e] = k
      BY <1>2
    <3>2. new[e] = k
      BY <1>4, <1>5, <2>4, <3>1
    <3> QED
      BY <3>2
  <2> QED
    BY <1>5, <2>1, <2>2, <2>3, <2>4
<1>8. {new[e] : e \in D} = 0..(n - 1)
  BY <1>6, <1>7
<1>9. new \in [D -> Nat]
  BY <1>3, <1>6
<1>10. new \in Orders /\ DOMAIN new = D
  BY <1>1, <1>9, IsOrder
<1> QED
  BY <1>8, <1>10 DEF Numbered, n

-----------------------------------------------------------------------------
(* The lists of the settings: types *)

Contents == [is : {"whole", "blank", "damaged"}, order : Orders, default : Entries \cup {None}]
Savers == [pc : {"idle", "look", "open", "close", "replace"}, new : Contents \cup {None},
           id : Entries \cup {None}, handle : Inodes \cup {None}]

ListsTyped ==
    /\ kind \in {"assistants", "templates", "folders"}
    /\ path \in [main : Inodes, temp : Inodes \cup {None}]
    /\ data \in [Inodes -> Contents]
    /\ task \in [Tasks -> Savers]
    /\ ops \in Nat /\ crossed \in BOOLEAN

\* The list a request saves is whole, and its folders are numbered.
Proper(list) ==
    /\ list \in Contents /\ list.is = "whole"
    /\ kind = "folders" => Numbered(list.order)
SavesProper == \A t \in Tasks : task[t].pc # "idle" => Proper(task[t].new)

\* Assistants and templates: the file beside the list is another one, and if only one
\* request is at it, it is the one that request has open.
Saving(t) == task[t].pc \in {"close", "replace"}
Beside ==
    kind # "folders" =>
        /\ path.temp # path.main
        /\ \A t \in Tasks : task[t].pc = "close" => task[t].handle \in Inodes
        /\ ~crossed =>
              /\ data[path.main].is = "whole"
              /\ \A t, u \in Tasks : Saving(t) /\ Saving(u) => t = u
              /\ \A t \in Tasks :
                    /\ task[t].pc = "close" =>
                          /\ path.temp = task[t].handle
                          /\ data[task[t].handle] = Blank
                    /\ task[t].pc = "replace" =>
                          path.temp # None /\ data[path.temp].is = "whole"

\* Folders: their file is the only one, and it is proper whenever it is whole.
InPlace ==
    kind = "folders" =>
        /\ \A t \in Tasks : task[t].pc \in {"idle", "open", "close"}
        /\ \A t \in Tasks : task[t].pc = "close" => task[t].handle = path.main
        /\ data[path.main].is = "whole" => Numbered(data[path.main].order)

ListsInv == ListsTyped /\ SavesProper /\ Beside /\ InPlace

LEMMA ListsRight == ListsInv => ListsWhole
<1> SUFFICES ASSUME ListsInv PROVE ListsWhole
  OBVIOUS
<1>1. SavesAreAtomic
  BY DEF ListsInv, Beside, SavesAreAtomic, Stored
<1>2. FoldersNumbered
  BY DEF ListsInv, InPlace, FoldersNumbered, Stored, Listed, Numbered
<1> QED
  BY <1>1, <1>2 DEF ListsWhole

LEMMA InodesHere == 0 \in Inodes /\ None \notin Inodes /\ Inodes \subseteq Nat
<1>1. Cardinality(Tasks) \in Nat
  BY ListsAssumption, FS_CardinalityType
<1> QED
  BY <1>1, ListsAssumption DEF Inodes

LEMMA ConstantContents ==
    /\ Blank \in Contents /\ Damaged \in Contents /\ AtRest \in Savers
    /\ Blank.is = "blank" /\ Damaged.is = "damaged" /\ Blank # Damaged
    /\ AtRest.pc = "idle"
    /\ \A order \in Orders, default \in Entries \cup {None} :
          /\ Whole(order, default) \in Contents /\ Whole(order, default).is = "whole"
          /\ Whole(order, default).order = order
<1>1. Blank \in Contents /\ Damaged \in Contents /\ Blank.is = "blank" /\ Damaged.is = "damaged"
  BY EmptyOrder DEF Blank, Damaged, Contents
<1>2. AtRest \in Savers /\ AtRest.pc = "idle"
  BY DEF AtRest, Savers
<1>3. ASSUME NEW order \in Orders, NEW default \in Entries \cup {None}
      PROVE  /\ Whole(order, default) \in Contents /\ Whole(order, default).is = "whole"
             /\ Whole(order, default).order = order
  BY DEF Whole, Contents
<1> QED
  BY <1>1, <1>2, <1>3

LEMMA ListsInitRight == ListsInit => ListsInv
<1> SUFFICES ASSUME ListsInit PROVE ListsInv
  OBVIOUS
<1>1. Whole(<<>>, None) \in Contents /\ Whole(<<>>, None).is = "whole"
      /\ Whole(<<>>, None).order = <<>>
  BY EmptyOrder, ConstantContents
<1>2. data \in [Inodes -> Contents] /\ data[0] = Whole(<<>>, None)
  BY <1>1, InodesHere, ConstantContents DEF ListsInit
<1>3. task \in [Tasks -> Savers] /\ \A t \in Tasks : task[t].pc = "idle"
  BY ConstantContents DEF ListsInit
<1>4. ListsTyped
  BY <1>2, <1>3, InodesHere DEF ListsInit, ListsTyped
<1>5. SavesProper
  BY <1>3 DEF SavesProper
<1>6. path.main = 0 /\ path.temp = None
  BY DEF ListsInit
<1>7. Beside
  BY <1>1, <1>2, <1>3, <1>6, InodesHere DEF Beside, Saving
<1>8. InPlace
  BY <1>1, <1>2, <1>3, <1>6, EmptyOrder DEF InPlace
<1> QED
  BY <1>4, <1>5, <1>7, <1>8 DEF ListsInv

-----------------------------------------------------------------------------
(* The lists of the settings: steps *)

\* A step that changes one request, and no file.
LEMMA SaverMoves ==
    ASSUME ListsInv, NEW t \in Tasks, NEW r \in Savers, task' = [task EXCEPT ![t] = r],
           UNCHANGED <<kind, path, data, crossed>>, ops' \in Nat,
           r.pc \in {"idle", "look", "open"}, r.pc = "look" => kind # "folders",
           r.pc # "idle" => Proper(r.new)
    PROVE  ListsInv'
<1>1. /\ task' \in [Tasks -> Savers] /\ task'[t] = r
      /\ \A u \in Tasks \ {t} : task'[u] = task[u]
  BY DEF ListsInv, ListsTyped
<1>2. ListsTyped'
  BY <1>1 DEF ListsInv, ListsTyped
<1>3. \A list : Proper(list)' <=> Proper(list)
  BY DEF Proper, Numbered
<1>4. SavesProper'
  BY <1>1, <1>3 DEF ListsInv, SavesProper
<1>5. \A u \in Tasks : Saving(u)' => u # t /\ Saving(u)
  BY <1>1 DEF Saving
<1>6. Beside'
  BY <1>1, <1>5 DEF ListsInv, Beside, Saving
<1>7. InPlace'
  BY <1>1 DEF ListsInv, InPlace, Numbered
<1> QED
  BY <1>2, <1>4, <1>6, <1>7 DEF ListsInv

LEMMA WillSaveKeeps ==
    ASSUME ListsInv, NEW t \in Tasks, NEW list, Proper(list), NEW pc \in {"look", "open"},
           pc = "look" => kind # "folders", NEW id \in Entries, WillSave(t, list, pc, id)
    PROVE  ListsInv'
<1> DEFINE r == [AtRest EXCEPT !.pc = pc, !.new = list, !.id = id]
<1>1. r \in Savers /\ r.pc = pc /\ r.new = list
  BY ConstantContents DEF Savers, Proper
<1>2. /\ task' = [task EXCEPT ![t] = r] /\ UNCHANGED <<kind, path, data, crossed>>
      /\ ops' = ops + 1
  BY DEF WillSave
<1>3. ops' \in Nat
  BY <1>2 DEF ListsInv, ListsTyped
<1> HIDE DEF r
<1> QED
  BY <1>1, <1>2, <1>3, SaverMoves

\* What a request makes of a list that can be read.
LEMMA StoredProper ==
    ASSUME ListsInv, Readable
    PROVE  /\ Stored.order \in Orders /\ Stored.default \in Entries \cup {None}
           /\ kind = "folders" => Numbered(Stored.order)
BY DEF ListsInv, ListsTyped, InPlace, Contents, Stored, Readable

LEMMA ProperWhole ==
    ASSUME NEW order \in Orders, NEW default \in Entries \cup {None},
           kind = "folders" => Numbered(order)
    PROVE  Proper(Whole(order, default))
BY ConstantContents DEF Proper

LEMMA AddKeeps ==
    ASSUME ListsInv, NEW t \in Tasks, NEW id \in Entries, AddEntry(t, id)
    PROVE  ListsInv'
<1> DEFINE order == Added(Stored.order, id)
<1>1. /\ Readable /\ id \notin DOMAIN Stored.order
      /\ WillSave(t, Whole(order, Stored.default), "open", id)
  BY DEF AddEntry, WillSave, Listed
<1>2. order \in Orders /\ (kind = "folders" => Numbered(order))
  BY <1>1, StoredProper, AddedRight
<1> HIDE DEF order
<1>3. Proper(Whole(order, Stored.default))
  BY <1>1, <1>2, StoredProper, ProperWhole
<1> QED
  BY <1>1, <1>3, WillSaveKeeps

LEMMA UpdateKeeps ==
    ASSUME ListsInv, NEW t \in Tasks, NEW id \in Entries, UpdateEntry(t, id)
    PROVE  ListsInv'
<1>1. Readable /\ WillSave(t, Whole(Stored.order, Stored.default), "open", id)
  BY DEF UpdateEntry, WillSave
<1>2. Proper(Whole(Stored.order, Stored.default))
  BY <1>1, StoredProper, ProperWhole
<1> QED
  BY <1>1, <1>2, WillSaveKeeps

LEMMA DeleteKeeps ==
    ASSUME ListsInv, NEW t \in Tasks, NEW id \in Entries, DeleteEntry(t, id)
    PROVE  ListsInv'
<1> DEFINE order == Removed(Stored.order, id)
           default == IF Stored.default = id THEN None ELSE Stored.default
<1>1. /\ Readable /\ id \in DOMAIN Stored.order
      /\ WillSave(t, Whole(order, default), "open", id)
  BY DEF DeleteEntry, WillSave, Listed
<1>2. order \in Orders /\ (kind = "folders" => Numbered(order))
  BY <1>1, StoredProper, RemovedRight
<1>3. default \in Entries \cup {None}
  BY <1>1, StoredProper
<1> HIDE DEF order, default
<1>4. Proper(Whole(order, default))
  BY <1>2, <1>3, ProperWhole
<1> QED
  BY <1>1, <1>4, WillSaveKeeps

LEMMA ReorderKeeps ==
    ASSUME ListsInv, NEW t \in Tasks, NEW id \in Entries, NEW to \in Nat, Reorder(t, id, to)
    PROVE  ListsInv'
<1> DEFINE order == Moved(Stored.order, id, to)
<1>1. /\ Readable /\ id \in DOMAIN Stored.order /\ to < Cardinality(DOMAIN Stored.order)
      /\ kind = "folders" /\ WillSave(t, Whole(order, None), "open", id)
  BY DEF Reorder, WillSave, Listed
<1>2. order \in Orders /\ Numbered(order)
  BY <1>1, StoredProper, MovedRight
<1> HIDE DEF order
<1>3. Proper(Whole(order, None))
  BY <1>2, ProperWhole
<1> QED
  BY <1>1, <1>3, WillSaveKeeps

LEMMA SetDefaultKeeps ==
    ASSUME ListsInv, NEW t \in Tasks, NEW id \in Entries, SetDefault(t, id)
    PROVE  ListsInv'
<1>1. /\ Readable /\ kind = "assistants"
      /\ WillSave(t, Whole(Stored.order, id), "look", id)
  BY DEF SetDefault, WillSave
<1>2. Proper(Whole(Stored.order, id))
  BY <1>1, StoredProper, ProperWhole
<1> QED
  BY <1>1, <1>2, WillSaveKeeps

LEMMA LookKeeps ==
    ASSUME ListsInv, NEW t \in Tasks, Look(t)
    PROVE  ListsInv'
<1>1. /\ task[t] \in Savers /\ task[t].pc = "look" /\ ops \in Nat
      /\ UNCHANGED <<kind, path, data, crossed>> /\ ops' = ops
  BY DEF Look, ListsInv, ListsTyped
<1>2. CASE task' = [task EXCEPT ![t] = AtRest]
  BY <1>1, <1>2, ConstantContents, SaverMoves
<1>3. CASE task' = [task EXCEPT ![t].pc = "open"]
  <2> DEFINE r == [task[t] EXCEPT !.pc = "open"]
  <2>1. r \in Savers /\ r.pc = "open" /\ r.new = task[t].new
    BY <1>1 DEF Savers
  <2>2. task' = [task EXCEPT ![t] = r]
    BY <1>3
  <2>3. Proper(r.new)
    BY <1>1, <2>1 DEF ListsInv, SavesProper
  <2> HIDE DEF r
  <2> QED
    BY <1>1, <2>1, <2>2, <2>3, SaverMoves
<1> QED
  BY <1>2, <1>3 DEF Look

\* There are more inodes than can be referred to.
LEMMA FreshThere ==
    ASSUME ListsTyped
    PROVE  /\ Fresh \in Inodes /\ Fresh # path.main
           /\ \A t \in Tasks : task[t].handle # Fresh
<1> DEFINE free == Inodes \ {path.main}
           n == Cardinality(Tasks)
<1>1. IsFiniteSet(Tasks) /\ n \in Nat
  BY ListsAssumption, FS_CardinalityType
<1>2. path.main \in Inodes
  BY DEF ListsTyped
<1>3. IsFiniteSet(Inodes) /\ Cardinality(Inodes) = n + 2
  <2> HIDE DEF n
  <2>1. 0 \in Int /\ n + 1 \in Int /\ Inodes = 0..(n + 1)
    BY <1>1 DEF Inodes, n
  <2> QED
    BY <1>1, <2>1, FS_Interval
<1>4. IsFiniteSet(free) /\ Cardinality(free) = n + 1
  BY <1>1, <1>2, <1>3, FS_RemoveElement
<1>5. \E i \in free : \A t \in Tasks : task[t].handle # i
  <2> SUFFICES ASSUME \A i \in free : \E t \in Tasks : task[t].handle = i
               PROVE  FALSE
    OBVIOUS
  <2> DEFINE at == [i \in free |-> CHOOSE t \in Tasks : task[t].handle = i]
  <2>1. \A i \in free : at[i] \in Tasks /\ task[at[i]].handle = i
    OBVIOUS
  <2>2. at \in [free -> Tasks]
    BY <2>1
  <2> HIDE DEF at, free, n
  <2>3. Cardinality(Tasks) < Cardinality(free)
    BY <1>1, <1>4 DEF n
  <2>4. \E i, j \in free : i # j /\ at[i] = at[j]
    BY <1>1, <1>4, <2>2, <2>3, FS_PigeonHole
  <2> QED
    BY <2>1, <2>4
<1> QED
  BY <1>5, Zenon DEF Fresh

LEMMA OpenKeeps ==
    ASSUME ListsInv, NEW t \in Tasks, Open(t)
    PROVE  ListsInv'
<1> DEFINE i == IF path[Target] = None THEN Fresh ELSE path[Target]
           r == [task[t] EXCEPT !.pc = "close", !.handle = i]
<1>1. /\ path' = [path EXCEPT ![Target] = i] /\ data' = [data EXCEPT ![i] = Blank]
      /\ task[t].pc = "open"
      /\ crossed' = (crossed \/ \E u \in Tasks : Saving(u)) /\ UNCHANGED <<kind, ops>>
  BY DEF Open, Saving
<1>2. task' = [task EXCEPT ![t] = r]
  BY DEF Open
<1>3. ListsTyped
  BY DEF ListsInv
<1>4. Target = IF kind = "folders" THEN "main" ELSE "temp"
  BY DEF Target
<1>5. /\ i \in Inodes
      /\ kind = "folders" => i = path.main
      /\ kind # "folders" => i # path.main
  <2>1. CASE kind = "folders"
    BY <1>3, <1>4, <2>1, InodesHere DEF ListsTyped
  <2>2. CASE kind # "folders"
    BY <1>3, <1>4, <2>2, InodesHere, FreshThere DEF ListsTyped, ListsInv, Beside
  <2> QED
    BY <2>1, <2>2
<1> HIDE DEF i
<1>6. r \in Savers /\ r.pc = "close" /\ r.handle = i /\ r.new = task[t].new
  BY <1>3, <1>5 DEF Savers, ListsTyped
<1> HIDE DEF r
<1>7. /\ task' \in [Tasks -> Savers] /\ task'[t] = r
      /\ \A u \in Tasks \ {t} : task'[u] = task[u]
  BY <1>2, <1>3, <1>6 DEF ListsTyped
<1>8. data' \in [Inodes -> Contents] /\ data'[i] = Blank /\ \A j \in Inodes \ {i} : data'[j] = data[j]
  BY <1>1, <1>3, <1>5, ConstantContents DEF ListsTyped
<1>9. /\ path' \in [main : Inodes, temp : Inodes \cup {None}] /\ path'.main = path.main
      /\ kind # "folders" => path'.temp = i
  BY <1>1, <1>3, <1>4, <1>5 DEF ListsTyped
<1>10. ListsTyped'
  BY <1>1, <1>3, <1>7, <1>8, <1>9 DEF ListsTyped
<1>11. \A list : Proper(list)' <=> Proper(list)
  BY <1>1 DEF Proper, Numbered
<1>12. SavesProper'
  BY <1>1, <1>6, <1>7, <1>11 DEF ListsInv, SavesProper
<1>13. path.main \in Inodes
  BY <1>3 DEF ListsTyped
<1>14. Beside'
  <2> SUFFICES ASSUME kind # "folders" PROVE Beside'
    BY <1>1 DEF Beside
  <2>1. /\ path'.temp # path'.main
        /\ \A u \in Tasks : task'[u].pc = "close" => task'[u].handle \in Inodes
    BY <1>5, <1>6, <1>7, <1>9 DEF ListsInv, Beside
  <2>2. ASSUME ~crossed'
        PROVE  /\ data'[path'.main].is = "whole"
               /\ \A u \in Tasks \ {t} : ~Saving(u)'
    <3>1. ~crossed /\ \A u \in Tasks : ~Saving(u)
      BY <1>1, <2>2
    <3>2. data'[path'.main] = data[path.main]
      BY <1>5, <1>8, <1>9, <1>13
    <3> QED
      BY <1>7, <3>1, <3>2 DEF ListsInv, Beside, Saving
  <2>3. ASSUME ~crossed', NEW u \in Tasks, Saving(u)'
        PROVE  u = t
    BY <2>2, <2>3
  <2>4. task'[t].pc = "close" /\ path'.temp = task'[t].handle /\ data'[task'[t].handle] = Blank
    BY <1>6, <1>7, <1>8, <1>9
  <2> QED
    BY <2>1, <2>2, <2>3, <2>4, <1>1 DEF Beside, Saving
<1>15. InPlace'
  <2> SUFFICES ASSUME kind = "folders" PROVE InPlace'
    BY <1>1 DEF InPlace
  <2>1. data'[path'.main].is # "whole"
    BY <1>5, <1>8, <1>9, ConstantContents
  <2>2. \A u \in Tasks : /\ task'[u].pc \in {"idle", "open", "close"}
                         /\ task'[u].pc = "close" => task'[u].handle = path'.main
    BY <1>5, <1>6, <1>7, <1>9 DEF ListsInv, InPlace
  <2> QED
    BY <2>1, <2>2 DEF InPlace
<1> QED
  BY <1>10, <1>12, <1>14, <1>15 DEF ListsInv

LEMMA CloseKeeps ==
    ASSUME ListsInv, NEW t \in Tasks, Close(t)
    PROVE  ListsInv'
<1> DEFINE h == task[t].handle
           r == IF kind = "folders" THEN AtRest ELSE [task[t] EXCEPT !.pc = "replace"]
<1>1. task[t].pc = "close" /\ UNCHANGED <<kind, path, ops, crossed>> /\ ListsTyped
  BY DEF Close, ListsInv
<1>2. PICK over \in {task[t].new} \cup (IF data[h] = Blank THEN {} ELSE {Damaged}) :
         data' = [data EXCEPT ![h] = over]
  BY DEF Close
<1>3. task' = [task EXCEPT ![t] = r]
  BY DEF Close, Target
<1>4. /\ r \in Savers /\ r.pc = (IF kind = "folders" THEN "idle" ELSE "replace")
      /\ kind # "folders" => r.new = task[t].new
  BY <1>1, ConstantContents DEF Savers, ListsTyped
<1> HIDE DEF r
<1>5. /\ task' \in [Tasks -> Savers] /\ task'[t] = r
      /\ \A u \in Tasks \ {t} : task'[u] = task[u]
  BY <1>1, <1>3, <1>4 DEF ListsTyped
<1>6. Proper(task[t].new)
  BY <1>1 DEF ListsInv, SavesProper
<1>7. h \in Inodes /\ (kind = "folders" => h = path.main)
  BY <1>1 DEF ListsInv, Beside, InPlace, ListsTyped
<1>8. over \in Contents
  BY <1>2, <1>6, ConstantContents DEF Proper
<1>9. data' \in [Inodes -> Contents] /\ data'[h] = over /\ \A j \in Inodes \ {h} : data'[j] = data[j]
  BY <1>1, <1>2, <1>7, <1>8 DEF ListsTyped
<1>10. ListsTyped'
  BY <1>1, <1>5, <1>9 DEF ListsTyped
<1>11. \A list : Proper(list)' <=> Proper(list)
  BY <1>1 DEF Proper, Numbered
<1>12. SavesProper'
  BY <1>1, <1>4, <1>5, <1>6, <1>11 DEF ListsInv, SavesProper
<1>13. Beside'
  <2> SUFFICES ASSUME kind # "folders" PROVE Beside'
    BY <1>1 DEF Beside
  <2>1. /\ path'.temp # path'.main
        /\ \A u \in Tasks : task'[u].pc = "close" => task'[u].handle \in Inodes
    BY <1>1, <1>4, <1>5 DEF ListsInv, Beside
  <2>2. ASSUME ~crossed'
        PROVE  /\ data'[path'.main].is = "whole"
               /\ \A u \in Tasks : Saving(u)' => u = t
               /\ path'.temp # None /\ data'[path'.temp].is = "whole"
    <3>1. /\ ~crossed /\ path.temp = h /\ data[h] = Blank /\ data[path.main].is = "whole"
          /\ h # path.main /\ \A u \in Tasks : Saving(u) => u = t
      BY <1>1, <2>2 DEF ListsInv, Beside, Saving
    <3>2. over = task[t].new /\ over.is = "whole"
      BY <1>2, <1>6, <3>1 DEF Proper
    <3>3. path'.temp = h /\ path'.main = path.main /\ path.main \in Inodes
      BY <1>1, <3>1 DEF ListsTyped
    <3>4. data'[path'.main] = data[path.main] /\ data'[path'.temp] = over
      BY <1>9, <3>1, <3>3
    <3>5. \A u \in Tasks \ {t} : ~Saving(u)'
      BY <1>5, <3>1 DEF Saving
    <3>6. path'.temp # None
      BY <1>7, <3>3, InodesHere
    <3> QED
      BY <3>1, <3>2, <3>4, <3>5, <3>6
  <2>3. task'[t].pc = "replace"
    BY <1>4, <1>5
  <2> QED
    BY <2>1, <2>2, <2>3 DEF Beside, Saving
<1>14. InPlace'
  <2> SUFFICES ASSUME kind = "folders" PROVE InPlace'
    BY <1>1 DEF InPlace
  <2>1. data'[path'.main] = over /\ (over.is = "whole" => Numbered(over.order))
    BY <1>1, <1>2, <1>6, <1>7, <1>9, ConstantContents DEF Proper
  <2>2. \A u \in Tasks : /\ task'[u].pc \in {"idle", "open", "close"}
                         /\ task'[u].pc = "close" => task'[u].handle = path'.main
    BY <1>1, <1>4, <1>5 DEF ListsInv, InPlace
  <2> QED
    BY <2>1, <2>2 DEF InPlace, Numbered
<1> QED
  BY <1>10, <1>12, <1>13, <1>14 DEF ListsInv

LEMMA ReplaceKeeps ==
    ASSUME ListsInv, NEW t \in Tasks, Replace(t)
    PROVE  ListsInv'
<1>1. /\ task[t].pc = "replace" /\ UNCHANGED <<kind, data, ops, crossed>> /\ ListsTyped
      /\ task' = [task EXCEPT ![t] = AtRest]
      /\ path' = IF path.temp = None THEN path ELSE [main |-> path.temp, temp |-> None]
  BY DEF Replace, ListsInv
<1>2. kind # "folders"
  BY <1>1 DEF ListsInv, InPlace
<1>3. /\ task' \in [Tasks -> Savers] /\ task'[t].pc = "idle"
      /\ \A u \in Tasks \ {t} : task'[u] = task[u]
  BY <1>1, ConstantContents DEF ListsTyped
<1>4. path' \in [main : Inodes, temp : Inodes \cup {None}] /\ path'.temp # path'.main
  BY <1>1, <1>2, InodesHere DEF ListsTyped, ListsInv, Beside
<1>5. ListsTyped'
  BY <1>1, <1>3, <1>4 DEF ListsTyped
<1>6. \A list : Proper(list)' <=> Proper(list)
  BY <1>1 DEF Proper, Numbered
<1>7. SavesProper'
  BY <1>1, <1>3, <1>6 DEF ListsInv, SavesProper
<1>8. ASSUME ~crossed'
      PROVE  data'[path'.main].is = "whole" /\ \A u \in Tasks : ~Saving(u)'
  <2>1. \A u \in Tasks \ {t} : ~Saving(u)
    BY <1>1, <1>2, <1>8 DEF ListsInv, Beside, Saving
  <2>2. path.temp # None /\ data[path.temp].is = "whole"
    BY <1>1, <1>2, <1>8 DEF ListsInv, Beside
  <2> QED
    BY <1>1, <1>3, <2>1, <2>2 DEF Saving
<1>9. \A u \in Tasks : task'[u].pc = "close" => task'[u].handle \in Inodes
  BY <1>2, <1>3 DEF ListsInv, Beside
<1>10. Beside'
  BY <1>4, <1>8, <1>9 DEF Beside, Saving
<1>11. InPlace'
  BY <1>1, <1>2 DEF InPlace
<1> QED
  BY <1>5, <1>7, <1>10, <1>11 DEF ListsInv

LEMMA CrashKeeps ==
    ASSUME ListsInv, Crash
    PROVE  ListsInv'
<1>1. /\ UNCHANGED <<kind, path, data, ops, crossed>> /\ ListsTyped
      /\ task' \in [Tasks -> Savers] /\ \A u \in Tasks : task'[u].pc = "idle"
  BY ConstantContents DEF Crash, ListsInv
<1>2. ListsTyped' /\ SavesProper'
  BY <1>1 DEF ListsTyped, SavesProper
<1>3. Beside'
  BY <1>1 DEF ListsInv, Beside, Saving
<1>4. InPlace'
  BY <1>1 DEF ListsInv, InPlace, Numbered
<1> QED
  BY <1>2, <1>3, <1>4 DEF ListsInv

LEMMA ListsStepRight == ListsInv /\ [ListsNext]_listVars => ListsInv'
<1> SUFFICES ASSUME ListsInv, [ListsNext]_listVars PROVE ListsInv'
  OBVIOUS
<1>1. ASSUME NEW t \in Tasks, Look(t) \/ Open(t) \/ Close(t) \/ Replace(t)
      PROVE  ListsInv'
  BY <1>1, LookKeeps, OpenKeeps, CloseKeeps, ReplaceKeeps
<1>2. ASSUME NEW t \in Tasks, NEW id \in Entries,
             AddEntry(t, id) \/ UpdateEntry(t, id) \/ DeleteEntry(t, id) \/ SetDefault(t, id)
      PROVE  ListsInv'
  BY <1>2, AddKeeps, UpdateKeeps, DeleteKeeps, SetDefaultKeeps
<1>3. ASSUME NEW t \in Tasks, NEW id \in Entries, NEW to \in 0..Cardinality(Entries),
             Reorder(t, id, to)
      PROVE  ListsInv'
  BY <1>3, ReorderKeeps
<1>4. CASE UNCHANGED listVars
  BY <1>4 DEF listVars, ListsInv, ListsTyped, SavesProper, Proper, Numbered, Beside, Saving, InPlace
<1> QED
  BY <1>1, <1>2, <1>3, <1>4, CrashKeeps DEF ListsNext

(***************************************************************************)
(* The list of assistants or templates can be read at any moment while no  *)
(* two requests are at the file beside it at once, and folders are         *)
(* numbered without a gap, for any number of requests, entries and crashes *)
(* (save_config, create_folder, delete_folder, reorder_folder).            *)
(***************************************************************************)
THEOREM ListsCorrect == ListsSpec => []ListsWhole
<1>1. ListsInit => ListsInv
  BY ListsInitRight
<1>2. ListsInv /\ [ListsNext]_listVars => ListsInv'
  BY ListsStepRight
<1>3. ListsInv => ListsWhole
  BY ListsRight
<1> QED
  BY <1>1, <1>2, <1>3, PTL DEF ListsSpec

-----------------------------------------------------------------------------
(* The sessions: what holds of them *)

Copiers ==
    [pc : {"create", "title", "fill"}, place : Places, wanted : Assistants \cup {"model"},
     title : Title, msgs : Seq(Nat), meant : Seq(Nat), new : Ids \cup {Absent}]
Importers ==
    [pc : {"import", "importFill", "importTitle"}, place : Places, at : 1..Len(Imports),
     new : Ids \cup {Absent}]
Clearers == [pc : {"clearing"}, folder : Folders, todo : SUBSET Ids]
Generations == [s : Ids, request : Nat, asked : BOOLEAN]

ChatsTyped ==
    /\ sess \in [Ids -> SessionRecords \cup {Absent}]
    /\ used \in 0..MaxSessions /\ folders \subseteq Folders
    /\ work \in [Workers -> {Idle} \cup Copiers \cup Importers \cup Clearers]
    /\ titles \subseteq Generations /\ named \subseteq Ids
    /\ promise \in [Ids -> Seq(Nat) \cup {Absent}]

\* A session has an id that was given out, names a model, and is in a folder there is unless
\* it came too late.
Homed(s) ==
    sess[s] # Absent =>
        /\ s <= used /\ sess[s].model = TRUE
        /\ sess[s].folder \in folders \cup {Absent} \/ s \in late

\* What was promised is there, for good.
Promised(s) ==
    promise[s] # Absent => sess[s] # Absent /\ sess[s].msgs = promise[s] /\ ~sess[s].temp

\* What the user gave a plain title has it, and no generation under way.
Titled(s) ==
    s \in named => s <= used /\ ~Titling(s) /\ (sess[s] # Absent => sess[s].title = ByUser("plain"))

\* A request has the messages it was asked for, and makes a session of its own, for good ...
Making(t) ==
    /\ work[t].pc \in {"create", "title", "fill"} => work[t].msgs = work[t].meant
    /\ work[t].pc \in {"title", "fill", "importFill", "importTitle"} =>
          /\ work[t].new \in 1..used
          /\ sess[work[t].new] # Absent => ~sess[work[t].new].temp

\* ... or it clears all sessions of a folder but those that come too late.
Clears(t) ==
    work[t].pc = "clearing" =>
        \A s \in Ids : sess[s] # Absent /\ sess[s].folder = work[t].folder =>
            s \in work[t].todo \cup late

ChatsInv ==
    /\ ChatsTyped
    /\ \A s \in Ids : Homed(s) /\ Promised(s) /\ Titled(s)
    /\ \A t \in Workers : Making(t) /\ Clears(t)

LEMMA ChatsInitRight == ChatsInit => ChatsInv
<1> SUFFICES ASSUME ChatsInit PROVE ChatsInv
  OBVIOUS
<1>1. PICK place \in Places, temp \in BOOLEAN, f \in Folders \cup {Absent}, msgs \in Histories,
           a \in Assistants \cup {Absent} :
        sess = [s \in Ids |-> IF s = 1
                  THEN [New(place, temp, a) EXCEPT
                           !.folder = IF place = "chat" THEN f ELSE Absent, !.msgs = msgs,
                           !.title = ByProgram(IF msgs = <<>> THEN "new" ELSE "dots")]
                  ELSE Absent]
  BY DEF ChatsInit
<1> DEFINE first == [New(place, temp, a) EXCEPT
                        !.folder = IF place = "chat" THEN f ELSE Absent, !.msgs = msgs,
                        !.title = ByProgram(IF msgs = <<>> THEN "new" ELSE "dots")]
<1>2. first \in SessionRecords /\ first.model = TRUE /\ first.folder \in Folders \cup {Absent}
  BY ChatsAssumption DEF SessionRecords, New, Title, Looks, ByProgram
<1>3. sess = [s \in Ids |-> IF s = 1 THEN first ELSE Absent]
  BY <1>1
<1> HIDE DEF first
<1>4. /\ used = 1 /\ folders = Folders /\ work = [t \in Workers |-> Idle] /\ titles = {}
      /\ promise = [s \in Ids |-> Absent] /\ named = {}
  BY DEF ChatsInit
<1>5. ChatsTyped
  <2>1. sess \in [Ids -> SessionRecords \cup {Absent}]
    BY <1>2, <1>3
  <2>2. used \in 0..MaxSessions
    BY <1>4, ChatsAssumption
  <2> QED
    BY <1>4, <2>1, <2>2 DEF ChatsTyped
<1>6. ASSUME NEW s \in Ids
      PROVE  Homed(s) /\ Promised(s) /\ Titled(s)
  <2>1. Homed(s)
    BY <1>2, <1>3, <1>4 DEF Homed
  <2> QED
    BY <1>4, <2>1 DEF Promised, Titled
<1>7. ASSUME NEW t \in Workers
      PROVE  Making(t) /\ Clears(t)
  BY <1>4 DEF Making, Clears, Idle
<1> QED
  BY <1>5, <1>6, <1>7 DEF ChatsInv

-----------------------------------------------------------------------------
(* The sessions: steps *)

\* What every step does to the sessions: it makes new ones, deletes or changes old ones, but
\* makes none temporary that was not; ...
Grows ==
    /\ used <= used'
    /\ \A s \in Ids : sess'[s] # Absent =>
          /\ s <= used' /\ sess'[s].model = TRUE
          /\ s <= used => sess[s] # Absent /\ (sess'[s].temp => sess[s].temp)

\* ... and puts none into a folder that is being deleted without noting it.
FiledRight ==
    \A s \in Ids : sess'[s] # Absent /\ sess'[s].folder # Absent =>
        \/ s \in late'
        \/ sess[s] # Absent /\ s \notin late /\ sess'[s].folder = sess[s].folder
        \/ ~Deleting(sess'[s].folder)

LEMMA StillHomed ==
    ASSUME ChatsInv, Grows, FiledRight, folders' = folders, NEW s \in Ids
    PROVE  Homed(s)'
<1>1. SUFFICES ASSUME sess'[s] # Absent, sess'[s].folder # Absent, s \notin late',
                      Deleting(sess'[s].folder)
               PROVE  sess'[s].folder \in folders
  BY DEF Grows, Homed, Deleting
<1>2. sess[s] # Absent /\ s \notin late /\ sess'[s].folder = sess[s].folder
  BY <1>1 DEF FiledRight
<1> QED
  BY <1>1, <1>2 DEF ChatsInv, Homed

LEMMA StillMaking ==
    ASSUME ChatsInv, Grows, ChatsTyped', NEW t \in Workers, work'[t] = work[t]
    PROVE  Making(t)'
<1>1. Making(t) /\ used \in Nat /\ used' \in Nat /\ used <= MaxSessions /\ MaxSessions \in Nat
  BY ChatsAssumption DEF ChatsInv, ChatsTyped
<1>2. ASSUME work[t].pc \in {"title", "fill", "importFill", "importTitle"}
      PROVE  /\ work[t].new \in 1..used' /\ work[t].new \in Ids
             /\ sess'[work[t].new] # Absent => ~sess'[work[t].new].temp
  <2>1. work[t].new \in 1..used /\ used <= used'
    BY <1>1, <1>2 DEF Making, Grows
  <2>2. work[t].new \in 1..used' /\ work[t].new \in Ids /\ work[t].new <= used
    BY <1>1, <2>1 DEF Ids
  <2>3. sess[work[t].new] # Absent => ~sess[work[t].new].temp
    BY <1>1, <1>2 DEF Making
  <2> QED
    BY <2>2, <2>3 DEF Grows
<1> QED
  BY <1>1, <1>2 DEF Making

LEMMA StillClears ==
    ASSUME ChatsInv, FiledRight, NEW t \in Workers, work'[t] = work[t],
           work[t] \in {Idle} \cup Copiers \cup Importers \cup Clearers
    PROVE  Clears(t)'
<1>1. SUFFICES ASSUME work[t].pc = "clearing", NEW s \in Ids, sess'[s] # Absent,
                      sess'[s].folder = work[t].folder, s \notin late'
               PROVE  s \in work[t].todo
  BY DEF Clears
<1>2. work[t].folder \in Folders
  BY <1>1 DEF Idle, Copiers, Importers, Clearers
<1>3. sess'[s].folder # Absent /\ Deleting(sess'[s].folder)
  BY <1>1, <1>2, ChatsAssumption DEF Deleting
<1>4. sess[s] # Absent /\ s \notin late /\ sess[s].folder = work[t].folder
  BY <1>1, <1>3 DEF FiledRight
<1> QED
  BY <1>1, <1>4 DEF ChatsInv, Clears

\* One session changes.
Alters(s, r) ==
    /\ sess[s] # Absent /\ r \in SessionRecords /\ r.model = TRUE /\ (r.temp => sess[s].temp)
    /\ sess' = [sess EXCEPT ![s] = r] /\ used' = used

LEMMA Altered ==
    ASSUME ChatsInv, NEW s \in Ids, NEW r, Alters(s, r)
    PROVE  /\ sess' \in [Ids -> SessionRecords \cup {Absent}] /\ used' \in 0..MaxSessions
           /\ sess'[s] = r /\ r # Absent /\ \A x \in Ids \ {s} : sess'[x] = sess[x]
           /\ Grows
<1>1. ChatsTyped /\ r # Absent
  BY ChatsAssumption DEF ChatsInv, Alters
<1>2. /\ sess' \in [Ids -> SessionRecords \cup {Absent}] /\ used' \in 0..MaxSessions
      /\ sess'[s] = r /\ \A x \in Ids \ {s} : sess'[x] = sess[x]
  BY <1>1 DEF ChatsTyped, Alters
<1>3. Grows
  <2>1. used' = used /\ used <= used
    BY <1>1 DEF ChatsTyped, Alters
  <2>2. ASSUME NEW x \in Ids, sess'[x] # Absent
        PROVE  x <= used' /\ sess'[x].model = TRUE /\ sess[x] # Absent /\ (sess'[x].temp => sess[x].temp)
    BY <1>2, <2>1, <2>2 DEF Alters, ChatsInv, Homed
  <2> QED
    BY <2>1, <2>2 DEF Grows
<1> QED
  BY <1>1, <1>2, <1>3

\* A session is made.
LEMMA AddsOne ==
    ASSUME ChatsInv, NEW r \in SessionRecords, r.model = TRUE, Adds(r)
    PROVE  /\ sess' \in [Ids -> SessionRecords \cup {Absent}] /\ used' \in 0..MaxSessions
           /\ used + 1 \in Ids /\ sess[used + 1] = Absent /\ sess'[used + 1] = r /\ r # Absent
           /\ \A x \in Ids \ {used + 1} : sess'[x] = sess[x]
           /\ Grows
<1>1. /\ ChatsTyped /\ r # Absent /\ used' = used + 1 /\ used \in Nat /\ MaxSessions \in Nat
      /\ used < MaxSessions /\ sess' = [sess EXCEPT ![used + 1] = r]
  BY ChatsAssumption DEF ChatsInv, ChatsTyped, Adds
<1>2. used + 1 \in Ids /\ used' \in 0..MaxSessions /\ ~(used + 1 <= used) /\ used <= used'
  BY <1>1 DEF Ids
<1>3. sess[used + 1] = Absent
  BY <1>2 DEF ChatsInv, Homed
<1>4. /\ sess' \in [Ids -> SessionRecords \cup {Absent}] /\ sess'[used + 1] = r
      /\ \A x \in Ids \ {used + 1} : sess'[x] = sess[x]
  BY <1>1, <1>2 DEF ChatsTyped
<1>5. ASSUME NEW x \in Ids, sess'[x] # Absent
      PROVE  /\ x <= used' /\ sess'[x].model = TRUE
             /\ x <= used => sess[x] # Absent /\ (sess'[x].temp => sess[x].temp)
  <2>1. CASE x = used + 1
    BY <2>1, <1>1, <1>2, <1>4
  <2>2. CASE x # used + 1
    <3>1. sess'[x] = sess[x] /\ x <= used /\ sess[x].model = TRUE
      BY <2>2, <1>4, <1>5 DEF ChatsInv, Homed
    <3>2. x <= used'
      BY <3>1, <1>1 DEF Ids
    <3> QED
      BY <3>1, <3>2, <1>5
  <2> QED
    BY <2>1, <2>2
<1> QED
  BY <1>1, <1>2, <1>3, <1>4, <1>5 DEF Grows

\* What a step leaves of the promises, the titles and the workers, apart from one session.
OthersStay(s) ==
    /\ used' \in 0..MaxSessions /\ folders' = folders
    /\ \A x \in Ids \ {s} : x \in late => x \in late'
    /\ work' \in [Workers -> {Idle} \cup Copiers \cup Importers \cup Clearers]
    /\ titles' \subseteq Generations
    /\ promise' \in [Ids -> Seq(Nat) \cup {Absent}]
    /\ named' \subseteq named \cup {s}
    /\ \A x \in Ids \ {s} : promise'[x] = promise[x] /\ (Titling(x)' => Titling(x))

WorkersRight == \A t \in Workers : work'[t] = work[t] \/ (Making(t)' /\ Clears(t)')

LEMMA OthersRight ==
    ASSUME ChatsInv, Grows, NEW s \in Ids, OthersStay(s), NEW x \in Ids \ {s}, sess'[x] = sess[x]
    PROVE  /\ Promised(x)' /\ Titled(x)'
           /\ sess'[x] # Absent =>
                 x \in late' \/ (sess[x] # Absent /\ x \notin late /\ sess'[x].folder = sess[x].folder)
<1>1. Promised(x) /\ Titled(x) /\ used \in Nat /\ used' \in Nat
  BY ChatsAssumption DEF ChatsInv, ChatsTyped, OthersStay
<1>2. Promised(x)'
  BY <1>1 DEF OthersStay, Promised
<1>3. Titled(x)'
  <2>1. SUFFICES ASSUME x \in named'
                 PROVE  x <= used' /\ ~Titling(x)' /\ (sess[x] # Absent => sess[x].title = ByUser("plain"))
    BY DEF Titled
  <2>2. x \in named /\ (Titling(x)' => Titling(x)) /\ used <= used'
    BY <2>1 DEF OthersStay, Grows
  <2>3. x <= used /\ ~Titling(x) /\ (sess[x] # Absent => sess[x].title = ByUser("plain"))
    BY <1>1, <2>2 DEF Titled
  <2>4. x <= used'
    BY <1>1, <2>2, <2>3 DEF Ids
  <2> QED
    BY <2>2, <2>3, <2>4
<1>4. sess'[x] # Absent =>
        x \in late' \/ (sess[x] # Absent /\ x \notin late /\ sess'[x].folder = sess[x].folder)
  BY <1>1 DEF OthersStay
<1> QED
  BY <1>2, <1>3, <1>4

LEMMA AlteringRight ==
    ASSUME ChatsInv, NEW s \in Ids, NEW r, Alters(s, r), OthersStay(s), WorkersRight,
           \/ s \in late'
           \/ s \notin late /\ r.folder = sess[s].folder
           \/ r.folder = Absent \/ ~Deleting(r.folder),
           promise'[s] # Absent => r.msgs = promise'[s] /\ ~r.temp,
           s \in named' => ~Titling(s)' /\ r.title = ByUser("plain")
    PROVE  ChatsInv'
<1>1. /\ sess' \in [Ids -> SessionRecords \cup {Absent}] /\ used' \in 0..MaxSessions
      /\ sess'[s] = r /\ r # Absent /\ \A x \in Ids \ {s} : sess'[x] = sess[x]
      /\ Grows
  BY Altered
<1>2. ChatsTyped' /\ folders' = folders
  BY <1>1 DEF ChatsInv, ChatsTyped, OthersStay
<1>3. FiledRight
  <2>1. ASSUME NEW x \in Ids \ {s}, sess'[x] # Absent
        PROVE  x \in late' \/ (sess[x] # Absent /\ x \notin late /\ sess'[x].folder = sess[x].folder)
    BY <1>1, <2>1, OthersRight
  <2>2. \/ s \in late' \/ sess'[s].folder = Absent \/ ~Deleting(sess'[s].folder)
        \/ sess[s] # Absent /\ s \notin late /\ sess'[s].folder = sess[s].folder
    BY <1>1 DEF Alters
  <2> QED
    BY <2>1, <2>2 DEF FiledRight
<1>4. \A x \in Ids : Homed(x)'
  BY <1>1, <1>2, <1>3, StillHomed
<1>5. ASSUME NEW x \in Ids
      PROVE  Promised(x)' /\ Titled(x)'
  <2>1. CASE x # s
    BY <1>1, <2>1, OthersRight
  <2>2. CASE x = s
    <3>1. Promised(s)'
      BY <1>1 DEF Promised
    <3>2. s <= used'
      BY <1>1, <1>4 DEF Homed
    <3> QED
      BY <1>1, <2>2, <3>1, <3>2 DEF Titled
  <2> QED
    BY <2>1, <2>2
<1>6. \A t \in Workers : Making(t)' /\ Clears(t)'
  <2>1. \A t \in Workers : work[t] \in {Idle} \cup Copiers \cup Importers \cup Clearers
    BY DEF ChatsInv, ChatsTyped
  <2> QED
    BY <1>1, <1>2, <1>3, <2>1, StillMaking, StillClears DEF WorkersRight
<1> QED
  BY <1>2, <1>4, <1>5, <1>6 DEF ChatsInv

LEMMA AddingRight ==
    ASSUME ChatsInv, NEW r \in SessionRecords, r.model = TRUE, Adds(r), OthersStay(used + 1),
           WorkersRight,
           used + 1 \in late' \/ r.folder = Absent \/ ~Deleting(r.folder),
           promise'[used + 1] # Absent => r.msgs = promise'[used + 1] /\ ~r.temp,
           named' \subseteq named
    PROVE  ChatsInv'
<1> DEFINE s == used + 1
<1>1. /\ sess' \in [Ids -> SessionRecords \cup {Absent}] /\ used' \in 0..MaxSessions
      /\ s \in Ids /\ sess'[s] = r /\ r # Absent /\ \A x \in Ids \ {s} : sess'[x] = sess[x]
      /\ Grows
  BY AddsOne
<1>2. ChatsTyped' /\ folders' = folders
  BY <1>1 DEF ChatsInv, ChatsTyped, OthersStay
<1>3. s \notin named'
  <2>1. used \in Nat /\ ~(used + 1 <= used)
    BY ChatsAssumption DEF ChatsInv, ChatsTyped
  <2> QED
    BY <1>1, <2>1 DEF ChatsInv, Titled
<1>4. FiledRight
  <2>1. ASSUME NEW x \in Ids \ {s}, sess'[x] # Absent
        PROVE  x \in late' \/ (sess[x] # Absent /\ x \notin late /\ sess'[x].folder = sess[x].folder)
    BY <1>1, <2>1, OthersRight
  <2>2. s \in late' \/ sess'[s].folder = Absent \/ ~Deleting(sess'[s].folder)
    BY <1>1
  <2> QED
    BY <2>1, <2>2 DEF FiledRight
<1>5. \A x \in Ids : Homed(x)'
  BY <1>1, <1>2, <1>4, StillHomed
<1>6. ASSUME NEW x \in Ids
      PROVE  Promised(x)' /\ Titled(x)'
  <2>1. CASE x # s
    BY <1>1, <2>1, OthersRight
  <2>2. CASE x = s
    <3>1. Promised(x)'
      BY <1>1, <2>2 DEF Promised
    <3> QED
      BY <1>3, <2>2, <3>1 DEF Titled
  <2> QED
    BY <2>1, <2>2
<1>7. \A t \in Workers : Making(t)' /\ Clears(t)'
  <2>1. \A t \in Workers : work[t] \in {Idle} \cup Copiers \cup Importers \cup Clearers
    BY DEF ChatsInv, ChatsTyped
  <2> QED
    BY <1>1, <1>2, <1>4, <2>1, StillMaking, StillClears DEF WorkersRight
<1> QED
  BY <1>2, <1>5, <1>6, <1>7 DEF ChatsInv

-----------------------------------------------------------------------------
(* The sessions: actions *)

LEMMA MadeRight ==
    ASSUME ChatsInv, NEW place \in Places, NEW temp \in BOOLEAN, NEW wanted,
           Enabled(Targets(wanted))
    PROVE  LET r == Made(place, temp, wanted)
           IN  /\ r \in SessionRecords /\ r.model = TRUE /\ r.folder = Absent /\ r.temp = temp
               /\ r.msgs = <<>>
<1>1. Targets(wanted) \in Assistants \cup {"model"}
  BY DEF Enabled
<1>2. Resolved(wanted).assistant \in Assistants \cup {Absent} /\ Resolved(wanted).model = TRUE
  BY <1>1 DEF Resolved
<1> DEFINE to == Resolved(wanted)
           new == New(place, temp, to.assistant)
<1>3. new \in SessionRecords /\ new.folder = Absent /\ new.temp = temp /\ new.msgs = <<>>
  BY <1>2, <<>> \in Seq(Nat) DEF New, SessionRecords, Title, Looks, ByProgram
<1> HIDE DEF new
<1>4. Made(place, temp, wanted) = [new EXCEPT !.model = TRUE]
  BY <1>2 DEF Made, new
<1> QED
  BY <1>3, <1>4 DEF SessionRecords

\* Calls on one session leave the rest.
LEMMA ChangesRight ==
    ASSUME ChatsInv, NEW s \in Ids, NEW r \in SessionRecords, sess[s] # Absent, Changes(s, r),
           r.model = TRUE, r.temp => sess[s].temp, r.msgs = sess[s].msgs,
           \A x \in Ids \ {s} : x \in late => x \in late', named' \subseteq named \cup {s},
           \/ s \in late'
           \/ s \notin late /\ r.folder = sess[s].folder
           \/ r.folder = Absent \/ ~Deleting(r.folder),
           s \in named' => ~Titling(s) /\ r.title = ByUser("plain")
    PROVE  ChatsInv'
<1>1. /\ Alters(s, r)
      /\ UNCHANGED <<used, folders, work, titles, promise>>
  BY DEF Changes, Alters
<1>2. OthersStay(s) /\ WorkersRight /\ (Titling(s)' <=> Titling(s))
  BY <1>1 DEF OthersStay, WorkersRight, Titling, ChatsInv, ChatsTyped
<1>3. promise'[s] # Absent => r.msgs = promise'[s] /\ ~r.temp
  BY <1>1 DEF ChatsInv, Promised
<1> QED
  BY <1>1, <1>2, <1>3, AlteringRight

LEMMA CreateKeeps ==
    ASSUME ChatsInv, NEW place \in Places, NEW temp \in BOOLEAN,
           NEW wanted \in Assistants \cup {Absent, "model"}, Create(place, temp, wanted)
    PROVE  ChatsInv'
<1> DEFINE r == Made(place, temp, wanted)
<1>1. r \in SessionRecords /\ r.model = TRUE /\ r.folder = Absent
  BY MadeRight DEF Create
<1>2. Adds(r) /\ UNCHANGED <<folders, work, titles, promise, named, late>>
  BY DEF Create
<1> HIDE DEF r
<1>3. used + 1 \in Ids /\ sess[used + 1] = Absent /\ used' \in 0..MaxSessions
  BY <1>1, <1>2, AddsOne
<1>4. OthersStay(used + 1) /\ WorkersRight
  BY <1>2, <1>3 DEF OthersStay, WorkersRight, Titling, ChatsInv, ChatsTyped
<1>5. promise'[used + 1] = Absent
  BY <1>2, <1>3 DEF ChatsInv, Promised
<1> QED
  BY <1>1, <1>2, <1>4, <1>5, AddingRight

LEMMA SaveKeeps ==
    ASSUME ChatsInv, NEW s \in Ids, NEW place \in Places, Save(s, place)
    PROVE  ChatsInv'
<1> DEFINE r == [sess[s] EXCEPT !.temp = FALSE]
<1>1. sess[s] # Absent /\ sess[s] \in SessionRecords /\ sess[s].model = TRUE
  BY DEF Save, Finds, ChatsInv, ChatsTyped, Homed
<1>2. /\ r \in SessionRecords /\ r.model = TRUE /\ r.msgs = sess[s].msgs /\ ~r.temp
      /\ r.folder = sess[s].folder /\ r.title = sess[s].title
  BY <1>1 DEF SessionRecords
<1>3. Changes(s, r) /\ UNCHANGED <<named, late>>
  BY DEF Save
<1> HIDE DEF r
<1>4. s \in named' => ~Titling(s) /\ r.title = ByUser("plain")
  BY <1>1, <1>2, <1>3 DEF ChatsInv, Titled
<1> QED
  BY <1>1, <1>2, <1>3, <1>4, ChangesRight

LEMMA UpdateTargetKeeps ==
    ASSUME ChatsInv, NEW s \in Ids, NEW place \in Places, NEW wanted \in Assistants \cup {"model"},
           UpdateTarget(s, place, wanted)
    PROVE  ChatsInv'
<1> DEFINE to == Resolved(wanted)
           r == [sess[s] EXCEPT !.assistant = to.assistant, !.model = to.model]
<1>1. sess[s] # Absent /\ sess[s] \in SessionRecords /\ sess[s].model = TRUE
  BY DEF UpdateTarget, Finds, ChatsInv, ChatsTyped, Homed
<1>2. to.assistant \in Assistants \cup {Absent} /\ to.model = TRUE
  BY ChatsAssumption DEF Resolved, Targets
<1>3. /\ r \in SessionRecords /\ r.model = TRUE /\ r.msgs = sess[s].msgs
      /\ r.temp = sess[s].temp /\ r.folder = sess[s].folder /\ r.title = sess[s].title
  <2> HIDE DEF to
  <2> QED
    BY <1>1, <1>2 DEF SessionRecords
<1>4. Changes(s, r) /\ UNCHANGED <<named, late>>
  BY DEF UpdateTarget
<1> HIDE DEF r
<1>5. s \in named' => ~Titling(s) /\ r.title = ByUser("plain")
  BY <1>1, <1>3, <1>4 DEF ChatsInv, Titled
<1> QED
  BY <1>1, <1>3, <1>4, <1>5, ChangesRight

LEMMA UpdateTitleKeeps ==
    ASSUME ChatsInv, NEW s \in Ids, NEW place \in Places, NEW look \in TitleTexts,
           UpdateTitle(s, place, look)
    PROVE  ChatsInv'
<1> DEFINE r == [sess[s] EXCEPT !.title = ByUser(look)]
<1>1. sess[s] # Absent /\ sess[s] \in SessionRecords /\ sess[s].model = TRUE
  BY DEF UpdateTitle, Finds, ChatsInv, ChatsTyped, Homed
<1>2. /\ r \in SessionRecords /\ r.model = TRUE /\ r.msgs = sess[s].msgs
      /\ r.temp = sess[s].temp /\ r.folder = sess[s].folder /\ r.title = ByUser(look)
  BY <1>1, ChatsAssumption DEF SessionRecords, Title, ByUser
<1>3. /\ Changes(s, r) /\ UNCHANGED late
      /\ named' = IF look = "plain" /\ ~Titling(s) THEN named \cup {s} ELSE named \ {s}
  BY DEF UpdateTitle
<1> HIDE DEF r
<1>4. s \in named' => ~Titling(s) /\ r.title = ByUser("plain")
  BY <1>2, <1>3
<1>5. named' \subseteq named \cup {s}
  BY <1>3
<1> QED
  BY <1>1, <1>2, <1>3, <1>4, <1>5, ChangesRight

LEMMA UpdateFolderKeeps ==
    ASSUME ChatsInv, NEW s \in Ids, NEW place \in Places, NEW f \in Folders \cup {Absent},
           UpdateFolder(s, place, f)
    PROVE  ChatsInv'
<1> DEFINE r == [sess[s] EXCEPT !.folder = f]
<1>1. sess[s] # Absent /\ sess[s] \in SessionRecords /\ sess[s].model = TRUE
  BY DEF UpdateFolder, Finds, ChatsInv, ChatsTyped, Homed
<1>2. /\ r \in SessionRecords /\ r.model = TRUE /\ r.msgs = sess[s].msgs
      /\ r.temp = sess[s].temp /\ r.folder = f /\ r.title = sess[s].title
  BY <1>1 DEF SessionRecords
<1>3. /\ Changes(s, r) /\ UNCHANGED named
      /\ late' = IF Deleting(f) THEN late \cup {s} ELSE late \ {s}
  BY DEF UpdateFolder
<1> HIDE DEF r
<1>4. s \in named' => ~Titling(s) /\ r.title = ByUser("plain")
  BY <1>1, <1>2, <1>3 DEF ChatsInv, Titled
<1>5. s \in late' \/ ~Deleting(r.folder)
  BY <1>2, <1>3
<1>6. \A x \in Ids \ {s} : x \in late => x \in late'
  BY <1>3
<1> QED
  BY <1>1, <1>2, <1>3, <1>4, <1>5, <1>6, ChangesRight

LEMMA MoveKeeps ==
    ASSUME ChatsInv, NEW s \in Ids, NEW place \in Places, NEW target \in Places,
           Move(s, place, target)
    PROVE  ChatsInv'
<1> DEFINE r == [sess[s] EXCEPT !.place = target]
<1>1. sess[s] # Absent /\ sess[s] \in SessionRecords /\ sess[s].model = TRUE
  BY DEF Move, Finds, ChatsInv, ChatsTyped, Homed
<1>2. /\ r \in SessionRecords /\ r.model = TRUE /\ r.msgs = sess[s].msgs
      /\ r.temp = sess[s].temp /\ r.folder = sess[s].folder /\ r.title = sess[s].title
  BY <1>1 DEF SessionRecords
<1>3. Changes(s, r) /\ UNCHANGED <<named, late>>
  BY DEF Move
<1> HIDE DEF r
<1>4. s \in named' => ~Titling(s) /\ r.title = ByUser("plain")
  BY <1>1, <1>2, <1>3 DEF ChatsInv, Titled
<1> QED
  BY <1>1, <1>2, <1>3, <1>4, ChangesRight

LEMMA DeleteSessionKeeps ==
    ASSUME ChatsInv, NEW s \in Ids, NEW place \in Places, Delete(s, place)
    PROVE  ChatsInv'
<1>1. /\ sess' = [sess EXCEPT ![s] = Absent] /\ promise' = [promise EXCEPT ![s] = Absent]
      /\ UNCHANGED <<used, folders, work, titles, named, late>>
  BY DEF Delete
<1>2. /\ ChatsTyped /\ \A x \in Ids : Homed(x) /\ Promised(x) /\ Titled(x)
      /\ \A t \in Workers : Making(t) /\ Clears(t)
  BY DEF ChatsInv
<1>3. ChatsTyped'
  BY <1>1, <1>2 DEF ChatsTyped
<1>4. /\ sess'[s] = Absent /\ promise'[s] = Absent
      /\ \A x \in Ids \ {s} : sess'[x] = sess[x] /\ promise'[x] = promise[x]
  BY <1>1, <1>2 DEF ChatsTyped
<1>5. ASSUME NEW x \in Ids
      PROVE  Homed(x)' /\ Promised(x)' /\ Titled(x)'
  BY <1>1, <1>2, <1>4 DEF Homed, Promised, Titled, Titling
<1>6. ASSUME NEW t \in Workers
      PROVE  Making(t)' /\ Clears(t)'
  <2>1. \A x \in 1..used : x \in Ids
    BY <1>2, ChatsAssumption DEF ChatsTyped, Ids
  <2>2. Making(t)'
    BY <1>1, <1>2, <1>4, <2>1 DEF Making
  <2> QED
    BY <1>1, <1>2, <1>4, <2>2 DEF Clears
<1> QED
  BY <1>3, <1>5, <1>6 DEF ChatsInv

LEMMA CopyKeeps ==
    ASSUME ChatsInv, NEW s \in Ids, NEW place \in Places, NEW target \in Places,
           Copy(s, place, target)
    PROVE  ChatsInv'
<1> DEFINE r == [sess[s] EXCEPT !.place = target, !.temp = FALSE, !.title = Suffixed(@)]
<1>1. sess[s] # Absent /\ sess[s] \in SessionRecords /\ sess[s].model = TRUE
  BY DEF Copy, Finds, ChatsInv, ChatsTyped, Homed
<1>2. /\ r \in SessionRecords /\ r.model = TRUE /\ r.msgs = sess[s].msgs /\ ~r.temp
      /\ r.folder = sess[s].folder
  BY <1>1 DEF SessionRecords, Suffixed, Title, Looks, ByProgram
<1>3. /\ Adds(r) /\ UNCHANGED <<folders, work, titles, named>>
      /\ promise' = [promise EXCEPT ![used + 1] = sess[s].msgs]
      /\ late' = IF Deleting(sess[s].folder) THEN late \cup {used + 1} ELSE late
  BY DEF Copy
<1> HIDE DEF r
<1>4. used + 1 \in Ids /\ used' \in 0..MaxSessions
  BY <1>2, <1>3, AddsOne
<1>5. ChatsTyped /\ sess[s].msgs \in Seq(Nat)
  BY <1>1 DEF SessionRecords, ChatsInv
<1>6. promise' \in [Ids -> Seq(Nat) \cup {Absent}]
  BY <1>3, <1>4, <1>5 DEF ChatsTyped
<1>7. promise'[used + 1] = r.msgs /\ \A x \in Ids \ {used + 1} : promise'[x] = promise[x]
  BY <1>2, <1>3, <1>4, <1>5 DEF ChatsTyped
<1>8. OthersStay(used + 1) /\ WorkersRight
  BY <1>3, <1>4, <1>5, <1>6, <1>7 DEF OthersStay, WorkersRight, Titling, ChatsTyped
<1>9. used + 1 \in late' \/ ~Deleting(r.folder)
  BY <1>2, <1>3
<1> QED
  BY <1>2, <1>3, <1>7, <1>8, <1>9, AddingRight

LEMMA ReadSourceKeeps ==
    ASSUME ChatsInv, NEW t \in Workers, NEW s \in Ids, NEW place \in Places,
           NEW k \in 0..Len(sess[s].msgs), ReadSource(t, s, place, k)
    PROVE  ChatsInv'
<1> DEFINE r == OnceOpened(sess[s])
           msgs == sess[s].msgs
           meant == [i \in 1..k |-> msgs[i]]
           copier == [pc |-> "create", place |-> place, wanted |-> Wanted(r),
                      title |-> Suffixed(sess[s].title), msgs |-> Upto(msgs, k),
                      meant |-> meant, new |-> Absent]
<1>1. /\ sess[s] # Absent /\ sess[s] \in SessionRecords /\ sess[s].model = TRUE /\ ChatsTyped
      /\ msgs \in Seq(Nat)
  BY DEF ReadSource, Finds, ChatsInv, ChatsTyped, Homed, SessionRecords
<1>2. /\ r \in SessionRecords /\ r.model = TRUE /\ r.msgs = sess[s].msgs
      /\ r.temp = sess[s].temp /\ r.folder = sess[s].folder /\ r.title = sess[s].title
  BY <1>1 DEF SessionRecords, OnceOpened
<1>3. /\ sess' = [sess EXCEPT ![s] = r] /\ work' = [work EXCEPT ![t] = copier]
      /\ UNCHANGED <<used, folders, titles, promise, named, late>>
  BY DEF ReadSource
<1>4. Wanted(r) \in Assistants \cup {"model"}
  <2> HIDE DEF r
  <2> QED
    BY <1>2 DEF Wanted, SessionRecords
<1>5. meant \in Seq(Nat) /\ Upto(msgs, k) = meant
  BY <1>1 DEF Upto
<1>6. Alters(s, r)
  BY <1>1, <1>2, <1>3 DEF Alters
<1> HIDE DEF r, meant, msgs
<1>7. copier \in Copiers
  BY <1>4, <1>5 DEF Copiers, Suffixed, Title, Looks, ByProgram
<1>8. copier.pc = "create" /\ copier.msgs = copier.meant
  BY <1>5
<1> HIDE DEF copier
<1>9. /\ work' \in [Workers -> {Idle} \cup Copiers \cup Importers \cup Clearers]
      /\ work'[t] = copier /\ \A u \in Workers \ {t} : work'[u] = work[u]
  BY <1>1, <1>3, <1>7 DEF ChatsTyped
<1>10. OthersStay(s)
  BY <1>1, <1>3, <1>9 DEF OthersStay, Titling, ChatsTyped
<1>11. WorkersRight
  <2>1. Making(t)' /\ Clears(t)'
    BY <1>8, <1>9 DEF Making, Clears
  <2> QED
    BY <1>9, <2>1 DEF WorkersRight
<1>12. /\ promise'[s] # Absent => r.msgs = promise'[s] /\ ~r.temp
       /\ s \in named' => ~Titling(s)' /\ r.title = ByUser("plain")
  BY <1>1, <1>2, <1>3 DEF ChatsInv, Promised, Titled, Titling
<1> QED
  BY <1>2, <1>3, <1>6, <1>10, <1>11, <1>12, AlteringRight

\* Steps that change no session.
LEMMA RestingRight ==
    ASSUME ChatsInv, UNCHANGED <<sess, used, folders, promise>>, late \subseteq late',
           named' \subseteq named, titles' \subseteq Generations,
           \A s \in Ids : Titling(s)' => Titling(s),
           work' \in [Workers -> {Idle} \cup Copiers \cup Importers \cup Clearers], WorkersRight
    PROVE  ChatsInv'
<1>1. /\ ChatsTyped /\ \A s \in Ids : Homed(s) /\ Promised(s) /\ Titled(s)
  BY DEF ChatsInv
<1>2. ChatsTyped'
  BY <1>1 DEF ChatsTyped
<1>3. ASSUME NEW s \in Ids
      PROVE  Homed(s)' /\ Promised(s)' /\ Titled(s)'
  BY <1>1 DEF Homed, Promised, Titled
<1>4. Grows /\ FiledRight
  BY <1>1 DEF Grows, FiledRight, Homed, ChatsTyped
<1>5. \A t \in Workers : Making(t)' /\ Clears(t)'
  BY <1>1, <1>2, <1>4, StillMaking, StillClears DEF WorkersRight, ChatsTyped
<1> QED
  BY <1>2, <1>3, <1>5 DEF ChatsInv

\* One worker takes a step.
LEMMA WorkerSteps ==
    ASSUME ChatsTyped, NEW t \in Workers,
           NEW w \in {Idle} \cup Copiers \cup Importers \cup Clearers,
           work' = [work EXCEPT ![t] = w], w = Idle \/ (Making(t)' /\ Clears(t)')
    PROVE  /\ work' \in [Workers -> {Idle} \cup Copiers \cup Importers \cup Clearers]
           /\ work'[t] = w /\ WorkersRight
<1>1. /\ work' \in [Workers -> {Idle} \cup Copiers \cup Importers \cup Clearers]
      /\ work'[t] = w /\ \A u \in Workers \ {t} : work'[u] = work[u]
  BY DEF ChatsTyped
<1>2. w = Idle => Making(t)' /\ Clears(t)'
  BY <1>1 DEF Making, Clears, Idle
<1> QED
  BY <1>1, <1>2 DEF WorkersRight

LEMMA CopierType ==
    ASSUME ChatsInv, NEW t \in Workers, work[t].pc \in {"create", "title", "fill"}
    PROVE  work[t] \in Copiers /\ work[t].msgs = work[t].meant
BY DEF ChatsInv, ChatsTyped, Making, Idle, Importers, Clearers

LEMMA ImporterType ==
    ASSUME ChatsInv, NEW t \in Workers, work[t].pc \in {"import", "importFill", "importTitle"}
    PROVE  work[t] \in Importers /\ Imports[work[t].at] \in Seq(Nat)
<1>1. work[t] \in Importers
  BY DEF ChatsInv, ChatsTyped, Idle, Copiers, Clearers
<1> QED
  BY <1>1, ChatsAssumption DEF Importers

LEMMA ClearerType ==
    ASSUME ChatsInv, NEW t \in Workers, work[t].pc = "clearing"
    PROVE  work[t] \in Clearers
BY DEF ChatsInv, ChatsTyped, Idle, Copiers, Importers

LEMMA MakeCopyKeeps ==
    ASSUME ChatsInv, NEW t \in Workers, MakeCopy(t)
    PROVE  ChatsInv'
<1>1. /\ work[t].pc = "create" /\ UNCHANGED <<folders, assistants, titles, promise, named, late>>
      /\ ChatsTyped
  BY DEF MakeCopy, ChatsInv
<1>2. work[t] \in Copiers /\ work[t].msgs = work[t].meant
  BY <1>1, CopierType
<1>3. CASE Enabled(work[t].wanted)
  <2> DEFINE r == Made(work[t].place, FALSE, work[t].wanted)
             w == [work[t] EXCEPT !.pc = "title", !.new = used + 1]
  <2>1. work[t].wanted # Absent /\ Enabled(Targets(work[t].wanted)) /\ work[t].place \in Places
    BY <1>2, <1>3, ChatsAssumption DEF Targets, Copiers
  <2>2. r \in SessionRecords /\ r.model = TRUE /\ r.folder = Absent /\ r.temp = FALSE
    BY <2>1, MadeRight
  <2>3. Adds(r) /\ work' = [work EXCEPT ![t] = w]
    BY <1>3 DEF MakeCopy
  <2> HIDE DEF r
  <2>4. /\ used + 1 \in Ids /\ used' = used + 1 /\ used' \in 0..MaxSessions
        /\ sess[used + 1] = Absent /\ sess'[used + 1] = r
    BY <2>2, <2>3, AddsOne DEF Adds
  <2>5. /\ w \in Copiers /\ w.pc = "title" /\ w.new = used' /\ w.msgs = w.meant
    BY <1>2, <2>4 DEF Copiers
  <2> HIDE DEF w
  <2>6. Making(t)' /\ Clears(t)'
    <3>1. work'[t] = w /\ used' \in 1..used' /\ ~sess'[used'].temp
      BY <1>1, <2>2, <2>3, <2>4 DEF ChatsTyped
    <3> QED
      BY <2>5, <3>1 DEF Making, Clears
  <2>7. work' \in [Workers -> {Idle} \cup Copiers \cup Importers \cup Clearers] /\ WorkersRight
    BY <1>1, <2>3, <2>5, <2>6, WorkerSteps
  <2>8. OthersStay(used + 1)
    BY <1>1, <2>4, <2>7 DEF OthersStay, Titling, ChatsTyped
  <2>9. promise'[used + 1] = Absent
    BY <1>1, <2>4 DEF ChatsInv, Promised
  <2> QED
    BY <1>1, <2>2, <2>3, <2>7, <2>8, <2>9, AddingRight
<1>4. CASE ~Enabled(work[t].wanted)
  <2>1. UNCHANGED <<sess, used>> /\ work' = [work EXCEPT ![t] = Idle]
    BY <1>4 DEF MakeCopy, Ends
  <2>2. work' \in [Workers -> {Idle} \cup Copiers \cup Importers \cup Clearers] /\ WorkersRight
    BY <1>1, <2>1, WorkerSteps
  <2> QED
    BY <1>1, <2>1, <2>2, RestingRight DEF ChatsTyped, Titling
<1> QED
  BY <1>3, <1>4

LEMMA TitleCopyKeeps ==
    ASSUME ChatsInv, NEW t \in Workers, TitleCopy(t)
    PROVE  ChatsInv'
<1> DEFINE new == work[t].new
           w == [work[t] EXCEPT !.pc = "fill"]
<1>1. /\ work[t].pc = "title" /\ UNCHANGED <<used, folders, titles, promise, late>>
      /\ named' = named \ {new} /\ ChatsTyped
  BY DEF TitleCopy, ChatsInv
<1>2. work[t] \in Copiers /\ work[t].msgs = work[t].meant
  BY <1>1, CopierType
<1>3. new \in 1..used /\ (sess[new] # Absent => ~sess[new].temp)
  BY <1>1 DEF ChatsInv, Making
<1>4. new \in Ids
  BY <1>1, <1>3, ChatsAssumption DEF ChatsTyped, Ids
<1>5. w \in Copiers /\ w.pc = "fill" /\ w.new = new /\ w.msgs = w.meant
  BY <1>2 DEF Copiers
<1>6. CASE Finds(new, work[t].place)
  <2> DEFINE r == [sess[new] EXCEPT !.title = work[t].title]
  <2>1. sess[new] # Absent /\ sess[new] \in SessionRecords /\ sess[new].model = TRUE
    BY <1>4, <1>6 DEF Finds, ChatsInv, ChatsTyped, Homed
  <2>2. /\ r \in SessionRecords /\ r.model = TRUE /\ r.msgs = sess[new].msgs
        /\ r.temp = sess[new].temp /\ r.folder = sess[new].folder
    BY <1>2, <2>1 DEF SessionRecords, Copiers
  <2>3. /\ sess' = [sess EXCEPT ![new] = r]
        /\ work' = [work EXCEPT ![t] = Idle] \/ work' = [work EXCEPT ![t] = w]
    BY <1>6 DEF TitleCopy, Ends
  <2> HIDE DEF r, w
  <2>4. sess'[new] = r
    BY <1>1, <1>4, <2>3 DEF ChatsTyped
  <2>5. work' = [work EXCEPT ![t] = w] => Making(t)' /\ Clears(t)'
    <3> SUFFICES ASSUME work' = [work EXCEPT ![t] = w]
                 PROVE  Making(t)' /\ Clears(t)'
      OBVIOUS
    <3>1. work'[t] = w
      BY <1>1 DEF ChatsTyped
    <3>2. new \in 1..used' /\ ~sess'[new].temp
      BY <1>1, <1>3, <2>1, <2>2, <2>4
    <3> HIDE DEF new
    <3> QED
      BY <1>5, <3>1, <3>2 DEF Making, Clears
  <2>6. work' \in [Workers -> {Idle} \cup Copiers \cup Importers \cup Clearers] /\ WorkersRight
    BY <1>1, <1>5, <2>3, <2>5, WorkerSteps
  <2>7. Alters(new, r)
    BY <1>1, <2>1, <2>2, <2>3 DEF Alters
  <2>8. OthersStay(new)
    BY <1>1, <2>6 DEF OthersStay, Titling, ChatsTyped
  <2>9. /\ promise'[new] # Absent => r.msgs = promise'[new] /\ ~r.temp
        /\ new \notin named'
    BY <1>1, <1>4, <2>2 DEF ChatsInv, Promised
  <2> HIDE DEF new
  <2> QED
    BY <1>1, <1>4, <2>2, <2>6, <2>7, <2>8, <2>9, AlteringRight
<1>7. CASE ~Finds(new, work[t].place)
  <2>1. UNCHANGED sess /\ work' = [work EXCEPT ![t] = Idle]
    BY <1>7 DEF TitleCopy, Ends
  <2>2. work' \in [Workers -> {Idle} \cup Copiers \cup Importers \cup Clearers] /\ WorkersRight
    BY <1>1, <2>1, WorkerSteps
  <2> QED
    BY <1>1, <2>1, <2>2, RestingRight DEF ChatsTyped, Titling
<1> QED
  BY <1>6, <1>7

LEMMA SameTitles ==
    ASSUME ChatsInv, UNCHANGED <<titles, named>>, NEW s \in Ids, sess[s] # Absent, s \in named'
    PROVE  ~Titling(s)' /\ sess[s].title = ByUser("plain")
BY DEF ChatsInv, Titled, Titling

LEMMA FillCopyKeeps ==
    ASSUME ChatsInv, NEW t \in Workers, FillCopy(t)
    PROVE  ChatsInv'
<1> DEFINE new == work[t].new
<1>1. /\ work[t].pc = "fill" /\ UNCHANGED <<used, folders, titles, named, late>>
      /\ work' = [work EXCEPT ![t] = Idle] /\ ChatsTyped
  BY DEF FillCopy, ChatsInv, Ends
<1>2. work[t] \in Copiers /\ work[t].msgs = work[t].meant /\ work[t].msgs \in Seq(Nat)
  BY <1>1, CopierType DEF Copiers
<1>3. new \in 1..used /\ (sess[new] # Absent => ~sess[new].temp)
  BY <1>1 DEF ChatsInv, Making
<1>4. new \in Ids
  BY <1>1, <1>3, ChatsAssumption DEF ChatsTyped, Ids
<1>5. work' \in [Workers -> {Idle} \cup Copiers \cup Importers \cup Clearers] /\ WorkersRight
  BY <1>1, WorkerSteps
<1>6. CASE Finds(new, work[t].place)
  <2> DEFINE r == [sess[new] EXCEPT !.msgs = work[t].msgs]
  <2>1. sess[new] # Absent /\ sess[new] \in SessionRecords /\ sess[new].model = TRUE
    BY <1>4, <1>6 DEF Finds, ChatsInv, ChatsTyped, Homed
  <2>2. /\ r \in SessionRecords /\ r.model = TRUE /\ r.msgs = work[t].msgs
        /\ r.temp = sess[new].temp /\ r.folder = sess[new].folder /\ r.title = sess[new].title
    BY <1>2, <2>1 DEF SessionRecords
  <2>3. /\ sess' = [sess EXCEPT ![new] = r]
        /\ promise' = [promise EXCEPT ![new] = work[t].msgs]
    BY <1>2, <1>6 DEF FillCopy
  <2> HIDE DEF r
  <2>4. /\ promise' \in [Ids -> Seq(Nat) \cup {Absent}] /\ promise'[new] = r.msgs
        /\ \A x \in Ids \ {new} : promise'[x] = promise[x]
    BY <1>1, <1>2, <1>4, <2>2, <2>3 DEF ChatsTyped
  <2>5. Alters(new, r)
    BY <1>1, <2>1, <2>2, <2>3 DEF Alters
  <2>6. OthersStay(new)
    BY <1>1, <1>5, <2>4 DEF OthersStay, Titling, ChatsTyped
  <2>7. ~r.temp
    BY <1>3, <2>1, <2>2
  <2> HIDE DEF new
  <2>8. \A x \in Ids : x = new => (x \in named' => ~Titling(x)' /\ r.title = ByUser("plain"))
    BY <1>1, <2>1, <2>2, SameTitles
  <2> QED
    BY <1>1, <1>4, <1>5, <2>2, <2>4, <2>5, <2>6, <2>7, <2>8, AlteringRight
<1>7. CASE ~Finds(new, work[t].place)
  <2>1. UNCHANGED <<sess, promise>>
    BY <1>7 DEF FillCopy
  <2> QED
    BY <1>1, <1>5, <2>1, RestingRight DEF ChatsTyped, Titling
<1> QED
  BY <1>6, <1>7

LEMMA ImportKeeps ==
    ASSUME ChatsInv, NEW t \in Workers, NEW place \in Places, Import(t, place)
    PROVE  ChatsInv'
<1> DEFINE w == [pc |-> "import", place |-> place, at |-> 1, new |-> Absent]
<1>1. /\ UNCHANGED <<sess, used, folders, titles, promise, named, late>>
      /\ work' = [work EXCEPT ![t] = w] /\ ChatsTyped
  BY DEF Import, ChatsInv
<1>2. 1 \in 1..Len(Imports)
  BY ChatsAssumption
<1>3. w \in Importers /\ w.pc = "import"
  BY <1>2 DEF Importers
<1> HIDE DEF w
<1>4. Making(t)' /\ Clears(t)'
  BY <1>1, <1>3 DEF ChatsTyped, Making, Clears
<1>5. work' \in [Workers -> {Idle} \cup Copiers \cup Importers \cup Clearers] /\ WorkersRight
  BY <1>1, <1>3, <1>4, WorkerSteps
<1> QED
  BY <1>1, <1>5, RestingRight DEF ChatsTyped, Titling

\* The next conversation of an import.
LEMMA NextRight ==
    ASSUME ChatsInv, NEW t \in Workers, NextImport(t), work[t] \in Importers
    PROVE  work' \in [Workers -> {Idle} \cup Copiers \cup Importers \cup Clearers] /\ WorkersRight
<1>1. ChatsTyped
  BY DEF ChatsInv
<1>2. CASE work[t].at = Len(Imports)
  BY <1>1, <1>2, WorkerSteps DEF NextImport, Ends
<1>3. CASE work[t].at # Len(Imports)
  <2> DEFINE w == [work[t] EXCEPT !.pc = "import", !.at = @ + 1]
  <2>1. work' = [work EXCEPT ![t] = w]
    BY <1>3 DEF NextImport
  <2>2. work[t].at + 1 \in 1..Len(Imports)
    BY <1>3, ChatsAssumption DEF Importers
  <2>3. w \in Importers /\ w.pc = "import"
    BY <2>2 DEF Importers
  <2> HIDE DEF w
  <2>4. Making(t)' /\ Clears(t)'
    BY <1>1, <2>1, <2>3 DEF ChatsTyped, Making, Clears
  <2> QED
    BY <1>1, <2>1, <2>3, <2>4, WorkerSteps
<1> QED
  BY <1>2, <1>3

LEMMA ImportCreateKeeps ==
    ASSUME ChatsInv, NEW t \in Workers, ImportCreate(t)
    PROVE  ChatsInv'
<1>1. /\ work[t].pc = "import" /\ UNCHANGED <<folders, titles, promise, named, late>>
      /\ ChatsTyped
  BY DEF ImportCreate, ChatsInv
<1>2. work[t] \in Importers
  BY <1>1, ImporterType
<1>3. CASE Imports[work[t].at] # <<>> /\ Enabled(Default)
  <2> DEFINE r == Made(work[t].place, FALSE, Absent)
             w == [work[t] EXCEPT !.pc = "importFill", !.new = used + 1]
  <2>1. Enabled(Targets(Absent)) /\ work[t].place \in Places
    BY <1>2, <1>3 DEF Targets, Importers
  <2>2. r \in SessionRecords /\ r.model = TRUE /\ r.folder = Absent /\ r.temp = FALSE
    BY <2>1, MadeRight
  <2>3. Adds(r) /\ work' = [work EXCEPT ![t] = w]
    BY <1>3 DEF ImportCreate
  <2> HIDE DEF r
  <2>4. /\ used + 1 \in Ids /\ used' = used + 1 /\ used' \in 0..MaxSessions
        /\ sess[used + 1] = Absent /\ sess'[used + 1] = r
    BY <2>2, <2>3, AddsOne DEF Adds
  <2>5. w \in Importers /\ w.pc = "importFill" /\ w.new = used'
    BY <1>2, <2>4 DEF Importers
  <2> HIDE DEF w
  <2>6. Making(t)' /\ Clears(t)'
    <3>1. work'[t] = w /\ used' \in 1..used' /\ ~sess'[used'].temp
      BY <1>1, <2>2, <2>3, <2>4 DEF ChatsTyped
    <3> QED
      BY <2>5, <3>1 DEF Making, Clears
  <2>7. work' \in [Workers -> {Idle} \cup Copiers \cup Importers \cup Clearers] /\ WorkersRight
    BY <1>1, <2>3, <2>5, <2>6, WorkerSteps
  <2>8. OthersStay(used + 1)
    BY <1>1, <2>4, <2>7 DEF OthersStay, Titling, ChatsTyped
  <2>9. promise'[used + 1] = Absent
    BY <1>1, <2>4 DEF ChatsInv, Promised
  <2> QED
    BY <1>1, <2>2, <2>3, <2>7, <2>8, <2>9, AddingRight
<1>4. CASE ~(Imports[work[t].at] # <<>> /\ Enabled(Default))
  <2>1. UNCHANGED <<sess, used>> /\ NextImport(t)
    BY <1>4 DEF ImportCreate
  <2>2. work' \in [Workers -> {Idle} \cup Copiers \cup Importers \cup Clearers] /\ WorkersRight
    BY <1>2, <2>1, NextRight
  <2> QED
    BY <1>1, <2>1, <2>2, RestingRight DEF ChatsTyped, Titling
<1> QED
  BY <1>3, <1>4

LEMMA ImportFillKeeps ==
    ASSUME ChatsInv, NEW t \in Workers, ImportFill(t)
    PROVE  ChatsInv'
<1> DEFINE new == work[t].new
           w == [work[t] EXCEPT !.pc = "importTitle"]
           msgs == Imports[work[t].at]
<1>1. /\ work[t].pc = "importFill" /\ UNCHANGED <<used, folders, titles, named, late>>
      /\ ChatsTyped
  BY DEF ImportFill, ChatsInv
<1>2. work[t] \in Importers /\ msgs \in Seq(Nat)
  BY <1>1, ImporterType
<1>3. new \in 1..used /\ (sess[new] # Absent => ~sess[new].temp)
  BY <1>1 DEF ChatsInv, Making
<1>4. new \in Ids
  BY <1>1, <1>3, ChatsAssumption DEF ChatsTyped, Ids
<1>5. w \in Importers /\ w.pc = "importTitle" /\ w.new = new
  BY <1>2 DEF Importers
<1>6. CASE Finds(new, work[t].place)
  <2> DEFINE r == [sess[new] EXCEPT !.msgs = msgs]
  <2>1. sess[new] # Absent /\ sess[new] \in SessionRecords /\ sess[new].model = TRUE
    BY <1>4, <1>6 DEF Finds, ChatsInv, ChatsTyped, Homed
  <2>2. /\ sess' = [sess EXCEPT ![new] = r] /\ promise' = [promise EXCEPT ![new] = msgs]
        /\ work' = [work EXCEPT ![t] = w]
    BY <1>6 DEF ImportFill
  <2> HIDE DEF msgs
  <2>3. /\ r \in SessionRecords /\ r.model = TRUE /\ r.msgs = msgs
        /\ r.temp = sess[new].temp /\ r.folder = sess[new].folder /\ r.title = sess[new].title
    BY <1>2, <2>1 DEF SessionRecords
  <2> HIDE DEF r, w
  <2>4. /\ promise' \in [Ids -> Seq(Nat) \cup {Absent}] /\ promise'[new] = r.msgs
        /\ \A x \in Ids \ {new} : promise'[x] = promise[x] /\ sess'[new] = r
    BY <1>1, <1>2, <1>4, <2>2, <2>3 DEF ChatsTyped
  <2>5. ~r.temp
    BY <1>3, <2>1, <2>3
  <2>6. Alters(new, r)
    BY <1>1, <2>1, <2>2, <2>3 DEF Alters
  <2>7. sess'[new] = r /\ work'[t] = w
    BY <1>1, <1>4, <2>2 DEF ChatsTyped
  <2> HIDE DEF new
  <2>8. Making(t)' /\ Clears(t)'
    <3>1. new \in 1..used' /\ ~sess'[new].temp
      BY <1>1, <1>3, <2>5, <2>7
    <3> QED
      BY <1>5, <2>7, <3>1 DEF Making, Clears
  <2>9. work' \in [Workers -> {Idle} \cup Copiers \cup Importers \cup Clearers] /\ WorkersRight
    BY <1>1, <1>5, <2>2, <2>8, WorkerSteps
  <2>10. OthersStay(new)
    BY <1>1, <2>4, <2>9 DEF OthersStay, Titling, ChatsTyped
  <2>11. \A x \in Ids : x = new => (x \in named' => ~Titling(x)' /\ r.title = ByUser("plain"))
    BY <1>1, <2>1, <2>3, SameTitles
  <2> QED
    BY <1>1, <1>4, <2>3, <2>4, <2>5, <2>6, <2>9, <2>10, <2>11, AlteringRight
<1>7. CASE ~Finds(new, work[t].place)
  <2>1. UNCHANGED <<sess, promise>> /\ NextImport(t)
    BY <1>7 DEF ImportFill
  <2>2. work' \in [Workers -> {Idle} \cup Copiers \cup Importers \cup Clearers] /\ WorkersRight
    BY <1>2, <2>1, NextRight
  <2> QED
    BY <1>1, <2>1, <2>2, RestingRight DEF ChatsTyped, Titling
<1> QED
  BY <1>6, <1>7

LEMMA ImportTitleKeeps ==
    ASSUME ChatsInv, NEW t \in Workers, NEW look \in TitleTexts, ImportTitle(t, look)
    PROVE  ChatsInv'
<1> DEFINE new == work[t].new
<1>1. /\ work[t].pc = "importTitle" /\ UNCHANGED <<used, folders, titles, promise, late>>
      /\ named' = named \ {new} /\ NextImport(t) /\ ChatsTyped
  BY DEF ImportTitle, ChatsInv
<1>2. work[t] \in Importers
  BY <1>1, ImporterType
<1>3. new \in 1..used
  BY <1>1 DEF ChatsInv, Making
<1>4. new \in Ids
  BY <1>1, <1>3, ChatsAssumption DEF ChatsTyped, Ids
<1>5. work' \in [Workers -> {Idle} \cup Copiers \cup Importers \cup Clearers] /\ WorkersRight
  BY <1>1, <1>2, NextRight
<1>6. CASE Finds(new, work[t].place)
  <2> DEFINE r == [sess[new] EXCEPT !.title = ByProgram(look)]
  <2>1. sess[new] # Absent /\ sess[new] \in SessionRecords /\ sess[new].model = TRUE
    BY <1>4, <1>6 DEF Finds, ChatsInv, ChatsTyped, Homed
  <2>2. /\ r \in SessionRecords /\ r.model = TRUE /\ r.msgs = sess[new].msgs
        /\ r.temp = sess[new].temp /\ r.folder = sess[new].folder
    BY <2>1, ChatsAssumption DEF SessionRecords, Title, ByProgram
  <2>3. sess' = [sess EXCEPT ![new] = r]
    BY <1>6 DEF ImportTitle
  <2> HIDE DEF r, new
  <2>4. Alters(new, r)
    BY <1>1, <2>1, <2>2, <2>3 DEF Alters
  <2>5. OthersStay(new)
    BY <1>1, <1>5 DEF OthersStay, Titling, ChatsTyped
  <2>6. /\ promise'[new] # Absent => r.msgs = promise'[new] /\ ~r.temp
        /\ new \notin named'
    BY <1>1, <1>4, <2>2 DEF ChatsInv, Promised
  <2> QED
    BY <1>1, <1>4, <1>5, <2>2, <2>4, <2>5, <2>6, AlteringRight
<1>7. CASE ~Finds(new, work[t].place)
  <2>1. UNCHANGED sess
    BY <1>7 DEF ImportTitle
  <2> QED
    BY <1>1, <1>5, <2>1, RestingRight DEF ChatsTyped, Titling
<1> QED
  BY <1>6, <1>7

LEMMA DeleteFolderKeeps ==
    ASSUME ChatsInv, NEW t \in Workers, NEW f \in Folders, DeleteFolder(t, f)
    PROVE  ChatsInv'
<1> DEFINE w == [pc |-> "clearing", folder |-> f, todo |-> InFolder(f)]
<1>1. /\ UNCHANGED <<sess, used, folders, titles, promise, named>> /\ ChatsTyped
      /\ work' = [work EXCEPT ![t] = w]
      /\ late' = late \cup {s \in Ids \ InFolder(f) : sess[s] # Absent /\ sess[s].folder = f}
  BY DEF DeleteFolder, WithoutFolder, ChatsInv
<1>2. w \in Clearers /\ w.pc = "clearing" /\ w.folder = f /\ w.todo = InFolder(f)
  BY DEF Clearers, InFolder
<1> HIDE DEF w
<1>3. work'[t] = w
  BY <1>1 DEF ChatsTyped
<1>4. Making(t)' /\ Clears(t)'
  <2>1. Making(t)'
    BY <1>2, <1>3 DEF Making
  <2>2. \A s \in Ids : sess'[s] # Absent /\ sess'[s].folder = f => s \in InFolder(f) \cup late'
    BY <1>1
  <2> QED
    BY <1>2, <1>3, <2>1, <2>2 DEF Clears
<1>5. work' \in [Workers -> {Idle} \cup Copiers \cup Importers \cup Clearers] /\ WorkersRight
  BY <1>1, <1>2, <1>4, WorkerSteps
<1> QED
  BY <1>1, <1>5, RestingRight DEF ChatsTyped, Titling

LEMMA ClearFolderKeeps ==
    ASSUME ChatsInv, NEW t \in Workers, NEW s \in Ids, ClearFolder(t, s)
    PROVE  ChatsInv'
<1> DEFINE w == [work[t] EXCEPT !.todo = @ \ {s}]
<1>1. /\ work[t].pc = "clearing" /\ UNCHANGED <<used, folders, titles, promise, named>>
      /\ work' = [work EXCEPT ![t] = w] /\ ChatsTyped
  BY DEF ClearFolder, ChatsInv
<1>2. work[t] \in Clearers
  BY <1>1, ClearerType
<1>3. /\ w \in Clearers /\ w.pc = "clearing" /\ w.folder = work[t].folder
      /\ w.todo = work[t].todo \ {s} /\ w.folder \in Folders
  BY <1>2 DEF Clearers
<1> HIDE DEF w
<1>4. work'[t] = w
  BY <1>1 DEF ChatsTyped
<1>5. Making(t)'
  BY <1>3, <1>4 DEF Making
<1>6. \A x \in Ids : sess[x] # Absent /\ sess[x].folder = w.folder => x \in w.todo \cup late \cup {s}
  BY <1>1, <1>3 DEF ChatsInv, Clears
<1>7. CASE Finds(s, "chat")
  <2> DEFINE r == [sess[s] EXCEPT !.folder = Absent]
  <2>1. sess[s] # Absent /\ sess[s] \in SessionRecords /\ sess[s].model = TRUE
    BY <1>7 DEF Finds, ChatsInv, ChatsTyped, Homed
  <2>2. /\ r \in SessionRecords /\ r.model = TRUE /\ r.msgs = sess[s].msgs
        /\ r.temp = sess[s].temp /\ r.folder = Absent /\ r.title = sess[s].title
    BY <2>1 DEF SessionRecords
  <2>3. sess' = [sess EXCEPT ![s] = r] /\ late' = late
    BY <1>7 DEF ClearFolder
  <2> HIDE DEF r
  <2>4. sess'[s] = r /\ \A x \in Ids \ {s} : sess'[x] = sess[x]
    BY <1>1, <2>3 DEF ChatsTyped
  <2>5. Clears(t)'
    BY <1>3, <1>4, <1>6, <2>2, <2>3, <2>4, ChatsAssumption DEF Clears
  <2>6. work' \in [Workers -> {Idle} \cup Copiers \cup Importers \cup Clearers] /\ WorkersRight
    BY <1>1, <1>3, <1>5, <2>5, WorkerSteps
  <2>7. Alters(s, r)
    BY <1>1, <2>1, <2>2, <2>3 DEF Alters
  <2>8. OthersStay(s)
    BY <1>1, <2>3, <2>6 DEF OthersStay, Titling, ChatsTyped
  <2>9. /\ promise'[s] # Absent => r.msgs = promise'[s] /\ ~r.temp
        /\ s \in named' => ~Titling(s)' /\ r.title = ByUser("plain")
    BY <1>1, <2>1, <2>2, SameTitles DEF ChatsInv, Promised
  <2> QED
    BY <2>2, <2>6, <2>7, <2>8, <2>9, AlteringRight
<1>8. CASE ~Finds(s, "chat")
  <2>1. UNCHANGED sess /\ late' = late \cup {s}
    BY <1>8 DEF ClearFolder
  <2>2. Clears(t)'
    BY <1>3, <1>4, <1>6, <2>1 DEF Clears
  <2>3. work' \in [Workers -> {Idle} \cup Copiers \cup Importers \cup Clearers] /\ WorkersRight
    BY <1>1, <1>3, <1>5, <2>2, WorkerSteps
  <2> QED
    BY <1>1, <2>1, <2>3, RestingRight DEF ChatsTyped, Titling
<1> QED
  BY <1>7, <1>8

LEMMA DropFolderKeeps ==
    ASSUME ChatsInv, NEW t \in Workers, DropFolder(t)
    PROVE  ChatsInv'
<1>1. /\ work[t].pc = "clearing" /\ work[t].todo = {} /\ ChatsTyped
      /\ work' = [work EXCEPT ![t] = Idle] /\ folders' = folders \ {work[t].folder}
      /\ UNCHANGED <<sess, used, titles, promise, named, late>>
  BY DEF DropFolder, Ends, ChatsInv
<1>2. \A s \in Ids : sess[s] # Absent /\ sess[s].folder = work[t].folder => s \in late
  BY <1>1 DEF ChatsInv, Clears
<1>3. work' \in [Workers -> {Idle} \cup Copiers \cup Importers \cup Clearers] /\ WorkersRight
  BY <1>1, WorkerSteps
<1>4. ChatsTyped'
  BY <1>1, <1>3 DEF ChatsTyped
<1>5. ASSUME NEW s \in Ids
      PROVE  Homed(s)' /\ Promised(s)' /\ Titled(s)'
  <2>1. Homed(s) /\ Promised(s) /\ Titled(s)
    BY DEF ChatsInv
  <2> QED
    BY <1>1, <1>2, <2>1 DEF Homed, Promised, Titled, Titling
<1>6. ASSUME NEW u \in Workers
      PROVE  Making(u)' /\ Clears(u)'
  BY <1>1, <1>3 DEF WorkersRight, ChatsInv, Making, Clears
<1> QED
  BY <1>4, <1>5, <1>6 DEF ChatsInv

LEMMA TurnKeeps ==
    ASSUME ChatsInv, requests \in Nat, NEW s \in Ids, NEW place \in Places, Turn(s, place)
    PROVE  ChatsInv'
<1> DEFINE n == Len(sess[s].msgs)
           o == OnceOpened(sess[s])
<1>1. /\ sess[s] # Absent /\ sess[s] \in SessionRecords /\ sess[s].model = TRUE /\ ChatsTyped
      /\ sess[s].msgs \in Seq(Nat) /\ n \in Nat
  BY DEF Turn, Finds, ChatsInv, ChatsTyped, Homed, SessionRecords
<1>2. /\ UNCHANGED <<used, folders, work, named, late>>
      /\ promise' = [promise EXCEPT ![s] = Absent]
  BY DEF Turn
<1>3. PICK title \in Questioned(sess[s].title) :
        /\ sess' = [sess EXCEPT ![s] = [o EXCEPT !.msgs = @ \o <<n + 1, n + 2>>,
                                                 !.title = title]]
        /\ \/ titles' = titles
           \/ ~sess[s].temp /\ ShouldGenerate(title.look) /\ titles' = titles \cup {Job(s)}
  BY DEF Turn
<1>4. /\ o \in SessionRecords /\ o.model = TRUE /\ o.msgs = sess[s].msgs
      /\ o.temp = sess[s].temp /\ o.folder = sess[s].folder
  BY <1>1 DEF SessionRecords, OnceOpened
<1> DEFINE r == [o EXCEPT !.msgs = @ \o <<n + 1, n + 2>>, !.title = title]
<1>5. sess' = [sess EXCEPT ![s] = r]
  BY <1>3
<1>6. title \in Title
  BY <1>1, <1>3, ChatsAssumption DEF SessionRecords, Questioned, Title, ByProgram
<1> HIDE DEF o
<1>7. /\ r \in SessionRecords /\ r.model = TRUE /\ r.temp = sess[s].temp
      /\ r.folder = sess[s].folder /\ r.title = title
  <2>1. o.msgs \o <<n + 1, n + 2>> \in Seq(Nat)
    BY <1>1, <1>4
  <2> HIDE DEF n
  <2> QED
    BY <1>4, <1>6, <2>1 DEF SessionRecords
<1> HIDE DEF r, n
<1>8. Alters(s, r)
  BY <1>1, <1>2, <1>5, <1>7 DEF Alters
<1>9. /\ promise' \in [Ids -> Seq(Nat) \cup {Absent}] /\ promise'[s] = Absent
      /\ \A x \in Ids \ {s} : promise'[x] = promise[x]
  BY <1>1, <1>2 DEF ChatsTyped
<1>10. titles' \subseteq Generations
  <2>1. Job(s) \in Generations
    BY DEF Job, Generations
  <2>2. titles \subseteq Generations
    BY <1>1 DEF ChatsTyped
  <2> QED
    BY <1>3, <2>1, <2>2, Zenon
<1>11. \A x \in Ids \ {s} : Titling(x)' => Titling(x)
  BY <1>3 DEF Titling, Job
<1>12. OthersStay(s) /\ WorkersRight
  BY <1>1, <1>2, <1>9, <1>10, <1>11 DEF OthersStay, WorkersRight, ChatsTyped
<1>13. s \in named' => ~Titling(s)' /\ r.title = ByUser("plain")
  <2> SUFFICES ASSUME s \in named PROVE ~Titling(s)' /\ r.title = ByUser("plain")
    BY <1>2
  <2>1. ~Titling(s) /\ sess[s].title = ByUser("plain")
    BY <1>1 DEF ChatsInv, Titled
  <2>2. title = ByUser("plain") /\ title.look = "plain"
    BY <1>3, <2>1 DEF Questioned, ByUser
  <2>3. titles' = titles
    BY <1>3, <2>2 DEF ShouldGenerate
  <2> QED
    BY <1>7, <2>1, <2>2, <2>3 DEF Titling
<1> QED
  BY <1>2, <1>7, <1>8, <1>9, <1>12, <1>13, AlteringRight

LEMMA ShortenKeeps ==
    ASSUME ChatsInv, NEW s \in Ids, NEW place \in Places, NEW msgs \in Seq(Nat),
           Shorten(s, place, msgs)
    PROVE  ChatsInv'
<1> DEFINE title == IF msgs = <<>> THEN ByProgram("chat") ELSE sess[s].title
           r == [sess[s] EXCEPT !.msgs = msgs, !.title = title]
<1>1. sess[s] # Absent /\ sess[s] \in SessionRecords /\ sess[s].model = TRUE /\ ChatsTyped
  BY DEF Shorten, Finds, ChatsInv, ChatsTyped, Homed
<1>2. /\ UNCHANGED <<used, folders, work, titles, late>>
      /\ promise' = [promise EXCEPT ![s] = Absent]
      /\ named' = IF msgs = <<>> THEN named \ {s} ELSE named
  BY DEF Shorten
<1>3. sess' = [sess EXCEPT ![s] = r]
  BY <1>1 DEF Shorten, ChatsTyped
<1>4. title \in Title
  BY <1>1 DEF SessionRecords, Title, Looks, ByProgram
<1>5. msgs # <<>> => title = sess[s].title
  OBVIOUS
<1> HIDE DEF title
<1>6. /\ r \in SessionRecords /\ r.model = TRUE /\ r.temp = sess[s].temp
      /\ r.folder = sess[s].folder /\ r.title = title
  BY <1>1, <1>4 DEF SessionRecords
<1> HIDE DEF r
<1>7. Alters(s, r)
  BY <1>1, <1>2, <1>3, <1>6 DEF Alters
<1>8. /\ promise' \in [Ids -> Seq(Nat) \cup {Absent}] /\ promise'[s] = Absent
      /\ \A x \in Ids \ {s} : promise'[x] = promise[x]
  BY <1>1, <1>2 DEF ChatsTyped
<1>9. OthersStay(s) /\ WorkersRight
  BY <1>1, <1>2, <1>8 DEF OthersStay, WorkersRight, Titling, ChatsTyped
<1>10. s \in named' => ~Titling(s)' /\ r.title = ByUser("plain")
  BY <1>1, <1>2, <1>5, <1>6 DEF ChatsInv, Titled, Titling
<1> QED
  BY <1>2, <1>6, <1>7, <1>8, <1>9, <1>10, AlteringRight

LEMMA ListWithoutOne ==
    ASSUME NEW msgs \in Seq(Nat), NEW k \in DOMAIN msgs
    PROVE  WithoutMessage(msgs, k) \in Seq(Nat)
<1>1. SubSeq(msgs, 1, k - 1) \in Seq(Nat) /\ SubSeq(msgs, k + 1, Len(msgs)) \in Seq(Nat)
  OBVIOUS
<1> QED
  BY <1>1 DEF WithoutMessage

LEMMA GenerateTitleKeeps ==
    ASSUME ChatsInv, requests \in Nat, NEW s \in Ids, GenerateTitle(s)
    PROVE  ChatsInv'
<1>1. /\ titles' = titles \cup {Job(s)} /\ named' = named \ {s}
      /\ UNCHANGED <<sess, used, folders, work, promise, late>>
      /\ ChatsTyped /\ \A x \in Ids : Homed(x) /\ Promised(x) /\ Titled(x)
      /\ \A t \in Workers : Making(t) /\ Clears(t)
  BY DEF GenerateTitle, ChatsInv
<1>2. Job(s) \in Generations /\ Job(s).s = s
  BY DEF Job, Generations
<1>3. ChatsTyped'
  BY <1>1, <1>2 DEF ChatsTyped
<1>4. \A x \in Ids \ {s} : Titling(x)' => Titling(x)
  BY <1>1, <1>2 DEF Titling
<1>5. \A x \in Ids : Homed(x)' /\ Promised(x)' /\ Titled(x)'
  BY <1>1, <1>4 DEF Homed, Promised, Titled
<1>6. \A t \in Workers : Making(t)' /\ Clears(t)'
  BY <1>1 DEF Making, Clears
<1> QED
  BY <1>3, <1>5, <1>6 DEF ChatsInv

LEMMA AskTitleKeeps ==
    ASSUME ChatsInv, NEW asking \in titles, AskTitle(asking)
    PROVE  ChatsInv'
<1> DEFINE s == asking.s
           r == OnceOpened(sess[s])
<1>1. /\ UNCHANGED <<used, folders, work, promise, named, late>> /\ ChatsTyped
      /\ titles' = (titles \ {asking})
                     \cup (IF Finds(s, "chat") /\ sess[s].msgs # <<>>
                           THEN {[asking EXCEPT !.asked = TRUE]} ELSE {})
  BY DEF AskTitle, ChatsInv
<1>2. s \in Ids /\ [asking EXCEPT !.asked = TRUE] \in Generations
      /\ [asking EXCEPT !.asked = TRUE].s = s
  BY <1>1 DEF ChatsTyped, Generations
<1>3. titles' \subseteq Generations /\ \A x \in Ids : Titling(x)' => Titling(x)
  BY <1>1, <1>2 DEF ChatsTyped, Titling
<1>4. WorkersRight /\ work' \in [Workers -> {Idle} \cup Copiers \cup Importers \cup Clearers]
  BY <1>1 DEF WorkersRight, ChatsTyped
<1>5. CASE Finds(s, "chat")
  <2>1. sess[s] # Absent /\ sess[s] \in SessionRecords /\ sess[s].model = TRUE
    BY <1>2, <1>5 DEF Finds, ChatsInv, ChatsTyped, Homed
  <2>2. /\ r \in SessionRecords /\ r.model = TRUE /\ r.msgs = sess[s].msgs
        /\ r.temp = sess[s].temp /\ r.folder = sess[s].folder /\ r.title = sess[s].title
    BY <2>1 DEF SessionRecords, OnceOpened
  <2>3. sess' = [sess EXCEPT ![s] = r]
    BY <1>1, <1>2, <1>5 DEF AskTitle, ChatsTyped
  <2> HIDE DEF r
  <2>4. Alters(s, r)
    BY <1>1, <2>1, <2>2, <2>3 DEF Alters
  <2>5. OthersStay(s)
    BY <1>1, <1>3, <1>4 DEF OthersStay, ChatsTyped
  <2>6. promise'[s] # Absent => r.msgs = promise'[s] /\ ~r.temp
    BY <1>1, <1>2, <2>1, <2>2 DEF ChatsInv, Promised
  <2>7. s \notin named
    BY <1>2 DEF ChatsInv, Titled, Titling
  <2> QED
    BY <1>1, <1>2, <1>4, <2>2, <2>4, <2>5, <2>6, <2>7, AlteringRight
<1>6. CASE ~Finds(s, "chat")
  <2>1. UNCHANGED sess
    BY <1>6 DEF AskTitle
  <2> QED
    BY <1>1, <1>3, <1>4, <2>1, RestingRight
<1> QED
  BY <1>5, <1>6

LEMMA TakeTitleKeeps ==
    ASSUME ChatsInv, NEW asking \in titles, NEW look \in TitleTexts \cup {Absent},
           TakeTitle(asking, look)
    PROVE  ChatsInv'
<1> DEFINE s == asking.s
           r == [sess[s] EXCEPT !.title = ByProgram(look)]
<1>1. /\ UNCHANGED <<used, folders, work, promise, named, late>> /\ ChatsTyped
      /\ titles' = titles \ {asking}
  BY DEF TakeTitle, ChatsInv
<1>2. s \in Ids /\ titles' \subseteq Generations
      /\ \A x \in Ids : Titling(x)' => Titling(x)
  BY <1>1 DEF ChatsTyped, Titling, Generations
<1>3. WorkersRight /\ work' \in [Workers -> {Idle} \cup Copiers \cup Importers \cup Clearers]
  BY <1>1 DEF WorkersRight, ChatsTyped
<1>4. CASE look # Absent /\ Finds(s, "chat")
  <2>1. sess[s] # Absent /\ sess[s] \in SessionRecords /\ sess[s].model = TRUE
    BY <1>2, <1>4 DEF Finds, ChatsInv, ChatsTyped, Homed
  <2>2. /\ r \in SessionRecords /\ r.model = TRUE /\ r.msgs = sess[s].msgs
        /\ r.temp = sess[s].temp /\ r.folder = sess[s].folder
    BY <1>4, <2>1, ChatsAssumption DEF SessionRecords, Title, ByProgram
  <2>3. sess' = [sess EXCEPT ![s] = r]
    BY <1>4 DEF TakeTitle
  <2> HIDE DEF r
  <2>4. Alters(s, r)
    BY <1>1, <2>1, <2>2, <2>3 DEF Alters
  <2>5. OthersStay(s)
    BY <1>1, <1>2, <1>3 DEF OthersStay, ChatsTyped
  <2>6. promise'[s] # Absent => r.msgs = promise'[s] /\ ~r.temp
    BY <1>1, <1>2, <2>1, <2>2 DEF ChatsInv, Promised
  <2>7. s \notin named
    BY <1>2 DEF ChatsInv, Titled, Titling
  <2> QED
    BY <1>1, <1>2, <1>3, <2>2, <2>4, <2>5, <2>6, <2>7, AlteringRight
<1>5. CASE ~(look # Absent /\ Finds(s, "chat"))
  <2>1. UNCHANGED sess
    BY <1>5 DEF TakeTitle
  <2> QED
    BY <1>1, <1>2, <1>3, <2>1, RestingRight
<1> QED
  BY <1>4, <1>5

LEMMA ChatsStill ==
    ASSUME ChatsInv,
           UNCHANGED <<sess, used, folders, work, titles, promise, named, late>>
    PROVE  ChatsInv'
<1>1. ChatsTyped /\ WorkersRight /\ \A x \in Ids : Titling(x)' => Titling(x)
  BY DEF ChatsInv, WorkersRight, Titling
<1> QED
  BY <1>1, RestingRight DEF ChatsTyped

LEMMA RestartKeeps ==
    ASSUME ChatsInv, Restart
    PROVE  ChatsInv'
<1>1. /\ work' = [t \in Workers |-> Idle] /\ titles' = {} /\ ChatsTyped
      /\ sess' = [s \in Ids |-> IF sess[s] # Absent /\ sess[s].temp THEN Absent ELSE sess[s]]
      /\ UNCHANGED <<used, folders, promise, named, late>>
  BY DEF Restart, ChatsInv
<1>2. ChatsTyped'
  BY <1>1 DEF ChatsTyped
<1>3. ASSUME NEW s \in Ids
      PROVE  Homed(s)' /\ Promised(s)' /\ Titled(s)'
  <2>1. Homed(s) /\ Promised(s) /\ Titled(s)
    BY DEF ChatsInv
  <2>2. sess'[s] = IF sess[s] # Absent /\ sess[s].temp THEN Absent ELSE sess[s]
    BY <1>1
  <2>3. ~Titling(s)'
    BY <1>1 DEF Titling
  <2>4. Homed(s)' /\ Promised(s)'
    BY <1>1, <2>1, <2>2 DEF Homed, Promised
  <2> QED
    BY <1>1, <2>1, <2>2, <2>3, <2>4 DEF Titled
<1>4. ASSUME NEW t \in Workers
      PROVE  Making(t)' /\ Clears(t)'
  BY <1>1 DEF Making, Clears, Idle
<1> QED
  BY <1>2, <1>3, <1>4 DEF ChatsInv

LEMMA ChatsStepRight == ChatsInv /\ requests \in Nat /\ [ChatsNext]_chatsVars => ChatsInv'
<1> SUFFICES ASSUME ChatsInv, requests \in Nat, [ChatsNext]_chatsVars PROVE ChatsInv'
  OBVIOUS
<1>1. ASSUME NEW place \in Places, NEW temp \in BOOLEAN,
             NEW wanted \in Assistants \cup {Absent, "model"}, Create(place, temp, wanted)
      PROVE  ChatsInv'
  BY <1>1, CreateKeeps
<1>2. ASSUME NEW place \in Places, NEW s \in Ids,
             \/ Save(s, place) \/ (\E look \in TitleTexts : UpdateTitle(s, place, look))
             \/ Delete(s, place) \/ Turn(s, place)
             \/ DeleteMessage(s, place) \/ ClearMessages(s, place)
      PROVE  ChatsInv'
  <2>1. CASE DeleteMessage(s, place)
    <3>1. sess[s].msgs \in Seq(Nat)
      BY <2>1 DEF DeleteMessage, Finds, ChatsInv, ChatsTyped, SessionRecords
    <3> QED
      BY <2>1, <3>1, ListWithoutOne, ShortenKeeps DEF DeleteMessage
  <2>2. CASE ClearMessages(s, place)
    BY <2>2, <<>> \in Seq(Nat), ShortenKeeps DEF ClearMessages
  <2> QED
    BY <1>2, <2>1, <2>2, SaveKeeps, UpdateTitleKeeps, DeleteSessionKeeps, TurnKeeps
<1>3. ASSUME NEW place \in Places, NEW s \in Ids, NEW wanted \in Assistants \cup {"model"},
             UpdateTarget(s, place, wanted)
      PROVE  ChatsInv'
  BY <1>3, UpdateTargetKeeps
<1>4. ASSUME NEW place \in Places, NEW s \in Ids, NEW f \in Folders \cup {Absent},
             UpdateFolder(s, place, f)
      PROVE  ChatsInv'
  BY <1>4, UpdateFolderKeeps
<1>5. ASSUME NEW place \in Places, NEW s \in Ids, NEW target \in Places,
             Move(s, place, target) \/ Copy(s, place, target)
      PROVE  ChatsInv'
  BY <1>5, MoveKeeps, CopyKeeps
<1>6. ASSUME NEW place \in Places, NEW s \in Ids, NEW t \in Workers,
             Branch(t, s, place) \/ Duplicate(t, s, place)
      PROVE  ChatsInv'
  <2>1. sess[s] # Absent /\ sess[s].msgs \in Seq(Nat)
    BY <1>6 DEF Branch, Duplicate, Finds, ChatsInv, ChatsTyped, SessionRecords
  <2>2. PICK k \in 0..Len(sess[s].msgs) : ReadSource(t, s, place, k)
    <3>1. /\ Len(sess[s].msgs) \in 0..Len(sess[s].msgs)
          /\ DOMAIN sess[s].msgs \subseteq 0..Len(sess[s].msgs)
      BY <2>1
    <3> QED
      BY <1>6, <3>1 DEF Branch, Duplicate
  <2> QED
    BY <2>2, ReadSourceKeeps
<1>7. ASSUME NEW place \in Places, NEW t \in Workers, Import(t, place)
      PROVE  ChatsInv'
  BY <1>7, ImportKeeps
<1>8. ASSUME NEW t \in Workers,
             \/ MakeCopy(t) \/ TitleCopy(t) \/ FillCopy(t)
             \/ ImportCreate(t) \/ ImportFill(t) \/ (\E look \in TitleTexts : ImportTitle(t, look))
             \/ DropFolder(t)
      PROVE  ChatsInv'
  BY <1>8, MakeCopyKeeps, TitleCopyKeeps, FillCopyKeeps, ImportCreateKeeps, ImportFillKeeps,
     ImportTitleKeeps, DropFolderKeeps
<1>9. ASSUME NEW t \in Workers, NEW f \in Folders, DeleteFolder(t, f)
      PROVE  ChatsInv'
  BY <1>9, DeleteFolderKeeps
<1>10. ASSUME NEW t \in Workers, NEW s \in Ids, ClearFolder(t, s)
       PROVE  ChatsInv'
  BY <1>10, ClearFolderKeeps
<1>11. ASSUME NEW asking \in titles,
              AskTitle(asking) \/ \E look \in TitleTexts \cup {Absent} : TakeTitle(asking, look)
       PROVE  ChatsInv'
  BY <1>11, AskTitleKeeps, TakeTitleKeeps
<1>12. ASSUME NEW a \in Assistants, NEW status, ChangeAssistant(a, status)
       PROVE  ChatsInv'
  BY <1>12, ChatsStill DEF ChangeAssistant
<1>13. CASE UNCHANGED chatsVars
  BY <1>13, ChatsStill DEF chatsVars
<1> QED
  BY <1>1, <1>2, <1>3, <1>4, <1>5, <1>6, <1>7, <1>8, <1>9, <1>10, <1>11, <1>12, <1>13,
     GenerateTitleKeeps, RestartKeeps DEF ChatsNext

\* Requests have a number, and every request is counted.
Counted == requests \in Nat

LEMMA RequestsCounted == requests \in Nat /\ [ChatsNext]_chatsVars => requests' \in Nat
<1> SUFFICES ASSUME [ChatsNext]_chatsVars PROVE requests' = requests \/ Request
  BY DEF Request
<1>1. ASSUME NEW place, NEW s, NEW x, NEW y,
             \/ Create(place, x, y) \/ Save(s, place) \/ Delete(s, place) \/ UpdateTitle(s, place, x)
             \/ UpdateTarget(s, place, x) \/ UpdateFolder(s, place, x)
             \/ Move(s, place, x) \/ Copy(s, place, x)
      PROVE  Request
  BY <1>1, Zenon DEF Create, Save, Delete, UpdateTitle, UpdateTarget, UpdateFolder, Move, Copy, Changes
<1>2. ASSUME NEW place, NEW s, NEW t,
             \/ Turn(s, place) \/ DeleteMessage(s, place) \/ ClearMessages(s, place)
             \/ Import(t, place) \/ Branch(t, s, place) \/ Duplicate(t, s, place)
             \/ DeleteFolder(t, s) \/ ChangeAssistant(s, t) \/ Restart \/ GenerateTitle(s)
      PROVE  Request
  BY <1>2, Zenon DEF Turn, DeleteMessage, ClearMessages, Shorten, Import, Branch, Duplicate,
     ReadSource, DeleteFolder, ChangeAssistant, Restart, GenerateTitle
<1>3. ASSUME NEW t, NEW s, NEW asking, NEW look,
             \/ MakeCopy(t) \/ TitleCopy(t) \/ FillCopy(t) \/ ImportCreate(t) \/ ImportFill(t)
             \/ ImportTitle(t, look) \/ ClearFolder(t, s) \/ DropFolder(t)
             \/ AskTitle(asking) \/ TakeTitle(asking, look)
      PROVE  requests' = requests
  BY <1>3 DEF MakeCopy, TitleCopy, FillCopy, ImportCreate, ImportFill, ImportTitle, ClearFolder,
     DropFolder, AskTitle, TakeTitle
<1>4. CASE UNCHANGED chatsVars
  BY <1>4 DEF chatsVars
<1> QED
  BY <1>1, <1>2, <1>3, <1>4, Zenon DEF ChatsNext

(***************************************************************************)
(* Every session can be opened, every copy is whole and stays, the folders *)
(* that are gone are empty but for what came too late, and a title of the  *)
(* user's that does not read like one of the program's own stays until it  *)
(* is given up, for any number of sessions, requests of several steps,     *)
(* folders, assistants and imported conversations, whatever titles are     *)
(* generated and whatever restarts there are (SessionApplicationService,   *)
(* ConversationStorage, delete_folder, TitleGenerationService).            *)
(***************************************************************************)
THEOREM SessionsCorrect == ChatsSpec => []SessionsKept
<1>1. ChatsInit => ChatsInv /\ Counted
  <2>1. ChatsInit => requests = 0
    BY Zenon DEF ChatsInit
  <2> QED
    BY <2>1, ChatsInitRight DEF Counted
<1>2. ChatsInv /\ Counted /\ [ChatsNext]_chatsVars => ChatsInv' /\ Counted'
  BY ChatsStepRight, RequestsCounted DEF Counted
<1>3. ChatsInv => SessionsKept
  <2> SUFFICES ASSUME ChatsInv, NEW s \in Ids
               PROVE  /\ sess[s] # Absent => Opens(sess[s])
                      /\ promise[s] # Absent =>
                            sess[s] # Absent /\ sess[s].msgs = promise[s] /\ ~sess[s].temp
                      /\ Finds(s, "chat") /\ sess[s].folder \notin folders \cup {Absent} => s \in late
                      /\ s \in named => (sess[s] # Absent => sess[s].title.by = "user")
    BY DEF SessionsKept, SessionsOpen, CopiesWhole, FoldersEmptied, TitlesKept, ChatsInv, ChatsTyped
  <2>1. Homed(s) /\ Promised(s) /\ Titled(s)
    BY DEF ChatsInv
  <2> QED
    BY <2>1 DEF Homed, Promised, Titled, Opens, Finds, ByUser
<1> QED
  BY <1>1, <1>2, <1>3, PTL DEF ChatsSpec

-----------------------------------------------------------------------------
(* The editor of project files *)

PageFields == {"selected", "content", "value", "original", "conflict", "busy"}
CallFields == {"kind", "path", "text", "expected", "to", "selected", "id", "reply"}

\* What the page takes for stored, and what its saves expect to replace, it was told for that
\* very file.
PageTold == page.content # Unset => <<page.content, page.original>> \in seen
SavesTold == \A c \in calls : c.kind = "save" => <<c.path, c.expected>> \in seen

EditorTyped == DOMAIN page = PageFields /\ \A c \in calls : DOMAIN c = CallFields
EditorInv == EditorTyped /\ (~mistaken => ~blind /\ PageTold /\ SavesTold)

LEMMA EditorInitRight == EditorInit => EditorInv
<1> SUFFICES ASSUME EditorInit PROVE EditorInv
  OBVIOUS
<1>1. PICK opened \in OpenFiles :
        LET p == opened[1]
            text == opened[2]
        IN /\ page = [selected |-> p, content |-> p, value |-> text, original |-> text,
                      conflict |-> Unset, busy |-> FALSE]
           /\ seen = {<<p, text>>}
  BY DEF EditorInit
<1>2. calls = {} /\ blind = FALSE
  BY DEF EditorInit
<1> QED
  BY <1>1, <1>2 DEF EditorInv, EditorTyped, PageTold, SavesTold, PageFields

\* Steps that tell the page nothing and ask for no save.
LEMMA UntoldRight ==
    ASSUME EditorInv, UNCHANGED <<seen, mistaken>>, DOMAIN page' = PageFields,
           page'.content = page.content /\ page'.original = page.original,
           blind' => blind \/ mistaken,
           \A c \in calls' : /\ DOMAIN c = CallFields
                             /\ \/ c.kind # "save"
                                \/ \E d \in calls : /\ d.kind = "save" /\ d.path = c.path
                                                    /\ d.expected = c.expected
    PROVE  EditorInv'
<1>1. EditorTyped'
  BY DEF EditorTyped
<1>2. ASSUME ~mistaken
      PROVE  ~blind' /\ PageTold' /\ SavesTold'
  BY <1>2 DEF EditorInv, PageTold, SavesTold
<1> QED
  BY <1>1, <1>2 DEF EditorInv

\* What Call makes.
LEMMA CallRight ==
    ASSUME NEW what, NEW p, NEW text, NEW reply
    PROVE  LET c == Call(what, p, text, reply)
           IN  DOMAIN c = CallFields /\ c.kind = what /\ c.path = p
BY DEF Call, CallFields

LEMMA ReadsRight ==
    ASSUME NEW what, NEW p, NEW c \in Reads(what, p)
    PROVE  DOMAIN c = CallFields /\ c.kind = what
BY CallRight DEF Reads

\* What the user does, but for a save.
LEMMA UserRight ==
    ASSUME EditorInv, NEW new, NEW asked, User(new, asked), DOMAIN new = PageFields,
           new.content = page.content /\ new.original = page.original,
           \A c \in asked : DOMAIN c = CallFields /\ c.kind # "save"
    PROVE  EditorInv'
<1>1. page' = new /\ calls' = calls \cup asked /\ UNCHANGED <<seen, blind, mistaken>>
  BY DEF User
<1> QED
  BY <1>1, UntoldRight DEF EditorInv, EditorTyped

LEMMA UserKeeps ==
    ASSUME EditorInv,
           \/ \E p \in Paths : Select(p) \/ AskDelete(p)
           \/ \E p, q \in Paths : AskRename(p, q)
           \/ \E text \in FileTexts : Type(text)
           \/ Refresh \/ Cancel \/ LoadLatest \/ RestoreDraft
    PROVE  EditorInv'
<1>1. DOMAIN page = PageFields
  BY DEF EditorInv, EditorTyped
<1>2. ASSUME NEW p \in Paths, Select(p)
      PROVE  EditorInv'
  <2> DEFINE new == [page EXCEPT !.selected = p]
  <2>1. PICK read \in Reads("load", p) : User(new, {read})
    BY <1>2 DEF Select
  <2>2. DOMAIN new = PageFields /\ new.content = page.content /\ new.original = page.original
    BY <1>1 DEF PageFields
  <2> HIDE DEF new
  <2> QED
    BY <2>1, <2>2, ReadsRight, UserRight
<1>3. ASSUME NEW p \in Paths, AskDelete(p)
      PROVE  EditorInv'
  <2>1. User(page, {Call("delete", p, Unset, Unset)})
    BY <1>3 DEF AskDelete
  <2> QED
    BY <1>1, <2>1, CallRight, UserRight
<1>4. ASSUME NEW p \in Paths, NEW q \in Paths, AskRename(p, q)
      PROVE  EditorInv'
  <2> DEFINE c == Call("rename", p, Unset, Unset)
             to == [c EXCEPT !.to = q]
  <2>1. User(page, {to})
    BY <1>4 DEF AskRename
  <2>2. DOMAIN c = CallFields /\ c.kind = "rename"
    BY CallRight
  <2> HIDE DEF c
  <2>3. DOMAIN to = CallFields /\ to.kind = "rename"
    BY <2>2 DEF CallFields
  <2> QED
    BY <1>1, <2>1, <2>3, UserRight
<1>5. ASSUME NEW text \in FileTexts, Type(text)
      PROVE  EditorInv'
  <2> DEFINE new == [page EXCEPT !.value = text]
  <2>1. User(new, {})
    BY <1>5 DEF Type
  <2>2. DOMAIN new = PageFields /\ new.content = page.content /\ new.original = page.original
    BY <1>1 DEF PageFields
  <2> HIDE DEF new
  <2> QED
    BY <2>1, <2>2, UserRight
<1>6. CASE Refresh
  BY <1>1, <1>6, ReadsRight, UserRight DEF Refresh
<1>7. CASE Cancel
  <2> DEFINE new == [page EXCEPT !.value = page.original, !.conflict = Unset]
  <2>1. User(new, {})
    BY <1>7 DEF Cancel
  <2>2. DOMAIN new = PageFields /\ new.content = page.content /\ new.original = page.original
    BY <1>1 DEF PageFields
  <2> HIDE DEF new
  <2> QED
    BY <2>1, <2>2, UserRight
<1>8. CASE LoadLatest
  <2> DEFINE new == [page EXCEPT !.busy = TRUE]
  <2>1. PICK read \in Reads("latest", page.content) : User(new, {read})
    BY <1>8 DEF LoadLatest
  <2>2. DOMAIN new = PageFields /\ new.content = page.content /\ new.original = page.original
    BY <1>1 DEF PageFields
  <2> HIDE DEF new
  <2> QED
    BY <2>1, <2>2, ReadsRight, UserRight
<1>9. CASE RestoreDraft
  <2> DEFINE new == [page EXCEPT !.value = page.conflict.draft, !.conflict.loaded = FALSE]
  <2>1. User(new, {})
    BY <1>9 DEF RestoreDraft
  <2>2. DOMAIN new = PageFields /\ new.content = page.content /\ new.original = page.original
    BY <1>1 DEF PageFields
  <2> HIDE DEF new
  <2> QED
    BY <2>1, <2>2, UserRight
<1> QED
  BY <1>2, <1>3, <1>4, <1>5, <1>6, <1>7, <1>8, <1>9

LEMMA SaveFileKeeps ==
    ASSUME EditorInv, SaveFile
    PROVE  EditorInv'
<1> DEFINE c == Call("save", page.content, page.value, Unset)
           asked == [c EXCEPT !.expected = page.original]
           new == [page EXCEPT !.conflict = Unset]
<1>1. /\ page' = new /\ calls' = calls \cup {asked} /\ UNCHANGED <<seen, blind, mistaken>>
      /\ page.content # Unset
  BY DEF SaveFile, User
<1>2. /\ DOMAIN asked = CallFields /\ asked.path = page.content
      /\ asked.expected = page.original
  <2>1. DOMAIN c = CallFields /\ c.path = page.content
    BY CallRight
  <2> HIDE DEF c
  <2> QED
    BY <2>1 DEF CallFields
<1>3. DOMAIN new = PageFields /\ new.content = page.content /\ new.original = page.original
  BY DEF EditorInv, EditorTyped, PageFields
<1> HIDE DEF new, asked
<1>4. EditorTyped'
  BY <1>1, <1>2, <1>3 DEF EditorInv, EditorTyped
<1>5. ASSUME ~mistaken
      PROVE  ~blind' /\ PageTold' /\ SavesTold'
  <2>1. <<asked.path, asked.expected>> \in seen
    BY <1>1, <1>2, <1>5 DEF EditorInv, PageTold
  <2>2. SavesTold'
    BY <1>1, <1>5, <2>1 DEF EditorInv, SavesTold
  <2> QED
    BY <1>1, <1>3, <1>5, <2>2 DEF EditorInv, PageTold
<1> QED
  BY <1>1, <1>4, <1>5 DEF EditorInv

LEMMA OthersKeep ==
    ASSUME EditorInv, UNCHANGED <<page, calls, seen, blind, mistaken>>
    PROVE  EditorInv'
BY DEF EditorInv, EditorTyped, PageTold, SavesTold

\* The service writes what a save asks for only over what the save expects.
LEMMA ServeKeeps ==
    ASSUME EditorInv, NEW c \in calls, Serve(c)
    PROVE  EditorInv'
<1>1. UNCHANGED <<page, seen, mistaken>> /\ DOMAIN c = CallFields /\ DOMAIN page = PageFields
  BY DEF Serve, EditorInv, EditorTyped
<1>2. \E r : calls' = (calls \ {c}) \cup {[c EXCEPT !.reply = r]}
  BY DEF Serve, ServeSave, ServeTree, Lost, Answer
<1>3. PICK r : calls' = (calls \ {c}) \cup {[c EXCEPT !.reply = r]}
  BY <1>2
<1> DEFINE answered == [c EXCEPT !.reply = r]
<1>4. /\ DOMAIN answered = CallFields /\ answered.kind = c.kind /\ answered.path = c.path
      /\ answered.expected = c.expected
  BY <1>1 DEF CallFields
<1>5. blind' => blind \/ mistaken
  <2> SUFFICES ASSUME blind', ~blind, ~mistaken PROVE FALSE
    OBVIOUS
  <2>1. /\ c.kind = "save" /\ Refused(c.path, c.expected) = Unset
        /\ IsFile(c.path) /\ <<c.path, Here[c.path]>> \notin seen
    BY DEF Serve, ServeSave, ServeTree, Lost
  <2>2. Here[c.path] = c.expected
    BY <2>1, EditorAssumption DEF Refused
  <2> QED
    BY <2>1, <2>2 DEF EditorInv, SavesTold
<1> HIDE DEF answered
<1>6. \A d \in calls' : /\ DOMAIN d = CallFields
                        /\ \/ d.kind # "save"
                           \/ \E e \in calls : /\ e.kind = "save" /\ e.path = d.path
                                               /\ e.expected = d.expected
  BY <1>3, <1>4 DEF EditorInv, EditorTyped, answered
<1> QED
  BY <1>1, <1>5, <1>6, UntoldRight

LEMMA TakeKeeps ==
    ASSUME EditorInv, NEW c \in calls, Take(c)
    PROVE  EditorInv'
<1>1. /\ UNCHANGED blind /\ DOMAIN c = CallFields /\ DOMAIN page = PageFields
      /\ \A d \in calls : DOMAIN d = CallFields
  BY DEF Take, EditorInv, EditorTyped
<1>2. \A d \in calls' : DOMAIN d = CallFields /\ (d \in calls \/ d.kind = "load")
  <2>1. PICK read \in IF page'.selected \in {page.selected, Unset} THEN {{}}
                      ELSE {{[r EXCEPT !.id = c.id]} : r \in Reads("load", page'.selected)} :
               calls' = (calls \ {c}) \cup read
    BY DEF Take
  <2>2. ASSUME NEW r \in Reads("load", page'.selected)
        PROVE  DOMAIN [r EXCEPT !.id = c.id] = CallFields /\ [r EXCEPT !.id = c.id].kind = "load"
    <3>1. DOMAIN r = CallFields /\ r.kind = "load"
      BY ReadsRight
    <3> QED
      BY <3>1 DEF CallFields
  <2>3. ASSUME NEW d \in read
        PROVE  DOMAIN d = CallFields /\ d.kind = "load"
    BY <2>1, <2>2
  <2> QED
    BY <1>1, <2>1, <2>3
<1>3. /\ seen \subseteq seen' /\ (mistaken => mistaken') /\ DOMAIN page' = PageFields
      /\ ~mistaken' /\ PageTold => PageTold'
  <2>1. CASE TakeLoad(c)
    <3>1. CASE c.reply = "ok"
      <4>1. /\ page' = [page EXCEPT !.content = c.path, !.value = c.text,
                                    !.original = c.text, !.conflict = Unset, !.busy = FALSE]
            /\ seen' = seen \cup {<<c.path, c.text>>} /\ UNCHANGED mistaken
        BY <2>1, <3>1 DEF TakeLoad
      <4>2. /\ DOMAIN page' = PageFields /\ page'.content = c.path
            /\ page'.original = c.text
        BY <1>1, <4>1 DEF PageFields
      <4> QED
        BY <4>1, <4>2 DEF PageTold
    <3>2. CASE c.reply # "ok"
      BY <1>1, <2>1, <3>2 DEF TakeLoad, PageTold
    <3> QED
      BY <3>1, <3>2
  <2>2. CASE TakeSave(c)
    <3>1. CASE c.reply = "ok"
      <4>1. /\ page' = [page EXCEPT !.original = c.text, !.conflict = Unset]
            /\ seen' = seen \cup {<<c.path, c.text>>}
            /\ mistaken' = (mistaken \/ c.path # page.content)
        BY <2>2, <3>1 DEF TakeSave, Shows
      <4>2. /\ DOMAIN page' = PageFields /\ page'.content = page.content
            /\ page'.original = c.text
        BY <1>1, <4>1 DEF PageFields
      <4>3. ~mistaken' => PageTold'
        <5>1. ~mistaken' => c.path = page.content
          BY <4>1, Zenon
        <5> QED
          BY <4>1, <4>2, <5>1 DEF PageTold
      <4>4. seen \subseteq seen' /\ (mistaken => mistaken')
        BY <4>1
      <4> QED
        BY <4>2, <4>3, <4>4
    <3>2. CASE c.reply \in {"missing", "mismatch"}
      <4>1. /\ page' = [page EXCEPT !.conflict = [draft |-> c.text, loaded |-> FALSE]]
            /\ UNCHANGED <<seen, mistaken>>
        BY <2>2, <3>2 DEF TakeSave
      <4>2. /\ DOMAIN page' = PageFields /\ page'.content = page.content
            /\ page'.original = page.original
        BY <1>1, <4>1 DEF PageFields
      <4> QED
        BY <4>1, <4>2 DEF PageTold
    <3>3. CASE c.reply \notin {"ok", "missing", "mismatch"}
      BY <1>1, <2>2, <3>3 DEF TakeSave, PageTold
    <3> QED
      BY <3>1, <3>2, <3>3
  <2>3. CASE TakeLatest(c)
    <3>1. CASE c.reply = "ok"
      <4> DEFINE conflict == IF page.conflict = Unset THEN page.conflict
                             ELSE [page.conflict EXCEPT !.loaded = TRUE]
      <4>1. /\ page' = [page EXCEPT !.value = c.text, !.original = c.text, !.busy = FALSE,
                                    !.conflict = conflict]
            /\ seen' = seen \cup {<<c.path, c.text>>}
            /\ mistaken' = (mistaken \/ c.path # page.content)
        BY <2>3, <3>1 DEF TakeLatest, Shows
      <4> HIDE DEF conflict
      <4>2. /\ DOMAIN page' = PageFields /\ page'.content = page.content
            /\ page'.original = c.text
        BY <1>1, <4>1 DEF PageFields
      <4>3. ~mistaken' => PageTold'
        <5>1. ~mistaken' => c.path = page.content
          BY <4>1, Zenon
        <5> QED
          BY <4>1, <4>2, <5>1 DEF PageTold
      <4>4. seen \subseteq seen' /\ (mistaken => mistaken')
        BY <4>1
      <4> QED
        BY <4>2, <4>3, <4>4
    <3>2. CASE c.reply # "ok"
      <4>1. page' = [page EXCEPT !.busy = FALSE] /\ UNCHANGED <<seen, mistaken>>
        BY <2>3, <3>2 DEF TakeLatest
      <4>2. /\ DOMAIN page' = PageFields /\ page'.content = page.content
            /\ page'.original = page.original
        BY <1>1, <4>1 DEF PageFields
      <4> QED
        BY <4>1, <4>2 DEF PageTold
    <3> QED
      BY <3>1, <3>2
  <2>4. CASE TakeTree(c)
    BY <1>1, <2>4 DEF TakeTree, PageTold, PageFields
  <2> QED
    BY <2>1, <2>2, <2>3, <2>4 DEF Take
<1>4. EditorTyped'
  BY <1>2, <1>3 DEF EditorTyped
<1>5. ASSUME ~mistaken'
      PROVE  ~blind' /\ PageTold' /\ SavesTold'
  BY <1>1, <1>2, <1>3, <1>5 DEF EditorInv, SavesTold
<1> QED
  BY <1>4, <1>5 DEF EditorInv

LEMMA EditorStepRight == EditorInv /\ [EditorNext]_editorVars => EditorInv'
<1> SUFFICES ASSUME EditorInv, [EditorNext]_editorVars PROVE EditorInv'
  OBVIOUS
<1>1. ASSUME NEW new, Others(new)
      PROVE  EditorInv'
  BY <1>1, OthersKeep DEF Others
<1>2. ASSUME NEW p \in Paths, NEW text \in FileTexts,
             \/ CreateFile(p, text) \/ ApplyPatch(p, text)
             \/ \E mode \in {"create", "overwrite"} : WriteArtifact(p, text, mode)
      PROVE  EditorInv'
  BY <1>1, <1>2 DEF CreateFile, ApplyPatch, WriteArtifact
<1>3. ASSUME NEW p \in Paths, \/ CreateDirectory(p) \/ \E b \in BOOLEAN : DeletePath(p, b)
                              \/ \E q \in Paths : RenamePath(p, q)
      PROVE  EditorInv'
  BY <1>1, <1>3 DEF CreateDirectory, DeletePath, RenamePath
<1>4. ASSUME DeleteProject \/ \E r \in Roots : UpdateProject(r)
      PROVE  EditorInv'
  BY <1>4, OthersKeep DEF DeleteProject, UpdateProject, Config
<1>5. CASE UNCHANGED editorVars
  BY <1>5, OthersKeep DEF editorVars
<1> QED
  BY <1>2, <1>3, <1>4, <1>5, UserKeeps, SaveFileKeeps, ServeKeeps, TakeKeeps DEF EditorNext

(***************************************************************************)
(* What a save of the editor replaces is a text the page was told for that *)
(* very file, and so is what it takes for stored, as long as no answer     *)
(* about one file came in when another was shown: for any files, texts,    *)
(* directories, writers and moves beside the page, and any requests under  *)
(* way (write_file, saveCurrentFile, handleLoadLatestAfterConflict).       *)
(***************************************************************************)
THEOREM SavesCorrect == EditorSpec => []SavesAreInformed
<1>1. EditorInit => EditorInv
  BY EditorInitRight
<1>2. EditorInv /\ [EditorNext]_editorVars => EditorInv'
  BY EditorStepRight
<1>3. EditorInv => SavesAreInformed
  BY DEF EditorInv, PageTold, SavesAreInformed
<1> QED
  BY <1>1, <1>2, <1>3, PTL DEF EditorSpec

-----------------------------------------------------------------------------
(* The workflow definitions on disk *)

StoreTypes ==
    /\ workflows \subseteq Definitions /\ version \in Nat /\ lock \in Numbers \cup {NoValue}
    /\ DOMAIN reqs = Numbers /\ \A r \in Numbers : DOMAIN reqs[r] = DOMAIN Unused
    /\ DOMAIN runs = WorkflowIds
    /\ DOMAIN acked = WorkflowIds /\ \A id \in WorkflowIds : DOMAIN acked[id] = Fields

\* A request that has looked at the definition it is about to change.
Decided(q) ==
    q.pc \in {"change", "apply"} \/ (q.pc \in {"ensure", "upsert"} /\ q.next = "change")

\* What a request knows: what it has read is a definition of a user under its id, one that
\* changes a definition has read it, and one that removes what it did not find removes what
\* somebody gave up.
RequestRight(q) ==
    /\ q.pc = "new" => q.seen = NoValue
    /\ q.pc # "new" => q.id \in WorkflowIds
    /\ q.pc \in {"ensure", "upsert"} => q.next \in {"get", "change"}
    /\ q.pc # "new" /\ q.op = "update" => q.field \in Fields
    /\ q.seen # NoValue => q.seen \in Definitions /\ q.seen.id = q.id /\ ~q.seen.system
    /\ Decided(q) => q.op \in {"create", "update", "delete"}
    /\ Decided(q) /\ q.op = "update" => q.seen # NoValue

RequestsRight == \A r \in Numbers : RequestRight(reqs[r])
RemovesRight ==
    \A r \in Numbers, b \in Builtins :
        Decided(reqs[r]) /\ reqs[r].op = "delete" /\ reqs[r].id = b =>
            \E q \in Numbers : Gives(q, b)
LockRight ==
    \A r \in Numbers : reqs[r].pc \in {"upsert", "apply"} =>
        lock = r /\ reqs[r].config = workflows
AckedRight ==
    \A id \in WorkflowIds, f \in Fields : acked[id][f] # NoValue =>
        /\ There(workflows, id) /\ ~Get(workflows, id).system
        /\ Get(workflows, id)[f] = acked[id][f]
RunsRight ==
    \A r \in Numbers : Stands(r, "run") =>
        There(workflows, reqs[r].id) \/ reqs[r].id \in strays

StoreInv ==
    /\ StoreTypes /\ RequestsRight /\ RemovesRight /\ LockRight /\ AckedRight /\ RunsRight
    /\ DefinitionsKept

\* An id names one definition.
LEMMA GetRight ==
    ASSUME NEW config, Unique(config), NEW id, There(config, id)
    PROVE  Get(config, id) \in config /\ Get(config, id).id = id
BY DEF There, Get

LEMMA GetIs ==
    ASSUME NEW config, Unique(config), NEW w \in config
    PROVE  There(config, w.id) /\ Get(config, w.id) = w
<1>1. There(config, w.id)
  BY DEF There
<1>2. Get(config, w.id) \in config /\ Get(config, w.id).id = w.id
  BY <1>1, GetRight
<1> QED
  BY <1>1, <1>2 DEF Unique

\* Definitions that are as the program and the users left them.
Sound(config) ==
    config \subseteq Definitions /\ Unique(config) /\ \A w \in config : Genuine(w, version)

LEMMA OfProgramRight ==
    ASSUME version \in Nat, NEW b \in Builtins
    PROVE  /\ OfProgram(b) \in Definitions /\ Genuine(OfProgram(b), version)
           /\ OfProgram(b).id = b /\ OfProgram(b).system /\ OfProgram(b).version = version
BY DEF OfProgram, Definitions, Genuine, WorkflowIds

\* Bringing the built-in definitions up to date: afterwards each is there, as new as the
\* program if it is the program's, and nothing of a user has changed.
LEMMA UpsertedRight ==
    ASSUME version \in Nat, NEW config, Sound(config)
    PROVE  /\ Sound(Upserted(config))
           /\ \A b \in Builtins : /\ There(Upserted(config), b)
                                  /\ Get(Upserted(config), b).system =>
                                         Get(Upserted(config), b).version = version
           /\ \A id : There(config, id) => There(Upserted(config), id)
           /\ \A id : There(config, id) /\ ~Get(config, id).system =>
                  Get(Upserted(config), id) = Get(config, id)
<1> DEFINE Renewed(w) == IF w.id \in Builtins /\ Replaceable(w) THEN OfProgram(w.id) ELSE w
           Done == Upserted(config)
<1>1. \A w \in config : Renewed(w).id = w.id /\ Renewed(w) \in Done
  BY OfProgramRight DEF Upserted
<1>2. \A w \in Done : \/ \E x \in config : w = Renewed(x)
                     \/ \E b \in Builtins : ~There(config, b) /\ w = OfProgram(b)
  BY DEF Upserted
<1>3. \A b \in Builtins : ~There(config, b) => OfProgram(b) \in Done
  BY DEF Upserted
<1>4. \A w \in config : /\ Renewed(w) \in Definitions /\ Genuine(Renewed(w), version)
                        /\ ~w.system => Renewed(w) = w
                        /\ w.id \in Builtins /\ Renewed(w).system => Renewed(w).version = version
  <2> TAKE w \in config
  <2>1. w \in Definitions /\ Genuine(w, version)
    BY DEF Sound
  <2>2. CASE w.id \in Builtins /\ Replaceable(w)
    BY <2>1, <2>2, OfProgramRight DEF Replaceable
  <2>3. CASE ~(w.id \in Builtins /\ Replaceable(w))
    <3>1. Renewed(w) = w
      BY <2>3
    <3>2. w.id \in Builtins /\ w.system => w.version = version
      <4> SUFFICES ASSUME w.id \in Builtins, w.system PROVE w.version = version
        OBVIOUS
      <4>1. ~Outdated(w)
        BY <2>3 DEF Replaceable
      <4>2. w.version \in Nat
        BY <2>1 DEF Definitions
      <4>3. w.version <= version
        BY <2>1 DEF Genuine
      <4> QED
        BY <4>1, <4>2, <4>3 DEF Outdated
    <3> HIDE DEF Renewed
    <3> QED
      BY <2>1, <3>1, <3>2
  <2> QED
    BY <2>2, <2>3
<1> HIDE DEF Renewed, Done
<1>5. Done \subseteq Definitions /\ \A w \in Done : Genuine(w, version)
  BY <1>2, <1>4, OfProgramRight
<1>6. Unique(Done)
  <2> SUFFICES ASSUME NEW w \in Done, NEW x \in Done, w.id = x.id PROVE w = x
    BY DEF Unique
  <2>1. CASE \E b \in Builtins : ~There(config, b) /\ w = OfProgram(b)
    <3>1. PICK b \in Builtins : ~There(config, b) /\ w = OfProgram(b)
      BY <2>1
    <3>2. w.id = b
      BY <3>1, OfProgramRight
    <3>3. \A y \in config : x # Renewed(y)
      BY <1>1, <3>1, <3>2 DEF There
    <3>4. PICK c \in Builtins : x = OfProgram(c)
      BY <1>2, <3>3
    <3> QED
      BY <3>1, <3>2, <3>4, OfProgramRight
  <2>2. CASE \E y \in config : w = Renewed(y)
    <3>1. PICK y \in config : w = Renewed(y)
      BY <2>2
    <3>2. w.id = y.id
      BY <1>1, <3>1
    <3>3. CASE \E z \in config : x = Renewed(z)
      <4>1. PICK z \in config : x = Renewed(z)
        BY <3>3
      <4>2. z.id = y.id
        BY <1>1, <3>2, <4>1
      <4>3. z = y
        BY <4>2 DEF Sound, Unique
      <4> QED
        BY <3>1, <4>1, <4>3
    <3>4. CASE \E c \in Builtins : ~There(config, c) /\ x = OfProgram(c)
      BY <3>2, <3>4, OfProgramRight DEF There
    <3> QED
      BY <1>2, <3>3, <3>4
  <2> QED
    BY <1>2, <2>1, <2>2
<1>7. \A w \in config : There(Done, w.id) /\ Get(Done, w.id) = Renewed(w)
  BY <1>1, <1>6, GetIs
<1>8. \A id : There(config, id) => /\ There(Done, id) /\ Get(Done, id) = Renewed(Get(config, id))
                                   /\ Get(config, id) \in config /\ Get(config, id).id = id
  BY <1>7, GetRight DEF Sound
<1>9. ASSUME NEW b \in Builtins
      PROVE  There(Done, b) /\ (Get(Done, b).system => Get(Done, b).version = version)
  <2>1. CASE There(config, b)
    BY <1>4, <1>8, <2>1
  <2>2. CASE ~There(config, b)
    <3>1. OfProgram(b) \in Done /\ OfProgram(b).id = b /\ OfProgram(b).version = version
      BY <1>3, <2>2, OfProgramRight
    <3> QED
      BY <1>6, <3>1, GetIs
  <2> QED
    BY <2>1, <2>2
<1>10. \A id : There(config, id) /\ ~Get(config, id).system => Get(Done, id) = Get(config, id)
  BY <1>4, <1>8
<1>11. Sound(Done)
  BY <1>5, <1>6 DEF Sound
<1> QED
  BY <1>8, <1>9, <1>10, <1>11 DEF Done

\* Putting a definition in place of what has its id, and taking one away.
LEMMA PutRight ==
    ASSUME NEW config, Sound(config), NEW id, NEW new \in Definitions,
           new.id = id, ~new.system, NEW put, put = Except(config, id) \cup {new}
    PROVE  /\ Sound(put)
           /\ There(put, id) /\ Get(put, id) = new
           /\ \A i : i # id => There(put, i) = There(config, i)
           /\ \A i : i # id /\ There(config, i) => Get(put, i) = Get(config, i)
<1>1. put \subseteq Definitions /\ \A w \in put : Genuine(w, version)
  BY DEF Sound, Genuine, Except
<1>2. Unique(put)
  BY DEF Sound, Unique, Except
<1>3. There(put, id) /\ Get(put, id) = new
  <2>1. new \in put
    OBVIOUS
  <2> QED
    BY <1>2, <2>1, GetIs
<1>4. \A i : i # id => There(put, i) = There(config, i)
  BY DEF There, Except
<1>5. ASSUME NEW i, i # id, There(config, i) PROVE Get(put, i) = Get(config, i)
  <2>1. Get(config, i) \in config /\ Get(config, i).id = i
    BY <1>5, GetRight DEF Sound
  <2>2. Get(config, i) \in put
    BY <1>5, <2>1 DEF Except
  <2> QED
    BY <1>2, <2>1, <2>2, GetIs
<1>6. Sound(put)
  BY <1>1, <1>2 DEF Sound
<1> QED
  BY <1>3, <1>4, <1>5, <1>6

LEMMA TakeRight ==
    ASSUME NEW config, Sound(config), NEW id, NEW rest, rest = Except(config, id)
    PROVE  /\ Sound(rest) /\ ~There(rest, id)
           /\ \A i : i # id => There(rest, i) = There(config, i)
           /\ \A i : i # id /\ There(config, i) => Get(rest, i) = Get(config, i)
<1>1. Sound(rest)
  BY DEF Sound, Unique, Except
<1>2. ~There(rest, id) /\ \A i : i # id => There(rest, i) = There(config, i)
  BY DEF There, Except
<1>3. ASSUME NEW i, i # id, There(config, i) PROVE Get(rest, i) = Get(config, i)
  <2>1. Get(config, i) \in rest /\ Get(config, i).id = i
    BY <1>3, GetRight DEF Sound, Except
  <2>2. Unique(rest)
    BY <1>1 DEF Sound
  <2> QED
    BY <2>1, <2>2, GetIs
<1> QED
  BY <1>1, <1>2, <1>3

\* What a step of one request has to show for the requests.
Framed(r) ==
    /\ DOMAIN reqs' = Numbers /\ DOMAIN reqs'[r] = DOMAIN Unused
    /\ \A q \in Numbers : q # r => reqs'[q] = reqs[q]

LEMMA RequestStep ==
    ASSUME StoreInv, NEW r \in Numbers, Framed(r), RequestRight(reqs'[r]),
           \A id : Gives(r, id) => Gives(r, id)',
           \A b \in Builtins : Decided(reqs'[r]) /\ reqs'[r].op = "delete" /\ reqs'[r].id = b =>
               \E q \in Numbers : Gives(q, b)'
    PROVE  /\ RequestsRight' /\ RemovesRight'
           /\ DOMAIN reqs' = Numbers /\ \A q \in Numbers : DOMAIN reqs'[q] = DOMAIN Unused
           /\ \A b : (\E q \in Numbers : Gives(q, b)) => \E q \in Numbers : Gives(q, b)'
<1>1. DOMAIN reqs' = Numbers /\ \A q \in Numbers : DOMAIN reqs'[q] = DOMAIN Unused
  BY DEF Framed, StoreInv, StoreTypes
<1>2. \A q \in Numbers : RequestRight(reqs'[q])
  BY DEF Framed, StoreInv, RequestsRight
<1>3. \A q \in Numbers : \A id : Gives(q, id) => Gives(q, id)'
  <2> SUFFICES ASSUME NEW q \in Numbers, NEW id, Gives(q, id) PROVE Gives(q, id)'
    OBVIOUS
  <2>1. CASE q = r
    BY <2>1
  <2>2. CASE q # r
    <3>1. reqs'[q] = reqs[q]
      BY <2>2 DEF Framed
    <3> QED
      BY <3>1 DEF Gives
  <2> QED
    BY <2>1, <2>2
<1>4. ASSUME NEW q \in Numbers, NEW b \in Builtins,
             Decided(reqs'[q]), reqs'[q].op = "delete", reqs'[q].id = b
      PROVE  \E g \in Numbers : Gives(g, b)'
  <2>1. CASE q = r
    BY <1>4, <2>1
  <2>2. CASE q # r
    <3>1. reqs'[q] = reqs[q]
      BY <2>2 DEF Framed
    <3>2. PICK g \in Numbers : Gives(g, b)
      BY <1>4, <3>1 DEF StoreInv, RemovesRight
    <3> QED
      BY <1>3, <3>2
  <2> QED
    BY <2>1, <2>2
<1>5. RequestsRight'
  BY <1>2 DEF RequestsRight, RequestRight, Decided
<1>6. RemovesRight'
  BY <1>4 DEF RemovesRight, Decided
<1> QED
  BY <1>1, <1>3, <1>5, <1>6

\* A step of one request that leaves the file and the records as they are.
LEMMA QuietStep ==
    ASSUME StoreInv, NEW r \in Numbers, Framed(r), RequestRight(reqs'[r]),
           \A id : Gives(r, id) => Gives(r, id)',
           \A b \in Builtins : Decided(reqs'[r]) /\ reqs'[r].op = "delete" /\ reqs'[r].id = b =>
               \E q \in Numbers : Gives(q, b)',
           UNCHANGED <<workflows, version, runs, acked, strays>>,
           lock' \in Numbers \cup {NoValue}, LockRight',
           Begun(r)' => Begun(r), ~Stands(r, "forget"),
           Stands(r, "run")' => There(workflows, reqs'[r].id)
    PROVE  StoreInv'
<1>1. /\ RequestsRight' /\ RemovesRight'
      /\ DOMAIN reqs' = Numbers /\ \A q \in Numbers : DOMAIN reqs'[q] = DOMAIN Unused
      /\ \A b : (\E q \in Numbers : Gives(q, b)) => \E q \in Numbers : Gives(q, b)'
  BY RequestStep
<1>2. StoreTypes'
  BY <1>1 DEF StoreInv, StoreTypes
<1>3. AckedRight'
  BY DEF StoreInv, AckedRight
<1>4. RunsRight'
  <2> SUFFICES ASSUME NEW q \in Numbers, reqs'[q].pc = "run"
               PROVE  There(workflows, reqs'[q].id) \/ reqs'[q].id \in strays
    BY DEF RunsRight, Stands
  <2>1. CASE q = r
    BY <2>1 DEF Stands
  <2>2. CASE q # r
    BY <2>2 DEF Framed, StoreInv, RunsRight, Stands
  <2> QED
    BY <2>1, <2>2
<1>5. BuiltinsKept'
  <2>1. Unique(workflows)' /\ \A w \in workflows' : Genuine(w, version')
    BY DEF StoreInv, DefinitionsKept, BuiltinsKept
  <2>2. (\A q \in Numbers : ~Begun(q)) => \A q \in Numbers : ~Begun(q)'
    BY DEF Framed, Begun
  <2>3. \A b \in Builtins :
            \/ \A q \in Numbers : ~Begun(q)'
            \/ There(workflows', b)
               /\ (Get(workflows', b).system => Get(workflows', b).version = version')
            \/ \E q \in Numbers : Gives(q, b)'
    BY <1>1, <2>2 DEF StoreInv, DefinitionsKept, BuiltinsKept
  <2> QED
    BY <2>1, <2>3 DEF BuiltinsKept
<1>6. AcknowledgedKept'
  <2>1. \A id \in WorkflowIds, f \in Fields : acked'[id][f] # NoValue =>
            There(workflows', id) /\ Get(workflows', id)[f] = acked'[id][f]
    BY DEF StoreInv, DefinitionsKept, AcknowledgedKept
  <2>2. ASSUME NEW id \in WorkflowIds, runs'[id] # {}
        PROVE  \/ There(workflows', id) \/ id \in strays'
               \/ \E q \in Numbers : reqs'[q].pc = "forget" /\ reqs'[q].id = id
    BY <2>2 DEF StoreInv, DefinitionsKept, AcknowledgedKept, Framed, Stands
  <2> QED
    BY <2>1, <2>2 DEF AcknowledgedKept, Stands
<1> QED
  BY <1>1, <1>2, <1>3, <1>4, <1>5, <1>6 DEF StoreInv, DefinitionsKept

LEMMA StoreInitRight == StoreInit => StoreInv
<1> SUFFICES ASSUME StoreInit PROVE StoreInv
  OBVIOUS
<1>1. workflows \subseteq Definitions /\ Unique(workflows) /\ version = 1
  BY StoreAssumption DEF StoreInit
<1>2. \A w \in workflows : Genuine(w, version)
  BY StoreAssumption DEF StoreInit
<1>3. \A r \in Numbers : reqs[r] = Unused
  BY DEF StoreInit
<1>4. DOMAIN reqs = Numbers /\ DOMAIN runs = WorkflowIds /\ DOMAIN acked = WorkflowIds
  BY DEF StoreInit
<1>5. \A id \in WorkflowIds : DOMAIN acked[id] = Fields /\ runs[id] = {}
  BY DEF StoreInit
<1>6. StoreTypes
  BY <1>1, <1>3, <1>4, <1>5 DEF StoreInit, StoreTypes
<1>7. \A r \in Numbers : reqs[r].pc = "new" /\ reqs[r].seen = NoValue
  BY <1>3 DEF Unused
<1>8. RequestsRight /\ RemovesRight /\ LockRight
  BY <1>7 DEF RequestsRight, RemovesRight, LockRight, RequestRight, Decided
<1>9. AckedRight
  <2> SUFFICES ASSUME NEW id \in WorkflowIds, NEW f \in Fields, acked[id][f] # NoValue
               PROVE  /\ There(workflows, id) /\ ~Get(workflows, id).system
                      /\ Get(workflows, id)[f] = acked[id][f]
    BY DEF AckedRight
  <2>1. acked[id][f] = IF There(workflows, id) /\ ~Get(workflows, id).system
                       THEN Get(workflows, id)[f] ELSE NoValue
    BY DEF StoreInit
  <2> QED
    BY <2>1
<1>10. RunsRight
  BY <1>7 DEF RunsRight, Stands
<1>11. BuiltinsKept
  BY <1>1, <1>2, <1>7 DEF BuiltinsKept, Begun
<1>12. AcknowledgedKept
  BY <1>5, <1>9 DEF AcknowledgedKept, AckedRight
<1> QED
  BY <1>6, <1>8, <1>9, <1>10, <1>11, <1>12 DEF StoreInv, DefinitionsKept

LEMMA BeginRight ==
    ASSUME StoreInv, NEW r \in Numbers, NEW id \in WorkflowIds, NEW field,
           NEW op \in {"update", "create", "delete", "run", "get"},
           op = "update" => field \in Fields, Begin(r, op, id, field)
    PROVE  StoreInv'
<1>1. reqs[r].pc = "new" /\ reqs[r].seen = NoValue
  BY DEF Begin, Stands, StoreInv, RequestsRight, RequestRight
<1>2. Framed(r)
  BY DEF Begin, Framed, StoreInv, StoreTypes, Unused
<1>3. /\ reqs'[r].pc = "ensure" /\ reqs'[r].op = op /\ reqs'[r].id = id
      /\ reqs'[r].field = field /\ reqs'[r].seen = NoValue
      /\ reqs'[r].next = IF op = "create" THEN "change" ELSE "get"
  BY DEF Begin, Unused, StoreInv, StoreTypes
<1>4. UNCHANGED <<workflows, version, runs, acked, strays, lock>>
  BY DEF Begin
<1>5. RequestRight(reqs'[r])
  BY <1>3 DEF RequestRight, Decided
<1>6. \A i : Gives(r, i) => Gives(r, i)'
  BY <1>1 DEF Gives
<1>7. \A b \in Builtins : Decided(reqs'[r]) /\ reqs'[r].op = "delete" /\ reqs'[r].id = b =>
          \E q \in Numbers : Gives(q, b)'
  BY <1>3 DEF Decided
<1>8. LockRight'
  BY <1>2, <1>3, <1>4 DEF StoreInv, LockRight, Framed
<1>9. (Begun(r)' => Begun(r)) /\ ~Stands(r, "forget") /\ ~Stands(r, "run")'
  BY <1>1, <1>3 DEF Begun, Stands
<1>10. lock' \in Numbers \cup {NoValue}
  BY <1>4 DEF StoreInv, StoreTypes
<1> QED
  BY <1>2, <1>4, <1>5, <1>6, <1>7, <1>8, <1>9, <1>10, QuietStep

LEMMA EnterRight ==
    ASSUME StoreInv, NEW r \in Numbers, Enter(r)
    PROVE  StoreInv'
<1>1. reqs[r].pc \in {"ensure", "change"} /\ lock = NoValue /\ lock' = r
  BY DEF Enter
<1>2. Framed(r)
  BY DEF Enter, Framed, StoreInv, StoreTypes, Unused
<1>3. /\ reqs'[r].pc = IF reqs[r].pc = "ensure" THEN "upsert" ELSE "apply"
      /\ reqs'[r].op = reqs[r].op /\ reqs'[r].id = reqs[r].id
      /\ reqs'[r].field = reqs[r].field /\ reqs'[r].seen = reqs[r].seen
      /\ reqs'[r].next = reqs[r].next /\ reqs'[r].config = workflows
  BY DEF Enter, Unused, StoreInv, StoreTypes
<1>4. UNCHANGED <<workflows, version, runs, acked, strays>>
  BY DEF Enter
<1>5. Decided(reqs'[r]) => Decided(reqs[r])
  BY <1>1, <1>3 DEF Decided
<1>6. RequestRight(reqs[r])
  BY DEF StoreInv, RequestsRight
<1>7. RequestRight(reqs'[r])
  BY <1>1, <1>3, <1>5, <1>6 DEF RequestRight
<1>8. \A i : Gives(r, i) => Gives(r, i)'
  BY <1>3 DEF Gives
<1>9. \A b \in Builtins : Decided(reqs'[r]) /\ reqs'[r].op = "delete" /\ reqs'[r].id = b =>
          \E q \in Numbers : Gives(q, b)'
  <2> SUFFICES ASSUME NEW b \in Builtins, Decided(reqs'[r]), reqs'[r].op = "delete",
                      reqs'[r].id = b
               PROVE  \E q \in Numbers : Gives(q, b)'
    OBVIOUS
  <2>1. PICK q \in Numbers : Gives(q, b)
    BY <1>3, <1>5 DEF StoreInv, RemovesRight
  <2>2. Gives(q, b)'
    BY <1>2, <1>8, <2>1 DEF Gives, Framed
  <2> QED
    BY <2>2
<1>10. LockRight'
  <2> SUFFICES ASSUME NEW q \in Numbers, reqs'[q].pc \in {"upsert", "apply"}
               PROVE  lock' = q /\ reqs'[q].config = workflows'
    BY DEF LockRight
  <2>1. CASE q = r
    BY <1>1, <1>3, <1>4, <2>1
  <2>2. CASE q # r
    BY <1>1, <1>2, <2>2, StoreAssumption DEF Framed, StoreInv, LockRight
  <2> QED
    BY <2>1, <2>2
<1>11. (Begun(r)' => Begun(r)) /\ ~Stands(r, "forget") /\ ~Stands(r, "run")'
  BY <1>1, <1>3 DEF Begun, Stands
<1>12. lock' \in Numbers \cup {NoValue}
  BY <1>1
<1> QED
  BY <1>2, <1>4, <1>7, <1>8, <1>9, <1>10, <1>11, <1>12, QuietStep

LEMMA InvalidRight ==
    ASSUME StoreInv, NEW r \in Numbers, Invalid(r)
    PROVE  StoreInv'
<1>1. reqs[r].pc = "ensure"
  BY DEF Invalid, Stands
<1>2. Framed(r)
  BY DEF Invalid, Replies, Framed, StoreInv, StoreTypes, Unused
<1>3. /\ reqs'[r].pc = "answered" /\ reqs'[r].op = reqs[r].op /\ reqs'[r].id = reqs[r].id
      /\ reqs'[r].field = reqs[r].field /\ reqs'[r].seen = reqs[r].seen
  BY DEF Invalid, Replies, Unused, StoreInv, StoreTypes
<1>4. UNCHANGED <<workflows, version, runs, acked, strays, lock>>
  BY DEF Invalid
<1>5. ~Decided(reqs'[r])
  BY <1>3 DEF Decided
<1>6. RequestRight(reqs'[r])
  BY <1>1, <1>3, <1>5 DEF RequestRight, StoreInv, RequestsRight
<1>7. \A i : Gives(r, i) => Gives(r, i)'
  BY <1>3 DEF Gives
<1>8. LockRight'
  BY <1>2, <1>3, <1>4 DEF StoreInv, LockRight, Framed
<1>9. (Begun(r)' => Begun(r)) /\ ~Stands(r, "forget") /\ ~Stands(r, "run")'
  BY <1>1, <1>3 DEF Begun, Stands
<1>10. lock' \in Numbers \cup {NoValue}
  BY <1>4 DEF StoreInv, StoreTypes
<1> QED
  BY <1>2, <1>4, <1>5, <1>6, <1>7, <1>8, <1>9, <1>10, QuietStep

LEMMA ReadBeforeRight ==
    ASSUME StoreInv, NEW r \in Numbers, ReadBefore(r)
    PROVE  StoreInv'
<1> DEFINE id == reqs[r].id
           op == reqs[r].op
           found == There(workflows, id)
           Deciding(old) == /\ reqs'[r].pc = "ensure" /\ reqs'[r].next = "change"
                          /\ reqs'[r].seen = old
<1>1. reqs[r].pc = "get"
  BY DEF ReadBefore, Stands
<1>2. /\ Framed(r) /\ reqs'[r].op = op /\ reqs'[r].id = id /\ reqs'[r].field = reqs[r].field
      /\ \/ ~found /\ op = "delete" /\ Deciding(reqs[r].seen)
         \/ found /\ ~Get(workflows, id).system /\ op \in {"update", "delete"}
                  /\ Deciding(Get(workflows, id))
         \/ reqs'[r].pc = "answered" /\ reqs'[r].seen = reqs[r].seen
         \/ found /\ reqs'[r].pc = "run" /\ reqs'[r].seen = reqs[r].seen
  <2>1. DOMAIN reqs = Numbers /\ \A q \in Numbers : DOMAIN reqs[q] = DOMAIN Unused
    BY DEF StoreInv, StoreTypes
  <2>2. CASE /\ ~found /\ op = "delete"
             /\ reqs' = [reqs EXCEPT ![r].pc = "ensure", ![r].next = "change"]
    BY <2>1, <2>2 DEF Framed, Unused
  <2>3. CASE /\ found /\ ~Get(workflows, id).system /\ op \in {"update", "delete"}
             /\ reqs' = [reqs EXCEPT ![r].pc = "ensure", ![r].next = "change",
                                     ![r].seen = Get(workflows, id)]
    BY <2>1, <2>3 DEF Framed, Unused
  <2>4. ASSUME NEW answer, Replies(r, answer)
        PROVE  /\ Framed(r) /\ reqs'[r].op = op /\ reqs'[r].id = id
               /\ reqs'[r].field = reqs[r].field
               /\ reqs'[r].pc = "answered" /\ reqs'[r].seen = reqs[r].seen
    BY <2>1, <2>4 DEF Framed, Unused, Replies
  <2>5. CASE found /\ Proceeds(r, "run")
    BY <2>1, <2>5 DEF Framed, Unused, Proceeds
  <2> QED
    BY <2>2, <2>3, <2>4, <2>5 DEF ReadBefore, Protected
<1>3. Framed(r) /\ reqs'[r].op = op /\ reqs'[r].id = id /\ reqs'[r].field = reqs[r].field
  BY <1>2
<1>4. UNCHANGED <<workflows, version, runs, acked, strays, lock>>
  BY DEF ReadBefore
<1>5. RequestRight(reqs[r])
  BY DEF StoreInv, RequestsRight
<1>6. id \in WorkflowIds
  BY <1>1, <1>5 DEF RequestRight
<1>7. found => Get(workflows, id) \in Definitions /\ Get(workflows, id).id = id
  BY GetRight DEF StoreInv, StoreTypes, DefinitionsKept, BuiltinsKept
<1>8. NoValue \notin Definitions
  BY StoreAssumption
<1> HIDE DEF id, op, found
<1>9. RequestRight(reqs'[r])
  <2>1. CASE ~found /\ op = "delete" /\ Deciding(reqs[r].seen)
    BY <1>1, <1>3, <1>5, <1>6, <2>1 DEF RequestRight, Decided, id, op
  <2>2. CASE found /\ ~Get(workflows, id).system /\ op \in {"update", "delete"}
             /\ Deciding(Get(workflows, id))
    <3>1. reqs'[r].seen \in Definitions /\ reqs'[r].seen.id = id /\ ~reqs'[r].seen.system
      BY <1>7, <2>2
    <3>2. op = "update" => reqs[r].field \in Fields
      BY <1>1, <1>5 DEF RequestRight, op
    <3> QED
      BY <1>3, <1>6, <1>8, <2>2, <3>1, <3>2 DEF RequestRight, Decided
  <2>3. CASE reqs'[r].pc \in {"answered", "run"} /\ reqs'[r].seen = reqs[r].seen
    BY <1>1, <1>3, <1>5, <1>6, <2>3 DEF RequestRight, Decided, id, op
  <2> QED
    BY <1>2, <2>1, <2>2, <2>3
<1>10. \A i : Gives(r, i) => Gives(r, i)'
  BY <1>2, <1>7, <1>8 DEF Gives, id, op
<1>11. \A b \in Builtins : Decided(reqs'[r]) /\ reqs'[r].op = "delete" /\ reqs'[r].id = b =>
           \E q \in Numbers : Gives(q, b)'
  <2> SUFFICES ASSUME NEW b \in Builtins, Decided(reqs'[r]), reqs'[r].op = "delete",
                      reqs'[r].id = b
               PROVE  \E q \in Numbers : Gives(q, b)'
    OBVIOUS
  <2>1. CASE found
    <3>1. reqs'[r].seen = Get(workflows, id)
      BY <1>2, <2>1 DEF Decided
    <3>2. Gives(r, b)'
      BY <1>7, <1>8, <2>1, <3>1 DEF Gives
    <3> QED
      BY <3>2
  <2>2. CASE ~found
    <3>1. \E q \in Numbers : Begun(q)
      BY <1>1 DEF Begun
    <3>2. b = id
      BY <1>2
    <3>3. PICK q \in Numbers : Gives(q, b)
      BY <2>2, <3>1, <3>2 DEF StoreInv, DefinitionsKept, BuiltinsKept, found
    <3>4. Gives(q, b)'
      BY <1>2, <1>10, <3>3 DEF Gives, Framed
    <3> QED
      BY <3>4
  <2> QED
    BY <2>1, <2>2
<1>12. LockRight'
  BY <1>2, <1>4 DEF StoreInv, LockRight, Framed
<1>13. Begun(r) /\ ~Stands(r, "forget")
  BY <1>1 DEF Begun, Stands
<1>14. Stands(r, "run")' => There(workflows, reqs'[r].id)
  BY <1>2 DEF Stands, found
<1>15. lock' \in Numbers \cup {NoValue}
  BY <1>4 DEF StoreInv, StoreTypes
<1> QED
  BY <1>3, <1>4, <1>9, <1>10, <1>11, <1>12, <1>13, <1>14, <1>15, QuietStep

\* Whoever is inside has read the file as it is, and is alone there.
LEMMA InsideRight ==
    ASSUME StoreInv, NEW r \in Numbers, reqs[r].pc \in {"upsert", "apply"}
    PROVE  /\ lock = r /\ reqs[r].config = workflows /\ Sound(workflows)
           /\ \A q \in Numbers : q # r => reqs[q].pc \notin {"upsert", "apply"}
<1>1. lock = r /\ reqs[r].config = workflows
  BY DEF StoreInv, LockRight
<1>2. \A q \in Numbers : q # r => reqs[q].pc \notin {"upsert", "apply"}
  BY <1>1 DEF StoreInv, LockRight
<1>3. Sound(workflows)
  BY DEF Sound, StoreInv, StoreTypes, DefinitionsKept, BuiltinsKept
<1> QED
  BY <1>1, <1>2, <1>3

LEMMA UpsertRight ==
    ASSUME StoreInv, NEW r \in Numbers, Upsert(r)
    PROVE  StoreInv'
<1>1. /\ reqs[r].pc = "upsert" /\ lock' = NoValue
      /\ UNCHANGED <<version, runs, stops, acked, strays>>
  BY DEF Upsert, Stands
<1>2. /\ reqs[r].config = workflows /\ Sound(workflows)
      /\ \A q \in Numbers : q # r => reqs[q].pc \notin {"upsert", "apply"}
  BY <1>1, InsideRight
<1>3. workflows' = Upserted(workflows)
  BY <1>2 DEF Upsert
<1>4. Framed(r)
  BY DEF Upsert, Proceeds, Framed, StoreInv, StoreTypes, Unused
<1>5. /\ reqs'[r].pc = reqs[r].next /\ reqs'[r].op = reqs[r].op /\ reqs'[r].id = reqs[r].id
      /\ reqs'[r].field = reqs[r].field /\ reqs'[r].seen = reqs[r].seen
      /\ reqs'[r].next = reqs[r].next
  BY DEF Upsert, Proceeds, Unused, StoreInv, StoreTypes
<1>6. RequestRight(reqs[r]) /\ reqs[r].next \in {"get", "change"}
  BY <1>1 DEF StoreInv, RequestsRight, RequestRight
<1>7. Decided(reqs'[r]) => Decided(reqs[r])
  BY <1>1, <1>5, <1>6 DEF Decided
<1>8. RequestRight(reqs'[r])
  BY <1>1, <1>5, <1>6, <1>7 DEF RequestRight
<1>9. \A i : Gives(r, i) => Gives(r, i)'
  BY <1>5 DEF Gives
<1>10. \A b \in Builtins : Decided(reqs'[r]) /\ reqs'[r].op = "delete" /\ reqs'[r].id = b =>
           \E q \in Numbers : Gives(q, b)'
  <2> SUFFICES ASSUME NEW b \in Builtins, Decided(reqs'[r]), reqs'[r].op = "delete",
                      reqs'[r].id = b
               PROVE  \E q \in Numbers : Gives(q, b)'
    OBVIOUS
  <2>1. PICK q \in Numbers : Gives(q, b)
    BY <1>5, <1>7 DEF StoreInv, RemovesRight
  <2>2. Gives(q, b)'
    BY <1>4, <1>9, <2>1 DEF Gives, Framed
  <2> QED
    BY <2>2
<1>11. /\ RequestsRight' /\ RemovesRight'
       /\ DOMAIN reqs' = Numbers /\ \A q \in Numbers : DOMAIN reqs'[q] = DOMAIN Unused
  BY <1>4, <1>8, <1>9, <1>10, RequestStep
<1>12. version \in Nat
  BY DEF StoreInv, StoreTypes
<1>13. /\ Sound(workflows')
       /\ \A b \in Builtins : /\ There(workflows', b)
                              /\ Get(workflows', b).system => Get(workflows', b).version = version
       /\ \A id : There(workflows, id) => There(workflows', id)
       /\ \A id : There(workflows, id) /\ ~Get(workflows, id).system =>
              Get(workflows', id) = Get(workflows, id)
  BY <1>2, <1>3, <1>12, UpsertedRight
<1>14. StoreTypes'
  BY <1>1, <1>11, <1>13 DEF StoreInv, StoreTypes, Sound
<1>15. LockRight'
  BY <1>2, <1>4, <1>5, <1>6 DEF LockRight, Framed
<1>16. AckedRight'
  BY <1>1, <1>13 DEF StoreInv, AckedRight
<1>17. RunsRight'
  BY <1>1, <1>4, <1>5, <1>6, <1>13 DEF StoreInv, RunsRight, Framed, Stands
<1>18. BuiltinsKept'
  BY <1>1, <1>13 DEF BuiltinsKept, Sound
<1>19. AcknowledgedKept'
  <2>1. \A id \in WorkflowIds, f \in Fields : acked'[id][f] # NoValue =>
            There(workflows', id) /\ Get(workflows', id)[f] = acked'[id][f]
    BY <1>1, <1>13 DEF StoreInv, AckedRight
  <2>2. ASSUME NEW id \in WorkflowIds, runs'[id] # {}
        PROVE  \/ There(workflows', id) \/ id \in strays'
               \/ \E q \in Numbers : reqs'[q].pc = "forget" /\ reqs'[q].id = id
    BY <1>1, <1>4, <1>13, <2>2 DEF StoreInv, DefinitionsKept, AcknowledgedKept, Framed, Stands
  <2> QED
    BY <2>1, <2>2 DEF AcknowledgedKept, Stands
<1> QED
  BY <1>11, <1>14, <1>15, <1>16, <1>17, <1>18, <1>19 DEF StoreInv, DefinitionsKept

\* A request that is in the middle of its change has been through its first step.
LEMMA BuiltinsThere ==
    ASSUME StoreInv, NEW r \in Numbers, Begun(r), NEW b \in Builtins
    PROVE  \/ There(workflows, b)
              /\ (Get(workflows, b).system => Get(workflows, b).version = version)
           \/ \E q \in Numbers : Gives(q, b)
BY DEF StoreInv, DefinitionsKept, BuiltinsKept

\* An answer of a request that was inside; it decides nothing any more.
LEMMA RepliesRight ==
    ASSUME StoreInv, NEW r \in Numbers, NEW answer, Replies(r, answer), reqs[r].pc # "new"
    PROVE  /\ Framed(r) /\ RequestRight(reqs'[r])
           /\ reqs'[r].pc = "answered" /\ reqs'[r].id = reqs[r].id
           /\ \A i : Gives(r, i) => Gives(r, i)'
           /\ ~Decided(reqs'[r])
<1>1. Framed(r)
  BY DEF Replies, Framed, StoreInv, StoreTypes, Unused
<1>2. /\ reqs'[r].pc = "answered" /\ reqs'[r].op = reqs[r].op /\ reqs'[r].id = reqs[r].id
      /\ reqs'[r].field = reqs[r].field /\ reqs'[r].seen = reqs[r].seen
  BY DEF Replies, Unused, StoreInv, StoreTypes
<1>3. ~Decided(reqs'[r])
  BY <1>2 DEF Decided
<1>4. RequestRight(reqs[r])
  BY DEF StoreInv, RequestsRight
<1>5. RequestRight(reqs'[r])
  BY <1>2, <1>3, <1>4 DEF RequestRight
<1> QED
  BY <1>1, <1>2, <1>3, <1>5 DEF Gives

\* What an acknowledgement of this request notes is what the new definition holds.
AckedBy(r, new) ==
    /\ DOMAIN acked' = WorkflowIds /\ DOMAIN acked'[reqs[r].id] = Fields
    /\ \A i \in WorkflowIds : i # reqs[r].id => acked'[i] = acked[i]
    /\ \A f \in Fields : acked'[reqs[r].id][f] # NoValue => new[f] = acked'[reqs[r].id][f]

\* A change that puts a definition of a user in place.
LEMMA PutStep ==
    ASSUME StoreInv, NEW r \in Numbers, reqs[r].pc = "apply", Replies(r, "ok"),
           NEW new \in Definitions, new.id = reqs[r].id, ~new.system,
           workflows' = Except(workflows, reqs[r].id) \cup {new},
           AckedBy(r, new),
           lock' = NoValue, UNCHANGED <<version, runs, strays>>
    PROVE  StoreInv'
<1> DEFINE id == reqs[r].id
<1>1. /\ Framed(r) /\ RequestRight(reqs'[r]) /\ reqs'[r].pc = "answered"
      /\ \A i : Gives(r, i) => Gives(r, i)'
      /\ ~Decided(reqs'[r])
  BY RepliesRight
<1>2. /\ RequestsRight' /\ RemovesRight'
      /\ DOMAIN reqs' = Numbers /\ \A q \in Numbers : DOMAIN reqs'[q] = DOMAIN Unused
      /\ \A b : (\E q \in Numbers : Gives(q, b)) => \E q \in Numbers : Gives(q, b)'
  BY <1>1, RequestStep
<1>3. Sound(workflows) /\ \A q \in Numbers : q # r => reqs[q].pc \notin {"upsert", "apply"}
  BY InsideRight
<1>4. id \in WorkflowIds
  BY DEF StoreInv, RequestsRight, RequestRight
<1>5. /\ Sound(workflows') /\ There(workflows', id) /\ Get(workflows', id) = new
      /\ \A i : i # id => There(workflows', i) = There(workflows, i)
      /\ \A i : i # id /\ There(workflows, i) => Get(workflows', i) = Get(workflows, i)
  BY <1>3, PutRight
<1>6. /\ DOMAIN acked' = WorkflowIds /\ DOMAIN acked'[id] = Fields
      /\ \A i \in WorkflowIds : i # id => acked'[i] = acked[i]
      /\ \A f \in Fields : acked'[id][f] # NoValue => new[f] = acked'[id][f]
  BY DEF AckedBy
<1> HIDE DEF id
<1>7. StoreTypes'
  BY <1>2, <1>5, <1>6 DEF StoreInv, StoreTypes, Sound
<1>8. LockRight'
  BY <1>1, <1>3 DEF LockRight, Framed
<1>9. AckedRight'
  <2> SUFFICES ASSUME NEW i \in WorkflowIds, NEW f \in Fields, acked'[i][f] # NoValue
               PROVE  /\ There(workflows', i) /\ ~Get(workflows', i).system
                      /\ Get(workflows', i)[f] = acked'[i][f]
    BY DEF AckedRight
  <2>1. CASE i = id
    BY <1>5, <1>6, <2>1
  <2>2. CASE i # id
    <3>1. acked'[i] = acked[i]
      BY <1>6, <2>2
    <3>2. /\ There(workflows, i) /\ ~Get(workflows, i).system
          /\ Get(workflows, i)[f] = acked[i][f]
      BY <3>1 DEF StoreInv, AckedRight
    <3>3. There(workflows', i) /\ Get(workflows', i) = Get(workflows, i)
      BY <1>5, <2>2, <3>2
    <3> QED
      BY <3>1, <3>2, <3>3
  <2> QED
    BY <2>1, <2>2
<1>10. RunsRight'
  <2> SUFFICES ASSUME NEW q \in Numbers, reqs'[q].pc = "run"
               PROVE  There(workflows', reqs'[q].id) \/ reqs'[q].id \in strays'
    BY DEF RunsRight, Stands
  <2>1. q # r /\ reqs'[q] = reqs[q]
    BY <1>1 DEF Framed
  <2> QED
    BY <1>5, <2>1 DEF StoreInv, RunsRight, Stands
<1>11. BuiltinsKept'
  <2>1. Begun(r)
    BY DEF Begun
  <2>2. ASSUME NEW b \in Builtins
        PROVE  \/ There(workflows', b)
                  /\ (Get(workflows', b).system => Get(workflows', b).version = version')
               \/ \E q \in Numbers : Gives(q, b)'
    <3>1. CASE b = id
      BY <1>5, <3>1
    <3>2. CASE b # id
      BY <1>2, <1>5, <2>1, <3>2, BuiltinsThere
    <3> QED
      BY <3>1, <3>2
  <2> QED
    BY <1>5, <2>2 DEF BuiltinsKept, Sound
<1>12. AcknowledgedKept'
  <2>1. \A i \in WorkflowIds, f \in Fields : acked'[i][f] # NoValue =>
            There(workflows', i) /\ Get(workflows', i)[f] = acked'[i][f]
    BY <1>9 DEF AckedRight
  <2>2. ASSUME NEW i \in WorkflowIds, runs'[i] # {}
        PROVE  \/ There(workflows', i) \/ i \in strays'
               \/ \E q \in Numbers : reqs'[q].pc = "forget" /\ reqs'[q].id = i
    <3>1. \/ There(workflows, i) \/ i \in strays
          \/ \E q \in Numbers : reqs[q].pc = "forget" /\ reqs[q].id = i
      BY <2>2 DEF StoreInv, DefinitionsKept, AcknowledgedKept, Stands
    <3>2. \A q \in Numbers : reqs[q].pc = "forget" => reqs'[q] = reqs[q]
      BY <1>1 DEF Framed
    <3>3. There(workflows, i) => There(workflows', i)
      BY <1>5
    <3> QED
      BY <3>1, <3>2, <3>3
  <2> QED
    BY <2>1, <2>2 DEF AcknowledgedKept, Stands
<1> QED
  BY <1>2, <1>7, <1>8, <1>9, <1>10, <1>11, <1>12 DEF StoreInv, DefinitionsKept

LEMMA ApplyCreateRight ==
    ASSUME StoreInv, NEW r \in Numbers, Apply(r), Applicable(r), reqs[r].op = "create"
    PROVE  StoreInv'
<1> DEFINE id == reqs[r].id
           new == [id |-> id, system |-> FALSE, version |-> 0, name |-> r, nodes |-> r]
           values == [f \in Fields |-> r]
<1>1. reqs[r].pc = "apply" /\ lock' = NoValue /\ UNCHANGED <<version, runs, stops, strays>>
  BY DEF Apply, Stands
<1>2. Replies(r, "ok") /\ workflows' = Applied(r) /\ acked' = Noted(r)
  BY DEF Apply
<1>3. reqs[r].config = workflows
  BY <1>1, InsideRight
<1>4. id \in WorkflowIds
  BY <1>1 DEF StoreInv, RequestsRight, RequestRight
<1>5. new \in Definitions /\ new.id = id /\ ~new.system
  BY <1>4, StoreAssumption DEF Definitions
<1>6. ~There(workflows, id)
  BY <1>3 DEF Applicable
<1>7. workflows' = workflows \cup {new}
  BY <1>2, <1>3 DEF Applied
<1>8. Except(workflows, id) = workflows
  BY <1>6 DEF There, Except
<1>9. workflows' = Except(workflows, id) \cup {new}
  BY <1>7, <1>8
<1>10. DOMAIN values = Fields /\ \A f \in Fields : values[f] # NoValue => new[f] = values[f]
  BY DEF Fields
<1>11. acked' = [acked EXCEPT ![id] = values]
  BY <1>2 DEF Noted
<1>12. UNCHANGED <<version, runs, strays>>
  BY <1>1, <1>2
<1>13. AckedBy(r, new)
  <2>1. DOMAIN acked = WorkflowIds
    BY DEF StoreInv, StoreTypes
  <2>2. acked'[id] = values
    BY <1>4, <1>11, <2>1
  <2> HIDE DEF new, values
  <2> QED
    BY <1>10, <1>11, <2>1, <2>2 DEF AckedBy
<1> HIDE DEF new, values
<1> QED
  BY <1>1, <1>2, <1>5, <1>9, <1>12, <1>13, PutStep

LEMMA ApplyUpdateRight ==
    ASSUME StoreInv, NEW r \in Numbers, Apply(r), Applicable(r), reqs[r].op = "update"
    PROVE  StoreInv'
<1> DEFINE id == reqs[r].id
           field == reqs[r].field
           old == reqs[r].seen
           new == [old EXCEPT ![field] = r]
           values == [f \in Fields |-> IF f = field THEN r
                                       ELSE IF old = Get(workflows, id) THEN acked[id][f]
                                       ELSE NoValue]
<1>1. reqs[r].pc = "apply" /\ lock' = NoValue /\ UNCHANGED <<version, runs, stops, strays>>
  BY DEF Apply, Stands
<1>2. Replies(r, "ok") /\ workflows' = Applied(r) /\ acked' = Noted(r)
  BY DEF Apply
<1>3. reqs[r].config = workflows
  BY <1>1, InsideRight
<1>4. /\ id \in WorkflowIds /\ field \in Fields
      /\ old \in Definitions /\ old.id = id /\ ~old.system
  BY <1>1 DEF StoreInv, RequestsRight, RequestRight, Decided
<1>5. new \in Definitions /\ new.id = id /\ ~new.system
  BY <1>4, StoreAssumption DEF Definitions, Fields
<1>6. new[field] = r /\ \A f \in Fields : f # field => new[f] = old[f]
  BY <1>4 DEF Definitions, Fields
<1>7. workflows' = Except(workflows, id) \cup {new}
  BY <1>2, <1>3 DEF Applied
<1>8. ASSUME NEW f \in Fields, values[f] # NoValue PROVE new[f] = values[f]
  <2>1. CASE f = field
    BY <1>6, <2>1
  <2>2. CASE f # field
    <3>1. old = Get(workflows, id) /\ values[f] = acked[id][f]
      BY <1>8, <2>2
    <3>2. Get(workflows, id)[f] = acked[id][f]
      BY <1>4, <1>8, <3>1 DEF StoreInv, AckedRight
    <3> QED
      BY <1>6, <2>2, <3>1, <3>2
  <2> QED
    BY <2>1, <2>2
<1>9. DOMAIN values = Fields
  OBVIOUS
<1>10. acked' = [acked EXCEPT ![id] = values]
  BY <1>2, <1>3 DEF Noted
<1>11. UNCHANGED <<version, runs, strays>>
  BY <1>1, <1>2
<1>12. AckedBy(r, new)
  <2>1. DOMAIN acked = WorkflowIds
    BY DEF StoreInv, StoreTypes
  <2>2. acked'[id] = values
    BY <1>4, <1>10, <2>1
  <2> HIDE DEF new, values
  <2> QED
    BY <1>8, <1>9, <1>10, <2>1, <2>2 DEF AckedBy
<1> HIDE DEF new, values
<1> QED
  BY <1>1, <1>2, <1>5, <1>7, <1>11, <1>12, PutStep

LEMMA ApplyDeleteRight ==
    ASSUME StoreInv, NEW r \in Numbers, Apply(r), Applicable(r), reqs[r].op = "delete"
    PROVE  StoreInv'
<1> DEFINE id == reqs[r].id
           values == [f \in Fields |-> NoValue]
<1>1. reqs[r].pc = "apply" /\ lock' = NoValue /\ UNCHANGED <<version, runs, stops>>
  BY DEF Apply, Stands
<1>2. /\ Proceeds(r, "forget") /\ workflows' = Applied(r) /\ acked' = Noted(r)
      /\ strays' = IF Running(id) # {} THEN strays \cup {id} ELSE strays
  BY DEF Apply
<1>3. /\ reqs[r].config = workflows /\ Sound(workflows)
      /\ \A q \in Numbers : q # r => reqs[q].pc \notin {"upsert", "apply"}
  BY <1>1, InsideRight
<1>4. id \in WorkflowIds
  BY <1>1 DEF StoreInv, RequestsRight, RequestRight
<1>5. workflows' = Except(workflows, id)
  BY <1>2, <1>3 DEF Applied
<1>6. /\ Sound(workflows') /\ ~There(workflows', id)
      /\ \A i : i # id => There(workflows', i) = There(workflows, i)
      /\ \A i : i # id /\ There(workflows, i) => Get(workflows', i) = Get(workflows, i)
  BY <1>3, <1>5, TakeRight
<1>7. acked' = [acked EXCEPT ![id] = values]
  BY <1>2 DEF Noted
<1>8. /\ DOMAIN acked' = WorkflowIds /\ DOMAIN acked'[id] = Fields
      /\ \A f \in Fields : acked'[id][f] = NoValue
      /\ \A i \in WorkflowIds : i # id => acked'[i] = acked[i]
  BY <1>4, <1>7 DEF StoreInv, StoreTypes
<1>9. Framed(r)
  BY <1>2 DEF Proceeds, Framed, StoreInv, StoreTypes, Unused
<1>10. /\ reqs'[r].pc = "forget" /\ reqs'[r].op = reqs[r].op /\ reqs'[r].id = id
       /\ reqs'[r].field = reqs[r].field /\ reqs'[r].seen = reqs[r].seen
  BY <1>2 DEF Proceeds, Unused, StoreInv, StoreTypes
<1>11. ~Decided(reqs'[r])
  BY <1>10 DEF Decided
<1>12. RequestRight(reqs'[r])
  BY <1>1, <1>10, <1>11 DEF RequestRight, StoreInv, RequestsRight
<1>13. \A i : Gives(r, i) => Gives(r, i)'
  BY <1>10 DEF Gives
<1>14. /\ RequestsRight' /\ RemovesRight'
       /\ DOMAIN reqs' = Numbers /\ \A q \in Numbers : DOMAIN reqs'[q] = DOMAIN Unused
       /\ \A b : (\E q \in Numbers : Gives(q, b)) => \E q \in Numbers : Gives(q, b)'
  BY <1>9, <1>11, <1>12, <1>13, RequestStep
<1> HIDE DEF id, values
<1>15. StoreTypes'
  BY <1>1, <1>6, <1>8, <1>14 DEF StoreInv, StoreTypes, Sound
<1>16. LockRight'
  BY <1>3, <1>9, <1>10 DEF LockRight, Framed
<1>17. AckedRight'
  <2> SUFFICES ASSUME NEW i \in WorkflowIds, NEW f \in Fields, acked'[i][f] # NoValue
               PROVE  /\ There(workflows', i) /\ ~Get(workflows', i).system
                      /\ Get(workflows', i)[f] = acked'[i][f]
    BY DEF AckedRight
  <2>1. i # id /\ acked'[i] = acked[i]
    BY <1>8
  <2> QED
    BY <1>6, <2>1 DEF StoreInv, AckedRight
<1>18. RunsRight'
  <2> SUFFICES ASSUME NEW q \in Numbers, reqs'[q].pc = "run"
               PROVE  There(workflows', reqs'[q].id) \/ reqs'[q].id \in strays'
    BY DEF RunsRight, Stands
  <2>1. q # r /\ reqs'[q] = reqs[q]
    BY <1>9, <1>10 DEF Framed
  <2>2. CASE reqs[q].id = id
    <3>1. q \in Running(id)
      BY <2>1, <2>2 DEF Running, Stands
    <3>2. strays' = strays \cup {id}
      BY <1>2, <3>1
    <3> QED
      BY <2>1, <2>2, <3>2
  <2>3. CASE reqs[q].id # id
    <3>1. There(workflows, reqs[q].id) \/ reqs[q].id \in strays
      BY <2>1 DEF StoreInv, RunsRight, Stands
    <3>2. strays \subseteq strays'
      BY <1>2
    <3> QED
      BY <1>6, <2>1, <2>3, <3>1, <3>2
  <2> QED
    BY <2>2, <2>3
<1>19. BuiltinsKept'
  <2>1. Begun(r)
    BY <1>1 DEF Begun
  <2>2. ASSUME NEW b \in Builtins
        PROVE  \/ There(workflows', b)
                  /\ (Get(workflows', b).system => Get(workflows', b).version = version')
               \/ \E q \in Numbers : Gives(q, b)'
    <3>1. CASE b = id
      <4>1. Decided(reqs[r]) /\ reqs[r].id = b
        BY <1>1, <3>1 DEF Decided, id
      <4>2. \E q \in Numbers : Gives(q, b)
        BY <4>1 DEF StoreInv, RemovesRight
      <4> QED
        BY <1>14, <4>2
    <3>2. CASE b # id
      BY <1>1, <1>6, <1>14, <2>1, <3>2, BuiltinsThere
    <3> QED
      BY <3>1, <3>2
  <2> QED
    BY <1>1, <1>6, <2>2 DEF BuiltinsKept, Sound
<1>20. AcknowledgedKept'
  <2>1. \A i \in WorkflowIds, f \in Fields : acked'[i][f] # NoValue =>
            There(workflows', i) /\ Get(workflows', i)[f] = acked'[i][f]
    BY <1>17 DEF AckedRight
  <2>2. ASSUME NEW i \in WorkflowIds, runs'[i] # {}
        PROVE  \/ There(workflows', i) \/ i \in strays'
               \/ \E q \in Numbers : reqs'[q].pc = "forget" /\ reqs'[q].id = i
    <3>1. CASE i = id
      BY <1>10, <3>1
    <3>2. CASE i # id
      <4>1. \/ There(workflows, i) \/ i \in strays
            \/ \E q \in Numbers : reqs[q].pc = "forget" /\ reqs[q].id = i
        BY <1>1, <2>2 DEF StoreInv, DefinitionsKept, AcknowledgedKept, Stands
      <4>2. strays \subseteq strays'
        BY <1>2
      <4>3. \A q \in Numbers : reqs[q].pc = "forget" => reqs'[q] = reqs[q]
        BY <1>1, <1>9 DEF Framed
      <4> QED
        BY <1>6, <3>2, <4>1, <4>2, <4>3
    <3> QED
      BY <3>1, <3>2
  <2> QED
    BY <2>1, <2>2 DEF AcknowledgedKept, Stands
<1> QED
  BY <1>14, <1>15, <1>16, <1>17, <1>18, <1>19, <1>20 DEF StoreInv, DefinitionsKept

LEMMA ApplyRefusedRight ==
    ASSUME StoreInv, NEW r \in Numbers, Apply(r), ~Applicable(r)
    PROVE  StoreInv'
<1>1. /\ reqs[r].pc = "apply" /\ lock' = NoValue /\ Replies(r, "refused")
      /\ UNCHANGED <<workflows, version, runs, acked, strays>>
  BY DEF Apply, Stands
<1>2. /\ Framed(r) /\ RequestRight(reqs'[r]) /\ reqs'[r].pc = "answered"
      /\ \A i : Gives(r, i) => Gives(r, i)'
      /\ ~Decided(reqs'[r])
  BY <1>1, RepliesRight
<1>3. \A q \in Numbers : q # r => reqs[q].pc \notin {"upsert", "apply"}
  BY <1>1, InsideRight
<1>4. LockRight'
  BY <1>2, <1>3 DEF LockRight, Framed
<1>5. (Begun(r)' => Begun(r)) /\ ~Stands(r, "forget") /\ ~Stands(r, "run")'
  BY <1>1, <1>2 DEF Begun, Stands
<1> QED
  BY <1>1, <1>2, <1>4, <1>5, QuietStep

LEMMA ApplyRight ==
    ASSUME StoreInv, NEW r \in Numbers, Apply(r)
    PROVE  StoreInv'
<1>1. Decided(reqs[r])
  BY DEF Apply, Stands, Decided
<1>2. reqs[r].op \in {"create", "update", "delete"}
  BY <1>1 DEF StoreInv, RequestsRight, RequestRight
<1> QED
  BY <1>2, ApplyCreateRight, ApplyUpdateRight, ApplyDeleteRight, ApplyRefusedRight

\* A request that ends after it has changed the records of its definition.
LEMMA RecordStep ==
    ASSUME StoreInv, NEW r \in Numbers, reqs[r].pc \in {"forget", "run"}, Replies(r, "ok"),
           UNCHANGED <<workflows, lock, version, acked, strays>>, DOMAIN runs' = WorkflowIds,
           \A i \in WorkflowIds : runs'[i] # {} =>
               \/ There(workflows, i) \/ i \in strays
               \/ \E q \in Numbers : q # r /\ reqs[q].pc = "forget" /\ reqs[q].id = i
    PROVE  StoreInv'
<1>1. /\ Framed(r) /\ RequestRight(reqs'[r]) /\ reqs'[r].pc = "answered"
      /\ \A i : Gives(r, i) => Gives(r, i)'
      /\ ~Decided(reqs'[r])
  BY RepliesRight
<1>2. /\ RequestsRight' /\ RemovesRight'
      /\ DOMAIN reqs' = Numbers /\ \A q \in Numbers : DOMAIN reqs'[q] = DOMAIN Unused
      /\ \A b : (\E q \in Numbers : Gives(q, b)) => \E q \in Numbers : Gives(q, b)'
  BY <1>1, RequestStep
<1>3. StoreTypes'
  BY <1>2 DEF StoreInv, StoreTypes
<1>4. LockRight'
  BY <1>1 DEF StoreInv, LockRight, Framed
<1>5. AckedRight'
  BY DEF StoreInv, AckedRight
<1>6. RunsRight'
  BY <1>1 DEF StoreInv, RunsRight, Stands, Framed
<1>7. BuiltinsKept'
  <2>1. Begun(r)
    BY DEF Begun
  <2>2. Unique(workflows') /\ \A w \in workflows' : Genuine(w, version')
    BY DEF StoreInv, DefinitionsKept, BuiltinsKept
  <2>3. \A b \in Builtins :
            \/ There(workflows', b)
               /\ (Get(workflows', b).system => Get(workflows', b).version = version')
            \/ \E q \in Numbers : Gives(q, b)'
    BY <1>2, <2>1, BuiltinsThere
  <2> QED
    BY <2>2, <2>3 DEF BuiltinsKept
<1>8. AcknowledgedKept'
  <2>1. \A i \in WorkflowIds, f \in Fields : acked'[i][f] # NoValue =>
            There(workflows', i) /\ Get(workflows', i)[f] = acked'[i][f]
    BY DEF StoreInv, AckedRight
  <2>2. \A i \in WorkflowIds : runs'[i] # {} =>
            \/ There(workflows', i) \/ i \in strays'
            \/ \E q \in Numbers : reqs'[q].pc = "forget" /\ reqs'[q].id = i
    BY <1>1 DEF Framed
  <2> QED
    BY <2>1, <2>2 DEF AcknowledgedKept, Stands
<1> QED
  BY <1>2, <1>3, <1>4, <1>5, <1>6, <1>7, <1>8 DEF StoreInv, DefinitionsKept

LEMMA ForgetRight ==
    ASSUME StoreInv, NEW r \in Numbers, Forget(r)
    PROVE  StoreInv'
<1>1. reqs[r].pc = "forget" /\ Replies(r, "ok") /\ runs' = [runs EXCEPT ![reqs[r].id] = {}]
  BY DEF Forget, Stands, WithoutRuns
<1>2. UNCHANGED <<workflows, lock, version, acked, strays>>
  BY DEF Forget
<1>3. DOMAIN runs = WorkflowIds /\ DOMAIN runs' = WorkflowIds
  BY <1>1 DEF StoreInv, StoreTypes
<1>4. ASSUME NEW i \in WorkflowIds, runs'[i] # {}
      PROVE  \/ There(workflows, i) \/ i \in strays
             \/ \E q \in Numbers : q # r /\ reqs[q].pc = "forget" /\ reqs[q].id = i
  <2>1. i # reqs[r].id
    BY <1>1, <1>3, <1>4
  <2>2. runs[i] # {}
    BY <1>1, <1>3, <1>4, <2>1
  <2> QED
    BY <2>1, <2>2 DEF StoreInv, DefinitionsKept, AcknowledgedKept, Stands
<1> QED
  BY <1>1, <1>2, <1>3, <1>4, RecordStep

LEMMA FinishRight ==
    ASSUME StoreInv, NEW r \in Numbers, Finish(r)
    PROVE  StoreInv'
<1>1. reqs[r].pc = "run" /\ Replies(r, "ok")
      /\ runs' = [runs EXCEPT ![reqs[r].id] = runs[reqs[r].id] \cup {r}]
  BY DEF Finish, Stands
<1>2. UNCHANGED <<workflows, lock, version, acked, strays>>
  BY DEF Finish
<1>3. DOMAIN runs = WorkflowIds /\ DOMAIN runs' = WorkflowIds
  BY <1>1 DEF StoreInv, StoreTypes
<1>4. ASSUME NEW i \in WorkflowIds, runs'[i] # {}
      PROVE  \/ There(workflows, i) \/ i \in strays
             \/ \E q \in Numbers : q # r /\ reqs[q].pc = "forget" /\ reqs[q].id = i
  <2>1. CASE i = reqs[r].id
    BY <1>1, <2>1 DEF StoreInv, RunsRight, Stands
  <2>2. CASE i # reqs[r].id
    <3>1. runs[i] # {}
      BY <1>1, <1>3, <1>4, <2>2
    <3> QED
      BY <1>1, <3>1 DEF StoreInv, DefinitionsKept, AcknowledgedKept, Stands
  <2> QED
    BY <2>1, <2>2
<1> QED
  BY <1>1, <1>2, <1>3, <1>4, RecordStep

LEMMA StopRight ==
    ASSUME StoreInv, Stop
    PROVE  StoreInv'
<1>1. /\ version' \in Nat /\ version <= version' /\ lock' = NoValue
      /\ UNCHANGED <<workflows, runs, acked>>
  BY StoreAssumption DEF Stop, StoreInv, StoreTypes
<1>2. /\ DOMAIN reqs' = Numbers
      /\ \A r \in Numbers : reqs'[r] = IF reqs[r].pc \in {"new", "answered"} THEN reqs[r]
                                       ELSE [reqs[r] EXCEPT !.pc = "gone"]
  BY DEF Stop
<1>3. \A r \in Numbers :
          /\ DOMAIN reqs'[r] = DOMAIN Unused
          /\ reqs'[r].pc \in {"new", "answered", "gone"}
          /\ reqs'[r].pc = "new" => reqs[r].pc = "new"
          /\ reqs'[r].pc # "new" => reqs[r].pc # "new"
          /\ reqs'[r].op = reqs[r].op /\ reqs'[r].id = reqs[r].id
          /\ reqs'[r].field = reqs[r].field /\ reqs'[r].seen = reqs[r].seen
  <2> TAKE r \in Numbers
  <2>1. DOMAIN reqs[r] = DOMAIN Unused
    BY DEF StoreInv, StoreTypes
  <2>2. CASE reqs[r].pc \in {"new", "answered"}
    BY <1>2, <2>1, <2>2
  <2>3. CASE reqs[r].pc \notin {"new", "answered"}
    BY <1>2, <2>1, <2>3 DEF Unused
  <2> QED
    BY <2>2, <2>3
<1>4. strays' = strays \cup {reqs[r].id : r \in {q \in Numbers : Stands(q, "forget")}}
  BY DEF Stop
<1>5. \A r \in Numbers : RequestRight(reqs'[r]) /\ ~Decided(reqs'[r])
  <2> TAKE r \in Numbers
  <2>1. RequestRight(reqs[r])
    BY DEF StoreInv, RequestsRight
  <2>2. ~Decided(reqs'[r])
    BY <1>3 DEF Decided
  <2> QED
    BY <1>3, <2>1, <2>2 DEF RequestRight
<1>6. RequestsRight'
  BY <1>5 DEF RequestsRight, RequestRight, Decided
<1>7. RemovesRight'
  BY <1>5 DEF RemovesRight, Decided
<1>8. LockRight' /\ RunsRight'
  BY <1>3 DEF LockRight, RunsRight, Stands
<1>9. StoreTypes'
  BY <1>1, <1>2, <1>3 DEF StoreInv, StoreTypes
<1>10. AckedRight'
  BY <1>1 DEF StoreInv, AckedRight
<1>11. BuiltinsKept'
  <2>1. \A r \in Numbers : ~Begun(r)'
    BY <1>3 DEF Begun
  <2>2. Unique(workflows')
    BY <1>1 DEF StoreInv, DefinitionsKept, BuiltinsKept
  <2>3. ASSUME NEW w \in workflows' PROVE Genuine(w, version')
    <3>1. w \in Definitions /\ Genuine(w, version) /\ version \in Nat
      BY <1>1 DEF StoreInv, StoreTypes, DefinitionsKept, BuiltinsKept
    <3>2. w.version \in Nat
      BY <3>1 DEF Definitions
    <3>3. w.system => w.version <= version'
      BY <1>1, <3>1, <3>2 DEF Genuine
    <3> QED
      BY <3>1, <3>3 DEF Genuine
  <2> QED
    BY <2>1, <2>2, <2>3 DEF BuiltinsKept
<1>12. AcknowledgedKept'
  <2>1. \A i \in WorkflowIds, f \in Fields : acked'[i][f] # NoValue =>
            There(workflows', i) /\ Get(workflows', i)[f] = acked'[i][f]
    BY <1>1 DEF StoreInv, AckedRight
  <2>2. ASSUME NEW i \in WorkflowIds, runs'[i] # {}
        PROVE  There(workflows', i) \/ i \in strays'
    BY <1>1, <1>4, <2>2 DEF StoreInv, DefinitionsKept, AcknowledgedKept
  <2> QED
    BY <2>1, <2>2 DEF AcknowledgedKept, Stands
<1> QED
  BY <1>6, <1>7, <1>8, <1>9, <1>10, <1>11, <1>12 DEF StoreInv, DefinitionsKept

LEMMA StoreRest ==
    ASSUME StoreInv, UNCHANGED storeVars
    PROVE  StoreInv'
BY DEF StoreInv, storeVars, StoreTypes, RequestsRight, RequestRight, RemovesRight, LockRight,
       AckedRight, RunsRight, Decided, Gives, Stands, DefinitionsKept, BuiltinsKept,
       AcknowledgedKept, Begun

(***************************************************************************)
(* Of the workflow definitions on disk: the ones the program brings along  *)
(* are its own and up to date, or a user gave them up; what users were     *)
(* told was saved is there until somebody changes it, and the records of a *)
(* deleted one are gone.  With any requests at once, any changes, and a    *)
(* stop of the process, with newer definitions, between any two steps.     *)
(***************************************************************************)
THEOREM DefinitionsCorrect == StoreSpec => []DefinitionsKept
<1>1. StoreInv /\ [StoreNext]_storeVars => StoreInv'
  <2> SUFFICES ASSUME StoreInv, [StoreNext]_storeVars PROVE StoreInv'
    OBVIOUS
  <2>1. CASE UNCHANGED storeVars
    BY <2>1, StoreRest
  <2>2. CASE Stop
    BY <2>2, StopRight
  <2>3. ASSUME NEW r \in Numbers, NEW id \in WorkflowIds, NEW f \in Fields,
               Begin(r, "update", id, f)
        PROVE  StoreInv'
    BY <2>3, BeginRight
  <2>4. ASSUME NEW r \in Numbers, NEW id \in WorkflowIds,
               NEW op \in {"create", "delete", "run", "get"}, Begin(r, op, id, NoValue)
        PROVE  StoreInv'
    BY <2>4, BeginRight
  <2>5. ASSUME NEW r \in Numbers, Enter(r) PROVE StoreInv'
    BY <2>5, EnterRight
  <2>6. ASSUME NEW r \in Numbers, Upsert(r) PROVE StoreInv'
    BY <2>6, UpsertRight
  <2>7. ASSUME NEW r \in Numbers, ReadBefore(r) PROVE StoreInv'
    BY <2>7, ReadBeforeRight
  <2>8. ASSUME NEW r \in Numbers, Apply(r) PROVE StoreInv'
    BY <2>8, ApplyRight
  <2>9. ASSUME NEW r \in Numbers, Invalid(r) PROVE StoreInv'
    BY <2>9, InvalidRight
  <2>10. ASSUME NEW r \in Numbers, Forget(r) PROVE StoreInv'
    BY <2>10, ForgetRight
  <2>11. ASSUME NEW r \in Numbers, Finish(r) PROVE StoreInv'
    BY <2>11, FinishRight
  <2> QED
    BY <2>1, <2>2, <2>3, <2>4, <2>5, <2>6, <2>7, <2>8, <2>9, <2>10, <2>11 DEF StoreNext
<1>2. StoreInv => DefinitionsKept
  BY DEF StoreInv
<1> QED
  BY <1>1, <1>2, StoreInitRight, PTL DEF StoreSpec

-----------------------------------------------------------------------------
(* The documents of a knowledge base: replaying a log *)

\* A set of numbers has a least one.
LEMMA Least ==
    ASSUME NEW S \in SUBSET Nat, S # {}
    PROVE  \E i \in S : \A j \in S : ~ (j < i)
<1> DEFINE less == {ss \in Nat \X Nat : ss[1] < ss[2]}
<1>1. IsWellFoundedOn(less, Nat)
  BY NatLessThanWellFounded, Zenon DEF OpToRel
<1>2. \A x, y \in Nat : y < x => <<y, x>> \in less
  OBVIOUS
<1> HIDE DEF less
<1>3. PICK x \in S : \A y \in S : ~ (<<y, x>> \in less)
  BY <1>1, WFMin
<1> QED
  BY <1>2, <1>3

\* Replaying a log takes one step after another.
Steps(map, log, after) ==
    after = [k \in 0..Len(log) |-> IF k = 0 THEN map ELSE After(after[k-1], log[k])]

LEMMA StepsExist ==
    ASSUME NEW map, NEW log, Len(log) \in Nat
    PROVE  \E after : Steps(map, log, after)
<1> DEFINE F(n, f) == f = [k \in 0..n |-> IF k = 0 THEN map ELSE After(f[k-1], log[k])]
           bad == {n \in Nat : ~ \E f : F(n, f)}
<1>1. F(0, [k \in 0..0 |-> map])
  OBVIOUS
<1>2. ASSUME NEW n \in Nat, NEW f, F(n, f)
      PROVE  \E g : F(n + 1, g)
  <2> DEFINE g == [k \in 0..(n + 1) |-> IF k = n + 1 THEN After(f[n], log[n + 1]) ELSE f[k]]
  <2>1. \A k \in 0..n : g[k] = f[k]
    OBVIOUS
  <2>2. ASSUME NEW k \in 0..(n + 1)
        PROVE  g[k] = IF k = 0 THEN map ELSE After(g[k-1], log[k])
    <3>1. CASE k = n + 1
      <4>1. k # 0 /\ k - 1 = n /\ n \in 0..n /\ k \in 0..(n + 1)
        BY <3>1
      <4>2. g[k - 1] = f[n]
        BY <2>1, <4>1
      <4>3. g[k] = After(f[n], log[n + 1])
        BY <3>1
      <4> HIDE DEF g
      <4> QED
        BY <3>1, <4>1, <4>2, <4>3
    <3>2. CASE k # n + 1
      <4>1. k \in 0..n /\ (k # 0 => k - 1 \in 0..n)
        BY <3>2
      <4>2. f[k] = IF k = 0 THEN map ELSE After(f[k-1], log[k])
        BY <1>2, <4>1
      <4>3. g[k] = f[k] /\ (k # 0 => g[k - 1] = f[k - 1])
        BY <2>1, <4>1
      <4> HIDE DEF g
      <4> QED
        BY <4>2, <4>3
    <3> QED
      BY <3>1, <3>2
  <2>3. g = [k \in 0..(n + 1) |-> g[k]]
    OBVIOUS
  <2> HIDE DEF g
  <2>4. g = [k \in 0..(n + 1) |-> IF k = 0 THEN map ELSE After(g[k-1], log[k])]
    BY <2>2, <2>3
  <2> QED
    BY <2>4
<1>3. bad = {}
  <2> SUFFICES ASSUME bad # {} PROVE FALSE
    OBVIOUS
  <2>1. PICK n \in bad : \A m \in bad : ~ (m < n)
    BY Least
  <2>2. n # 0
    BY <1>1, <2>1
  <2>3. n - 1 \in Nat /\ n - 1 < n /\ n = (n - 1) + 1
    BY <2>1, <2>2
  <2>4. \E f : F(n - 1, f)
    BY <2>1, <2>3
  <2>5. \E g : F((n - 1) + 1, g)
    BY <1>2, <2>3, <2>4
  <2> QED
    BY <2>1, <2>3, <2>5
<1>4. \E f : F(Len(log), f)
  BY <1>3
<1> QED
  BY <1>4 DEF Steps

LEMMA ReplaySteps ==
    ASSUME NEW map, NEW log, Len(log) \in Nat
    PROVE  \E after : Steps(map, log, after) /\ Replay(map, log) = after[Len(log)]
<1> DEFINE f == CHOOSE after : Steps(map, log, after)
<1>1. Steps(map, log, f)
  BY StepsExist
<1>2. Replay(map, log) = f[Len(log)]
  BY DEF Replay, Steps
<1> QED
  BY <1>1, <1>2

LEMMA StepsRight ==
    ASSUME NEW map, NEW log, Len(log) \in Nat, NEW after, Steps(map, log, after)
    PROVE  /\ after[0] = map
           /\ \A k \in 1..Len(log) : after[k] = After(after[k-1], log[k])
<1>1. 0 \in 0..Len(log) /\ \A k \in 1..Len(log) : k \in 0..Len(log) /\ k # 0
  OBVIOUS
<1> QED
  BY <1>1 DEF Steps

LEMMA NoSteps == ASSUME NEW map PROVE Replay(map, <<>>) = map
<1>1. Len(<<>>) \in Nat /\ Len(<<>>) = 0
  OBVIOUS
<1>2. PICK after : Steps(map, <<>>, after) /\ Replay(map, <<>>) = after[Len(<<>>)]
  BY <1>1, ReplaySteps
<1>3. after[0] = map
  BY <1>1, <1>2 DEF Steps
<1> QED
  BY <1>1, <1>2, <1>3

LEMMA StepAdded ==
    ASSUME NEW map, NEW log, NEW more, NEW event,
           Len(log) \in Nat, Len(more) = Len(log) + 1, more[Len(log) + 1] = event,
           \A k \in 1..Len(log) : more[k] = log[k]
    PROVE  Replay(map, more) = After(Replay(map, log), event)
<1> DEFINE n == Len(log)
<1>1. /\ n \in Nat /\ Len(more) = n + 1 /\ more[n + 1] = event
      /\ \A k \in 1..n : more[k] = log[k]
  OBVIOUS
<1> HIDE DEF n
<1>2. PICK f : Steps(map, log, f) /\ Replay(map, log) = f[n]
  BY <1>1, ReplaySteps DEF n
<1>3. PICK g : Steps(map, more, g) /\ Replay(map, more) = g[n + 1]
  BY <1>1, ReplaySteps
<1>4. /\ f[0] = map /\ g[0] = map
      /\ \A k \in 1..n : f[k] = After(f[k - 1], log[k]) /\ g[k] = After(g[k - 1], log[k])
      /\ g[n + 1] = After(g[n], event)
  <2>1. /\ f[0] = map
        /\ \A k \in 1..n : f[k] = After(f[k - 1], log[k])
    BY <1>1, <1>2, StepsRight DEF n
  <2>2. /\ g[0] = map
        /\ \A k \in 1..(n + 1) : g[k] = After(g[k - 1], more[k])
    BY <1>1, <1>3, StepsRight
  <2>3. n + 1 \in 1..(n + 1) /\ (n + 1) - 1 = n /\ \A k \in 1..n : k \in 1..(n + 1)
    BY <1>1
  <2> QED
    BY <1>1, <2>1, <2>2, <2>3
<1> DEFINE differ == {k \in 0..n : f[k] # g[k]}
<1>5. differ = {}
  <2> SUFFICES ASSUME differ # {} PROVE FALSE
    OBVIOUS
  <2> differ \in SUBSET Nat
    BY <1>1
  <2>1. PICK k \in differ : \A i \in differ : ~ (i < k)
    <3> HIDE DEF differ
    <3> QED
      BY Least
  <2>2. k \in 1..n /\ k - 1 \in 0..n /\ k - 1 < k
    BY <1>1, <1>4, <2>1
  <2>3. f[k - 1] = g[k - 1]
    BY <2>1, <2>2
  <2> QED
    BY <1>4, <2>1, <2>2, <2>3
<1>6. f[n] = g[n]
  BY <1>1, <1>5
<1> QED
  BY <1>2, <1>3, <1>4, <1>6

LEMMA OneMoreStep ==
    ASSUME NEW map, NEW S, NEW log \in Seq(S), NEW event \in S
    PROVE  Replay(map, Append(log, event)) = After(Replay(map, log), event)
<1> DEFINE more == Append(log, event)
<1>1. /\ Len(log) \in Nat /\ Len(more) = Len(log) + 1 /\ more[Len(log) + 1] = event
      /\ \A k \in 1..Len(log) : more[k] = log[k]
  OBVIOUS
<1> HIDE DEF more
<1>2. Replay(map, more) = After(Replay(map, log), event)
  BY <1>1, StepAdded
<1> QED
  BY <1>2 DEF more

\* Records: something per document.
Mapped(map) == map = [d \in Docs |-> map[d]]

LEMMA AfterRight ==
    ASSUME NEW map, NEW event
    PROVE  /\ Mapped(After(map, event))
           /\ \A d \in Docs :
                 After(map, event)[d] = IF d \in event.docs THEN event.status ELSE map[d]
BY DEF After, Mapped

LEMMA ReplayMapped ==
    ASSUME NEW map, Mapped(map), NEW S, NEW log \in Seq(S)
    PROVE  Mapped(Replay(map, log))
<1>1. Len(log) \in Nat
  OBVIOUS
<1>2. PICK f : Steps(map, log, f) /\ Replay(map, log) = f[Len(log)]
  BY <1>1, ReplaySteps
<1>3. CASE Len(log) = 0
  BY <1>2, <1>3 DEF Steps
<1>4. CASE Len(log) # 0
  <2>1. f[Len(log)] = After(f[Len(log) - 1], log[Len(log)])
    BY <1>1, <1>2, <1>4 DEF Steps
  <2> QED
    BY <1>2, <2>1, AfterRight
<1> QED
  BY <1>3, <1>4

\* Events that are applied a second time change nothing.
LEMMA StepsAgain ==
    ASSUME NEW S, NEW log \in Seq(S), NEW map, Mapped(map)
    PROVE  Replay(Replay(map, log), log) = Replay(map, log)
<1> DEFINE n == Len(log)
           once == Replay(map, log)
<1>1. n \in Nat
  OBVIOUS
<1>2. Mapped(once) /\ Mapped(Replay(once, log))
  BY ReplayMapped
<1>3. PICK f : Steps(map, log, f) /\ once = f[n]
  BY <1>1, ReplaySteps
<1>4. PICK g : Steps(once, log, g) /\ Replay(once, log) = g[n]
  BY <1>1, ReplaySteps
<1> HIDE DEF n, once
<1>5. /\ f[0] = map /\ g[0] = once
      /\ \A k \in 1..n : f[k] = After(f[k - 1], log[k]) /\ g[k] = After(g[k - 1], log[k])
  BY <1>1, <1>3, <1>4, StepsRight DEF n
<1>6. ASSUME NEW d \in Docs
      PROVE  g[n][d] = f[n][d]
  <2> DEFINE Same(k) == g[k][d] = f[k][d] \/ (g[k][d] = once[d] /\ f[k][d] = map[d])
             bad == {k \in 0..n : ~ Same(k)}
  <2>1. Same(0)
    BY <1>5
  <2>2. ASSUME NEW k \in 1..n, Same(k - 1)
        PROVE  Same(k)
    <3>1. /\ f[k] = After(f[k - 1], log[k])
          /\ g[k] = After(g[k - 1], log[k])
      BY <1>5
    <3>2. /\ f[k][d] = IF d \in log[k].docs THEN log[k].status ELSE f[k - 1][d]
          /\ g[k][d] = IF d \in log[k].docs THEN log[k].status ELSE g[k - 1][d]
      BY <3>1, AfterRight
    <3> QED
      BY <2>2, <3>2
  <2>3. bad = {}
    <3> SUFFICES ASSUME bad # {} PROVE FALSE
      OBVIOUS
    <3> bad \in SUBSET Nat
      BY <1>1
    <3>1. PICK k \in bad : \A i \in bad : ~ (i < k)
      <4> HIDE DEF bad
      <4> QED
        BY Least
    <3>2. k \in 1..n /\ k - 1 \in 0..n /\ k - 1 < k
      BY <1>1, <2>1, <3>1
    <3>3. Same(k - 1)
      BY <3>1, <3>2
    <3> QED
      BY <2>2, <3>1, <3>2, <3>3
  <2>4. Same(n)
    BY <1>1, <2>3
  <2> QED
    BY <1>3, <2>4
<1>7. \A d \in Docs : Replay(once, log)[d] = once[d]
  BY <1>3, <1>4, <1>6
<1>8. [d \in Docs |-> Replay(once, log)[d]] = [d \in Docs |-> once[d]]
  BY <1>7
<1> QED
  BY <1>2, <1>8 DEF Mapped, once

-----------------------------------------------------------------------------
(* The documents of a knowledge base: the invariant *)

DocEvents ==
    [docs : SUBSET Docs, status : {Nil, "pending", "processing", "ready", "error"}]
AtWork == {"asked", "start", "embedding", "storing", "failing", "failed"}
DocJobs == [pc : AtWork \cup {"off", "done"}, doc : Docs \cup {Nil}, batch : Nat]
Writing == writer.pc = "changed"

RecordsTyped ==
    /\ Mapped(cache) /\ Mapped(snapshot) /\ events \in Seq(DocEvents)
    /\ "pc" \in DOMAIN writer /\ (Writing => writer.event \in DocEvents)
JobsTyped ==
    /\ job \in [Jobs -> DocJobs]
    /\ \A j \in Jobs : job[j].pc \in AtWork =>
          /\ job[j].doc \in Docs /\ job[j].batch \in 1..Batches
          /\ job[j].pc \in {"asked", "start"} => job[j].batch = 1
IndexTyped == vec \subseteq Docs \X Jobs \X (1..Batches) /\ bm25 \in [Docs -> Nat]
DocumentsTyped ==
    /\ RecordsTyped /\ JobsTyped /\ IndexTyped
    /\ sqlite \in BOOLEAN /\ DOMAIN upload = Docs /\ DOMAIN deleting = Docs
    /\ indexed \subseteq Docs

\* What is on disk gives the records, or those before a change that is not written yet.
LogRight ==
    /\ ~Writing => Replay(snapshot, events) = cache
    /\ Writing => /\ Replay(snapshot, events) = writer.before
                  /\ cache = After(writer.before, writer.event)
    /\ writer.pc = "replaced" => snapshot = cache

\* A document that is listed, or would be if the process died now; and one whose chunks ought
\* to last.
Present(d) == cache[d] # Nil \/ (Writing /\ writer.before[d] # Nil)
Lasts(d) == Present(d) /\ kb \in {"there", "unlisted"} /\ (sqlite \/ d \notin overlapped)

\* Before its upload is through nobody knows of a document, and whose deletion has begun is
\* not listed, unless that deletion is not written yet.
UploadRight(d) ==
    upload[d] \in {"new", "stored"} =>
        /\ ~Present(d) /\ d \notin indexed /\ deleting[d] = "no"
        /\ \A j \in Jobs : job[j].pc \in AtWork => job[j].doc # d
GoneRight(d) ==
    deleting[d] = "popped" =>
        /\ cache[d] = Nil
        /\ Writing /\ writer.by # <<"delete", d>> => writer.before[d] = Nil

\* The chunks of a job are those it has added so far, and nobody took one away.
ChunksRight ==
    \A c \in vec :
        /\ job[c[2]].pc \notin {"off", "asked", "start"}
        /\ job[c[2]].pc = "embedding" => c[3] < job[c[2]].batch
EmbedRight(j) ==
    job[j].pc = "embedding" /\ ~sqlite /\ Lasts(job[j].doc) =>
        \A i \in 1..(job[j].batch - 1) : <<job[j].doc, j, i>> \in vec
AloneRight(j, k) ==
    j # k /\ job[j].pc = "embedding" /\ job[k].pc = "embedding" /\ job[j].doc = job[k].doc =>
        job[j].doc \in overlapped

Complete(d) == (\E g \in Jobs : \A i \in 1..Batches : <<d, g, i>> \in vec) /\ bm25[d] # 0
ServesRight(d) ==
    /\ d \in indexed \/ \E j \in Jobs : job[j].pc = "storing" /\ job[j].doc = d
    /\ Lasts(d)
    => Complete(d)

DocumentsInv ==
    /\ DocumentsTyped /\ LogRight /\ ChunksRight
    /\ \A d \in Docs : UploadRight(d) /\ GoneRight(d) /\ ServesRight(d)
    /\ \A j \in Jobs : EmbedRight(j) /\ \A k \in Jobs : AloneRight(j, k)

-----------------------------------------------------------------------------
(* The records: a log of events behind a snapshot *)

\* A change of the records, and what lists a document that was not listed.
Edits(by, event) ==
    /\ Change(by, event) /\ event \in DocEvents
    /\ \A d \in event.docs : event.status = Nil \/ cache[d] # Nil \/ AddDocument(d)

LEMMA SetsRight ==
    ASSUME NEW by, NEW d \in Docs, NEW status \in {"pending", "processing", "ready", "error"},
           SetsStatus(by, d, status)
    PROVE  \E event : Edits(by, event)
<1>1. Event({d}, status) \in DocEvents /\ Event({d}, status).docs = {d}
  BY DEF Event, DocEvents
<1>2. Edits(by, Event({d}, status))
  BY <1>1 DEF SetsStatus, Edits
<1> QED
  BY <1>2

LEMMA JobSteps ==
    ASSUME DocumentsTyped, NEW j \in Jobs,
           \/ ResetStatus(j) \/ MarkProcessing(j) \/ EmbedBatch(j) \/ StoreLast(j)
           \/ StoreFails(j) \/ MarkReady(j) \/ MarkError(j)
    PROVE  UNCHANGED recordVars \/ \E by, event : Edits(by, event)
<1>1. job[j].pc \in AtWork
  BY DEF AtWork, ResetStatus, MarkProcessing, EmbedBatch, StoreLast, StoreFails, MarkReady,
         MarkError
<1>2. Doc(j) \in Docs /\ job[j].doc = Doc(j)
  BY <1>1 DEF DocumentsTyped, JobsTyped, Doc
<1>3. CASE ResetStatus(j)
  BY <1>2, <1>3, SetsRight DEF ResetStatus, Raises
<1>4. CASE MarkProcessing(j)
  BY <1>2, <1>4, SetsRight DEF MarkProcessing, Raises
<1>5. CASE MarkReady(j)
  BY <1>2, <1>5, SetsRight DEF MarkReady, Raises
<1>6. CASE MarkError(j)
  BY <1>2, <1>6, SetsRight DEF MarkError, Raises
<1>7. CASE EmbedBatch(j) \/ StoreLast(j) \/ StoreFails(j)
  BY <1>7 DEF EmbedBatch, StoreLast, StoreFails, recordVars
<1> QED
  BY <1>3, <1>4, <1>5, <1>6, <1>7

LEMMA RecordSteps ==
    ASSUME DocumentsTyped, [DocumentsNext]_documentVars
    PROVE  \/ UNCHANGED recordVars
           \/ \E by, event : Edits(by, event)
           \/ AppendDocEvents \/ WriteDocsSnapshot \/ EmptyEvents \/ Unlist \/ EmptyKb \/ Reload
<1>1. CASE UNCHANGED documentVars
  BY <1>1 DEF documentVars, recordVars
<1>2. ASSUME NEW d \in Docs, AddDocument(d)
      PROVE  \E by, event : Edits(by, event)
  <2>1. Event({d}, "pending") \in DocEvents /\ Event({d}, "pending").docs = {d}
    BY DEF Event, DocEvents
  <2>2. Edits(<<"upload", d>>, Event({d}, "pending"))
    BY <1>2, <2>1 DEF AddDocument, Edits
  <2> QED
    BY <2>2
<1>3. ASSUME NEW d \in Docs, DeleteDocument(d)
      PROVE  \E by, event : Edits(by, event)
  <2>1. Event({d}, Nil) \in DocEvents /\ Event({d}, Nil).status = Nil
    BY DEF Event, DocEvents
  <2>2. Edits(<<"delete", d>>, Event({d}, Nil))
    BY <1>3, <2>1 DEF DeleteDocument, Edits
  <2> QED
    BY <2>2
<1>4. ASSUME NEW d \in Docs,
             \/ Upload(d) \/ RemoveDocument(d)
             \/ \E j \in Jobs : StartUploaded(d, j) \/ Reprocess(d, j)
      PROVE  UNCHANGED recordVars
  BY <1>4 DEF Upload, RemoveDocument, StartUploaded, Reprocess, recordVars
<1>5. CASE RemoveKb
  BY <1>5 DEF RemoveKb, recordVars
<1>6. CASE \E j \in Jobs : \/ ResetStatus(j) \/ MarkProcessing(j) \/ EmbedBatch(j) \/ StoreLast(j)
                           \/ StoreFails(j) \/ MarkReady(j) \/ MarkError(j)
  BY <1>6, JobSteps
<1> QED
  BY <1>1, <1>2, <1>3, <1>4, <1>5, <1>6 DEF DocumentsNext

\* Writing an event, or a snapshot of the records and then no events, is told by the log.
LEMMA LogStep ==
    ASSUME DocumentsTyped, LogRight, [DocumentsNext]_documentVars
    PROVE  RecordsTyped' /\ LogRight'
<1>1. /\ Mapped(cache) /\ Mapped(snapshot) /\ events \in Seq(DocEvents)
      /\ "pc" \in DOMAIN writer /\ (Writing => writer.event \in DocEvents)
  BY DEF DocumentsTyped, RecordsTyped
<1>2. CASE UNCHANGED recordVars
  BY <1>1, <1>2 DEF recordVars, RecordsTyped, LogRight, Mapped, Writing
<1>3. ASSUME NEW by, NEW event, Edits(by, event)
      PROVE  RecordsTyped' /\ LogRight'
  <2>1. /\ writer.pc = "none" /\ cache' = After(cache, event) /\ event \in DocEvents
        /\ writer' = [pc |-> "changed", by |-> by, before |-> cache, event |-> event]
        /\ snapshot' = snapshot /\ events' = events
    BY <1>3 DEF Edits, Change
  <2>2. Mapped(cache')
    BY <2>1, AfterRight
  <2> QED
    BY <1>1, <2>1, <2>2 DEF RecordsTyped, LogRight, Writing, Mapped
<1>4. CASE AppendDocEvents
  <2>1. /\ Writing /\ events' = Append(events, writer.event)
        /\ cache' = cache /\ snapshot' = snapshot
        /\ "pc" \in DOMAIN writer' /\ writer'.pc \in {"none", "appended"}
    BY <1>1, <1>4 DEF AppendDocEvents, Writing, NoWriter
  <2>2. Replay(snapshot, events') = cache
    BY <1>1, <2>1, OneMoreStep DEF LogRight
  <2>3. events' \in Seq(DocEvents)
    BY <1>1, <2>1
  <2> QED
    BY <1>1, <2>1, <2>2, <2>3 DEF RecordsTyped, LogRight, Writing, Mapped
<1>5. CASE WriteDocsSnapshot
  <2>1. /\ writer.pc = "appended" /\ snapshot' = cache /\ cache' = cache /\ events' = events
        /\ "pc" \in DOMAIN writer' /\ writer'.pc = "replaced"
    BY <1>1, <1>5 DEF WriteDocsSnapshot, DocsMap
  <2>2. Replay(snapshot, events) = cache
    BY <2>1 DEF LogRight, Writing
  <2>3. Replay(cache, events) = cache
    BY <1>1, <2>2, StepsAgain
  <2> QED
    BY <1>1, <2>1, <2>3 DEF RecordsTyped, LogRight, Writing, Mapped
<1>6. CASE EmptyEvents
  <2>1. /\ writer.pc = "replaced" /\ snapshot' = snapshot /\ cache' = cache /\ events' = <<>>
        /\ "pc" \in DOMAIN writer' /\ writer'.pc = "none"
    BY <1>6 DEF EmptyEvents, NoWriter
  <2>2. snapshot = cache /\ Replay(snapshot, <<>>) = snapshot
    BY <2>1, NoSteps DEF LogRight
  <2>3. <<>> \in Seq(DocEvents)
    OBVIOUS
  <2> QED
    BY <1>1, <2>1, <2>2, <2>3 DEF RecordsTyped, LogRight, Writing, Mapped
<1>7. CASE Unlist
  <2>1. /\ writer.pc = "none" /\ snapshot' = snapshot /\ cache' = cache /\ events' = events
        /\ "pc" \in DOMAIN writer' /\ writer'.pc = "config"
    BY <1>7 DEF Unlist, NoWriter
  <2> QED
    BY <1>1, <2>1 DEF RecordsTyped, LogRight, Writing, Mapped
<1>8. CASE EmptyKb
  <2> DEFINE there == {d \in Docs : cache[d] # Nil}
             event == Event(there, Nil)
  <2>1. /\ writer.pc = "config" /\ snapshot' = snapshot /\ events' = events
        /\ cache' = After(cache, event)
        /\ writer' = IF there = {} THEN NoWriter
                     ELSE [pc |-> "changed", by |-> <<"kb", Nil>>, before |-> cache,
                           event |-> event]
    BY <1>8 DEF EmptyKb
  <2>2. event \in DocEvents /\ Mapped(cache')
    BY <2>1, AfterRight DEF Event, DocEvents
  <2>3. CASE there = {}
    <3>1. \A d \in Docs : cache'[d] = cache[d]
      BY <2>1, <2>3, AfterRight DEF Event
    <3>2. cache' = cache
      BY <1>1, <2>2, <3>1 DEF Mapped
    <3>3. "pc" \in DOMAIN writer' /\ writer'.pc = "none"
      BY <2>1, <2>3 DEF NoWriter
    <3> HIDE DEF event, there
    <3> QED
      BY <1>1, <2>1, <3>2, <3>3 DEF RecordsTyped, LogRight, Writing, Mapped
  <2>4. CASE there # {}
    <3> HIDE DEF event, there
    <3> QED
      BY <1>1, <2>1, <2>2, <2>4 DEF RecordsTyped, LogRight, Writing, Mapped
  <2> QED
    BY <2>3, <2>4
<1>9. CASE Reload
  <2>1. /\ cache' = Replay(snapshot, events) /\ snapshot' = snapshot /\ events' = events
        /\ "pc" \in DOMAIN writer' /\ writer'.pc = "none"
    BY <1>9 DEF Reload, NoWriter
  <2>2. Mapped(cache')
    BY <1>1, <2>1, ReplayMapped
  <2> QED
    BY <1>1, <2>1, <2>2 DEF RecordsTyped, LogRight, Writing, Mapped
<1> QED
  BY <1>2, <1>3, <1>4, <1>5, <1>6, <1>7, <1>8, <1>9, RecordSteps

\* A document is listed by its upload only.
LEMMA ListedShrinks ==
    ASSUME DocumentsTyped, LogRight, [DocumentsNext]_documentVars, NEW d \in Docs, Present(d)'
    PROVE  Present(d) \/ AddDocument(d)
<1>1. CASE UNCHANGED recordVars
  BY <1>1 DEF recordVars, Present, Writing
<1>2. ASSUME NEW by, NEW event, Edits(by, event)
      PROVE  Present(d) \/ AddDocument(d)
  <2>1. /\ cache'[d] = IF d \in event.docs THEN event.status ELSE cache[d]
        /\ writer'.before = cache
    BY <1>2, AfterRight DEF Edits, Change
  <2> QED
    BY <1>2, <2>1 DEF Edits, Present, Writing
<1>3. CASE AppendDocEvents
  BY <1>3 DEF AppendDocEvents, Present, Writing, NoWriter, DocumentsTyped, RecordsTyped
<1>4. CASE WriteDocsSnapshot \/ EmptyEvents \/ Unlist
  <2>1. WriteDocsSnapshot => writer'.pc = "replaced" /\ cache' = cache
    BY DEF WriteDocsSnapshot, DocumentsTyped, RecordsTyped
  <2>2. EmptyEvents => writer'.pc = "none" /\ cache' = cache
    BY DEF EmptyEvents, NoWriter
  <2>3. Unlist => writer'.pc = "config" /\ cache' = cache
    BY DEF Unlist, NoWriter
  <2> QED
    BY <1>4, <2>1, <2>2, <2>3 DEF Present, Writing
<1>5. CASE EmptyKb
  <2>1. /\ cache'[d] = IF cache[d] # Nil THEN Nil ELSE cache[d]
        /\ writer'.pc = "changed" => writer'.before = cache
    BY <1>5, AfterRight DEF EmptyKb, Event, NoWriter
  <2> QED
    BY <2>1 DEF Present, Writing
<1>6. CASE Reload
  <2>1. cache' = Replay(snapshot, events) /\ writer'.pc = "none"
    BY <1>6 DEF Reload, NoWriter
  <2> QED
    BY <2>1 DEF Present, Writing, LogRight
<1> QED
  BY <1>1, <1>2, <1>3, <1>4, <1>5, <1>6, RecordSteps

-----------------------------------------------------------------------------
(* The jobs *)

LEMMA JobGoes ==
    ASSUME JobsTyped, NEW j \in Jobs, job[j].pc \in AtWork, NEW pc \in AtWork,
           pc \in {"asked", "start"} => job[j].pc \in {"asked", "start"}, Goto(j, pc)
    PROVE  /\ JobsTyped'
           /\ job'[j].pc = pc /\ job'[j].doc = job[j].doc /\ job'[j].batch = job[j].batch
           /\ \A k \in Jobs : k # j => job'[k] = job[k]
<1>1. job' = [job EXCEPT ![j] = [job[j] EXCEPT !.pc = pc]]
  BY DEF Goto
<1>2. [job[j] EXCEPT !.pc = pc] \in DocJobs
  BY DEF JobsTyped, DocJobs
<1>3. /\ job'[j].pc = pc /\ job'[j].doc = job[j].doc /\ job'[j].batch = job[j].batch
      /\ \A k \in Jobs : k # j => job'[k] = job[k]
      /\ job' \in [Jobs -> DocJobs]
  BY <1>1, <1>2 DEF JobsTyped, DocJobs
<1> QED
  BY <1>3 DEF JobsTyped

LEMMA JobEnds ==
    ASSUME JobsTyped, NEW j \in Jobs, End(j)
    PROVE  /\ JobsTyped'
           /\ job'[j].pc = "done"
           /\ \A k \in Jobs : k # j => job'[k] = job[k]
<1>1. [NoJob EXCEPT !.pc = "done"] \in DocJobs /\ [NoJob EXCEPT !.pc = "done"].pc = "done"
  BY DEF NoJob, DocJobs
<1>2. /\ job'[j].pc = "done" /\ \A k \in Jobs : k # j => job'[k] = job[k]
      /\ job' \in [Jobs -> DocJobs]
  BY <1>1 DEF End, JobsTyped
<1> QED
  BY <1>2 DEF JobsTyped, AtWork

LEMMA JobComes ==
    ASSUME JobsTyped, NEW j \in Jobs, NEW d \in Docs, NEW pc \in {"asked", "start"},
           NewJob(j, d, pc)
    PROVE  /\ JobsTyped' /\ job[j].pc = "off"
           /\ job'[j].pc = pc /\ job'[j].doc = d
           /\ \A k \in Jobs : k # j => job'[k] = job[k]
<1> DEFINE new == [pc |-> pc, doc |-> d, batch |-> 1]
<1>1. new \in DocJobs /\ 1 \in 1..Batches
  BY DocumentsAssumption DEF DocJobs, AtWork
<1>2. job[j].pc = "off" /\ job' = [job EXCEPT ![j] = new]
  BY DEF NewJob
<1>3. /\ job'[j] = new /\ \A k \in Jobs : k # j => job'[k] = job[k]
      /\ job' \in [Jobs -> DocJobs]
  BY <1>1, <1>2 DEF JobsTyped
<1> QED
  BY <1>1, <1>2, <1>3 DEF JobsTyped

\* What a step of a job does beside its chunks: another state, which it enters from where it
\* may.
Early == {"off", "asked", "start"}
Moves(j) ==
    /\ \A k \in Jobs : k # j => job'[k] = job[k]
    /\ job'[j].pc \in Early => job[j].pc \in Early
    /\ job'[j].pc \in AtWork =>
          \/ job[j].pc \in AtWork /\ job'[j].doc = job[j].doc
          \/ upload[job'[j].doc] = "added" \/ cache[job'[j].doc] # Nil
    /\ JobsTyped' /\ indexed \subseteq indexed'
    /\ \A d \in indexed' : d \in indexed \/ (job[j].pc = "storing" /\ job[j].doc = d)

\* It neither adds nor removes any.
Idles(j) ==
    /\ Moves(j) /\ vec' = vec /\ bm25' = bm25
    /\ job'[j].pc # "storing"
    /\ job'[j].pc = "embedding" =>
          /\ job[j].pc = "start" /\ job'[j].batch = 1
          /\ \A k \in Jobs : k # j /\ job[k].pc = "embedding" /\ job[k].doc = job'[j].doc =>
                job'[j].doc \in overlapped'

LEMMA JobIdles ==
    ASSUME DocumentsTyped, NEW j \in Jobs,
           \/ \E d \in Docs : StartUploaded(d, j) \/ Reprocess(d, j)
           \/ ResetStatus(j) \/ MarkProcessing(j) \/ MarkReady(j) \/ MarkError(j)
    PROVE  Idles(j)
<1>0. JobsTyped
  BY DEF DocumentsTyped
<1>1. ASSUME NEW d \in Docs, StartUploaded(d, j)
      PROVE  Idles(j)
  BY <1>0, <1>1, JobComes DEF StartUploaded, Idles, Moves, Early, AtWork, indexVars, historyVars
<1>2. ASSUME NEW d \in Docs, Reprocess(d, j)
      PROVE  Idles(j)
  BY <1>0, <1>2, JobComes DEF Reprocess, Idles, Moves, Early, AtWork, indexVars, historyVars
<1>3. CASE ResetStatus(j)
  <2>1. job[j].pc = "asked" /\ UNCHANGED <<vec, bm25, indexed>>
    BY <1>3 DEF ResetStatus, indexVars, historyVars
  <2>2. Goto(j, "start") \/ End(j)
    BY <1>3 DEF ResetStatus
  <2> QED
    BY <1>0, <2>1, <2>2, JobGoes, JobEnds DEF Idles, Moves, Early, AtWork
<1>4. CASE MarkProcessing(j)
  <2>1. /\ job[j].pc = "start" /\ UNCHANGED <<vec, bm25, indexed>>
        /\ overlapped' = IF Working(Doc(j)) # {j} THEN overlapped \cup {Doc(j)} ELSE overlapped
    BY <1>4 DEF MarkProcessing, indexVars
  <2>2. Goto(j, "embedding") \/ Goto(j, "failing")
    BY <1>4 DEF MarkProcessing
  <2>3. job[j].batch = 1
    BY <1>0, <2>1 DEF JobsTyped, AtWork
  <2>4. ASSUME NEW k \in Jobs, k # j, job[k].pc = "embedding", job[k].doc = job[j].doc
        PROVE  job[j].doc \in overlapped'
    <3>1. k \in Working(Doc(j))
      BY <2>4 DEF Working, Doc
    <3>2. Working(Doc(j)) # {j}
      BY <2>4, <3>1
    <3> QED
      BY <2>1, <3>2 DEF Doc
  <2> QED
    BY <1>0, <2>1, <2>2, <2>3, <2>4, JobGoes DEF Idles, Moves, Early, AtWork
<1>5. CASE MarkReady(j)
  <2>1. job[j].pc = "storing" /\ UNCHANGED <<vec, bm25>>
    BY <1>5 DEF MarkReady, indexVars
  <2>2. \/ End(j) /\ indexed' = indexed \cup {job[j].doc}
        \/ Goto(j, "failing") /\ indexed' = indexed
    BY <1>5 DEF MarkReady, Doc
  <2> QED
    BY <1>0, <2>1, <2>2, JobGoes, JobEnds DEF Idles, Moves, Early, AtWork
<1>6. CASE MarkError(j)
  <2>1. job[j].pc \in {"failing", "failed"} /\ UNCHANGED <<vec, bm25, indexed>>
    BY <1>6 DEF MarkError, indexVars, historyVars
  <2>2. Goto(j, "failed") \/ End(j)
    BY <1>6 DEF MarkError
  <2> QED
    BY <1>0, <2>1, <2>2, JobGoes, JobEnds DEF Idles, Moves, Early, AtWork
<1> QED
  BY <1>1, <1>2, <1>3, <1>4, <1>5, <1>6

\* A document that a job or a finished one knows of, and what no step gives back.
Known(d) == d \in indexed \/ \E j \in Jobs : job[j].pc \in AtWork /\ job[j].doc = d
Later ==
    /\ sqlite' = sqlite /\ overlapped \subseteq overlapped'
    /\ \A d \in Docs : Known(d) /\ Lasts(d)' => Lasts(d)

LEMMA StepIsLater ==
    ASSUME DocumentsInv, [DocumentsNext]_documentVars
    PROVE  Later
<1>1. /\ sqlite' = sqlite /\ overlapped \subseteq overlapped'
      /\ kb' \in {"there", "unlisted"} => kb \in {"there", "unlisted"}
  <2>1. CASE UNCHANGED documentVars
    BY <2>1 DEF documentVars
  <2>2. CASE AppendDocEvents \/ WriteDocsSnapshot \/ EmptyEvents
    BY <2>2 DEF AppendDocEvents, WriteDocsSnapshot, EmptyEvents, historyVars
  <2>3. ASSUME NEW d \in Docs,
               \/ Upload(d) \/ AddDocument(d) \/ DeleteDocument(d) \/ RemoveDocument(d)
               \/ \E j \in Jobs : StartUploaded(d, j) \/ Reprocess(d, j)
        PROVE  sqlite' = sqlite /\ overlapped' = overlapped /\ kb' = kb
    BY <2>3 DEF Upload, AddDocument, DeleteDocument, RemoveDocument, StartUploaded, Reprocess,
                historyVars
  <2>4. CASE Unlist \/ EmptyKb \/ RemoveKb \/ Reload
    BY <2>4 DEF Unlist, EmptyKb, RemoveKb, Reload, historyVars
  <2>5. ASSUME NEW j \in Jobs,
               \/ ResetStatus(j) \/ MarkProcessing(j) \/ EmbedBatch(j) \/ StoreLast(j)
               \/ StoreFails(j) \/ MarkReady(j) \/ MarkError(j)
        PROVE  sqlite' = sqlite /\ overlapped \subseteq overlapped' /\ kb' = kb
    BY <2>5 DEF ResetStatus, MarkProcessing, EmbedBatch, StoreLast, StoreFails, MarkReady,
                MarkError, historyVars
  <2> QED
    BY <2>1, <2>2, <2>3, <2>4, <2>5 DEF DocumentsNext
<1>2. ASSUME NEW d \in Docs, Known(d), Lasts(d)'
      PROVE  Lasts(d)
  <2>1. ~ AddDocument(d)
    BY <1>2 DEF AddDocument, DocumentsInv, UploadRight, Known
  <2>2. Present(d)
    BY <1>2, <2>1, ListedShrinks DEF DocumentsInv, Lasts
  <2> QED
    BY <1>1, <1>2, <2>2 DEF Lasts
<1> QED
  BY <1>1, <1>2 DEF Later

IndexInv ==
    /\ ChunksRight /\ \A d \in Docs : ServesRight(d)
    /\ \A j \in Jobs : EmbedRight(j) /\ \A k \in Jobs : AloneRight(j, k)

LEMMA ChunkType ==
    ASSUME IndexTyped, NEW c \in vec
    PROVE  c[1] \in Docs /\ c[2] \in Jobs /\ c[3] \in 1..Batches /\ c = <<c[1], c[2], c[3]>>
BY DEF IndexTyped

LEMMA IdleRight ==
    ASSUME DocumentsInv, Later, NEW j \in Jobs, Idles(j)
    PROVE  IndexInv'
<1>1. /\ DocumentsTyped /\ ChunksRight /\ \A d \in Docs : ServesRight(d)
      /\ \A k \in Jobs : EmbedRight(k) /\ \A i \in Jobs : AloneRight(k, i)
  BY DEF DocumentsInv
<1>2. /\ vec' = vec /\ bm25' = bm25 /\ sqlite' = sqlite /\ overlapped \subseteq overlapped'
      /\ \A k \in Jobs : k # j => job'[k] = job[k]
  BY DEF Idles, Moves, Later
<1>3. ChunksRight'
  <2> SUFFICES ASSUME NEW c \in vec
               PROVE  /\ job'[c[2]].pc \notin Early
                      /\ job'[c[2]].pc = "embedding" => c[3] < job'[c[2]].batch
    BY <1>2 DEF ChunksRight, Early
  <2>1. /\ c[2] \in Jobs
        /\ job[c[2]].pc \notin Early
        /\ job[c[2]].pc = "embedding" => c[3] < job[c[2]].batch
    BY <1>1, ChunkType DEF ChunksRight, Early, DocumentsTyped
  <2>2. CASE c[2] = j
    BY <2>1, <2>2 DEF Idles, Moves, Early
  <2>3. CASE c[2] # j
    BY <1>2, <2>1, <2>3
  <2> QED
    BY <2>2, <2>3
<1>4. ASSUME NEW k \in Jobs
      PROVE  EmbedRight(k)'
  <2>1. CASE k = j
    BY <2>1 DEF EmbedRight, Idles
  <2>2. CASE k # j
    <3> SUFFICES ASSUME job[k].pc = "embedding", ~sqlite, Lasts(job[k].doc)'
                 PROVE  \A i \in 1..(job[k].batch - 1) : <<job[k].doc, k, i>> \in vec
      BY <1>2, <2>2 DEF EmbedRight
    <3>1. job[k].pc \in AtWork /\ job[k].doc \in Docs
      BY <1>1 DEF AtWork, DocumentsTyped, JobsTyped
    <3>2. Lasts(job[k].doc)
      BY <1>2, <2>2, <3>1 DEF Later, Known, Lasts, Present
    <3> QED
      BY <1>1, <3>2 DEF EmbedRight
  <2> QED
    BY <2>1, <2>2
<1>5. ASSUME NEW k \in Jobs, NEW i \in Jobs
      PROVE  AloneRight(k, i)'
  <2> SUFFICES ASSUME k # i, job'[k].pc = "embedding", job'[i].pc = "embedding",
                      job'[k].doc = job'[i].doc
               PROVE  job'[k].doc \in overlapped'
    BY DEF AloneRight
  <2>1. CASE k = j \/ i = j
    BY <1>2, <2>1 DEF Idles
  <2>2. CASE k # j /\ i # j
    BY <1>1, <1>2, <2>2 DEF AloneRight
  <2> QED
    BY <2>1, <2>2
<1>6. ASSUME NEW d \in Docs
      PROVE  ServesRight(d)'
  <2> SUFFICES ASSUME \/ d \in indexed'
                      \/ \E k \in Jobs : job'[k].pc = "storing" /\ job'[k].doc = d,
                      Lasts(d)'
               PROVE  Complete(d)'
    BY DEF ServesRight
  <2>1. d \in indexed \/ \E k \in Jobs : job[k].pc = "storing" /\ job[k].doc = d
    BY <1>2 DEF Idles, Moves
  <2>2. Known(d)
    BY <2>1 DEF Known, AtWork
  <2>3. Complete(d)
    BY <1>1, <2>1, <2>2 DEF Later, ServesRight
  <2> QED
    BY <1>2, <2>3 DEF Complete
<1> QED
  BY <1>3, <1>4, <1>5, <1>6 DEF IndexInv

\* What a step does that is no job's: at most it removes what need not last.
LEMMA QuietRight ==
    ASSUME DocumentsInv, Later, job' = job, indexed' = indexed, vec' \subseteq vec,
           \A d \in Docs : Lasts(d)' =>
               (\A c \in vec : c[1] = d => c \in vec') /\ bm25'[d] = bm25[d]
    PROVE  IndexInv'
<1>1. /\ DocumentsTyped /\ ChunksRight /\ \A d \in Docs : ServesRight(d)
      /\ \A k \in Jobs : EmbedRight(k) /\ \A i \in Jobs : AloneRight(k, i)
  BY DEF DocumentsInv
<1>2. ChunksRight'
  BY <1>1 DEF ChunksRight
<1>3. ASSUME NEW k \in Jobs
      PROVE  EmbedRight(k)'
  <2> SUFFICES ASSUME job[k].pc = "embedding", ~sqlite, Lasts(job[k].doc)',
                      NEW i \in 1..(job[k].batch - 1)
               PROVE  <<job[k].doc, k, i>> \in vec'
    BY DEF EmbedRight, Later
  <2>1. job[k].pc \in AtWork /\ job[k].doc \in Docs
    BY <1>1 DEF AtWork, DocumentsTyped, JobsTyped
  <2>2. Lasts(job[k].doc)
    BY <2>1 DEF Later, Known
  <2>3. <<job[k].doc, k, i>> \in vec
    BY <1>1, <2>2 DEF EmbedRight
  <2> QED
    BY <2>1, <2>3
<1>4. ASSUME NEW k \in Jobs, NEW i \in Jobs
      PROVE  AloneRight(k, i)'
  BY <1>1 DEF AloneRight, Later
<1>5. ASSUME NEW d \in Docs
      PROVE  ServesRight(d)'
  <2> SUFFICES ASSUME \/ d \in indexed
                      \/ \E k \in Jobs : job[k].pc = "storing" /\ job[k].doc = d,
                      Lasts(d)'
               PROVE  Complete(d)'
    BY DEF ServesRight
  <2>1. Known(d)
    BY DEF Known, AtWork
  <2>2. Complete(d)
    BY <1>1, <2>1 DEF Later, ServesRight
  <2>3. PICK g \in Jobs : \A i \in 1..Batches : <<d, g, i>> \in vec
    BY <2>2 DEF Complete
  <2>4. \A i \in 1..Batches : <<d, g, i>> \in vec'
    BY <2>3
  <2>5. bm25'[d] # 0
    BY <2>2 DEF Complete
  <2> QED
    BY <2>4, <2>5 DEF Complete
<1> QED
  BY <1>2, <1>3, <1>4, <1>5 DEF IndexInv

\* The steps of a job that change its chunks.
Puts(j) ==
    /\ job[j].pc = "embedding" /\ JobsTyped'
    /\ job'[j].doc = job[j].doc /\ \A k \in Jobs : k # j => job'[k] = job[k]
    /\ indexed' = indexed /\ overlapped' = overlapped /\ sqlite' = sqlite

LEMMA PutsAlone ==
    ASSUME DocumentsInv, NEW j \in Jobs, Puts(j)
    PROVE  \A k, i \in Jobs : AloneRight(k, i)'
<1> SUFFICES ASSUME NEW k \in Jobs, NEW i \in Jobs,
                    k # i, job'[k].pc = "embedding", job'[i].pc = "embedding",
                    job'[k].doc = job'[i].doc
             PROVE  job'[k].doc \in overlapped'
  BY DEF AloneRight
<1>1. /\ job[k].pc = "embedding" /\ job[k].doc = job'[k].doc
      /\ job[i].pc = "embedding" /\ job[i].doc = job'[i].doc
  BY DEF Puts
<1> QED
  BY <1>1 DEF DocumentsInv, AloneRight, Puts

LEMMA EmbedBatchRight ==
    ASSUME DocumentsInv, Later, NEW j \in Jobs, EmbedBatch(j)
    PROVE  IndexInv' /\ IndexTyped' /\ Puts(j)
<1> DEFINE d == job[j].doc
           b == job[j].batch
           chunk == <<d, j, b>>
<1>1. /\ DocumentsTyped /\ JobsTyped /\ IndexTyped /\ ChunksRight
      /\ \A k \in Jobs : EmbedRight(k) /\ \A x \in Docs : ServesRight(x)
  BY DEF DocumentsInv, DocumentsTyped
<1>2. /\ job[j].pc = "embedding" /\ b < Batches
      /\ job' = [job EXCEPT ![j].batch = b + 1]
      /\ vec' = IF sqlite THEN vec ELSE vec \cup {chunk}
      /\ UNCHANGED <<sqlite, bm25, indexed, overlapped>>
  BY DEF EmbedBatch, Chunk, Doc, historyVars
<1>3. d \in Docs /\ b \in 1..Batches /\ b \in Nat /\ Batches \in Nat /\ b + 1 \in 1..Batches
  BY <1>1, <1>2, DocumentsAssumption DEF JobsTyped, AtWork
<1>4. /\ job'[j].pc = "embedding" /\ job'[j].doc = d /\ job'[j].batch = b + 1
      /\ \A k \in Jobs : k # j => job'[k] = job[k]
      /\ job' \in [Jobs -> DocJobs]
  <2>1. [job[j] EXCEPT !.batch = b + 1] \in DocJobs
    BY <1>1, <1>3 DEF JobsTyped, DocJobs
  <2> QED
    BY <1>1, <1>2, <2>1 DEF JobsTyped, DocJobs
<1>5. JobsTyped'
  BY <1>1, <1>3, <1>4 DEF JobsTyped
<1>6. Puts(j)
  BY <1>2, <1>4, <1>5 DEF Puts
<1>7. IndexTyped'
  BY <1>1, <1>2, <1>3 DEF IndexTyped
<1> HIDE DEF b, d
<1>8. ChunksRight'
  <2> SUFFICES ASSUME NEW c \in vec'
               PROVE  /\ job'[c[2]].pc \notin {"off", "asked", "start"}
                      /\ job'[c[2]].pc = "embedding" => c[3] < job'[c[2]].batch
    BY DEF ChunksRight
  <2>1. CASE c = chunk
    BY <1>3, <1>4, <2>1
  <2>2. CASE c # chunk
    <3>1. c \in vec
      BY <1>2, <2>2
    <3>2. /\ c[2] \in Jobs /\ c[3] \in Nat
          /\ job[c[2]].pc \notin {"off", "asked", "start"}
          /\ job[c[2]].pc = "embedding" => c[3] < job[c[2]].batch
      BY <1>1, <1>3, <3>1, ChunkType DEF ChunksRight
    <3>3. CASE c[2] = j
      BY <1>2, <1>3, <1>4, <3>2, <3>3 DEF b
    <3>4. CASE c[2] # j
      BY <1>4, <3>2, <3>4
    <3> QED
      BY <3>3, <3>4
  <2> QED
    BY <2>1, <2>2
<1>9. ASSUME NEW k \in Jobs
      PROVE  EmbedRight(k)'
  <2> SUFFICES ASSUME NEW x, x = job'[k].doc, job'[k].pc = "embedding", ~sqlite, Lasts(x)',
                      NEW i \in 1..(job'[k].batch - 1)
               PROVE  <<x, k, i>> \in vec'
    BY <1>2 DEF EmbedRight, Lasts, Present
  <2>1. x = job[k].doc /\ job[k].pc = "embedding"
    BY <1>2, <1>4 DEF d
  <2>2. x \in Docs /\ Known(x)
    BY <1>1, <2>1 DEF Known, AtWork, JobsTyped
  <2>3. \A n \in 1..(job[k].batch - 1) : <<x, k, n>> \in vec
    BY <1>1, <2>1, <2>2 DEF Later, EmbedRight
  <2>4. CASE k = j
    <3>1. i \in 1..(b - 1) \/ i = b
      BY <1>3, <1>4, <2>4
    <3> QED
      BY <1>2, <2>1, <2>3, <2>4, <3>1 DEF b, d
  <2>5. CASE k # j
    BY <1>2, <1>4, <2>3, <2>5
  <2> QED
    BY <2>4, <2>5
<1>10. ASSUME NEW x \in Docs
       PROVE  ServesRight(x)'
  <2> SUFFICES ASSUME \/ x \in indexed'
                      \/ \E k \in Jobs : job'[k].pc = "storing" /\ job'[k].doc = x,
                      Lasts(x)'
               PROVE  Complete(x)'
    BY DEF ServesRight
  <2>1. x \in indexed \/ \E k \in Jobs : job[k].pc = "storing" /\ job[k].doc = x
    BY <1>2, <1>4
  <2>2. Known(x)
    BY <2>1 DEF Known, AtWork
  <2>3. Complete(x)
    BY <1>1, <2>1, <2>2 DEF Later, ServesRight
  <2> QED
    BY <1>2, <2>3 DEF Complete
<1> QED
  BY <1>6, <1>7, <1>8, <1>9, <1>10, PutsAlone DEF IndexInv

LEMMA StoreFailsRight ==
    ASSUME DocumentsInv, Later, NEW j \in Jobs, StoreFails(j)
    PROVE  IndexInv' /\ IndexTyped' /\ Puts(j)
<1>1. /\ DocumentsTyped /\ JobsTyped /\ IndexTyped /\ ChunksRight
      /\ \A k \in Jobs : EmbedRight(k) /\ \A x \in Docs : ServesRight(x)
  BY DEF DocumentsInv, DocumentsTyped
<1>2. /\ job[j].pc = "embedding" /\ Goto(j, "failing")
      /\ vec' = vec \ Embedded(j)
      /\ UNCHANGED <<sqlite, bm25, indexed, overlapped>>
  BY DEF StoreFails, RolledBack, historyVars
<1>3. /\ JobsTyped' /\ job'[j].pc = "failing" /\ job'[j].doc = job[j].doc
      /\ \A k \in Jobs : k # j => job'[k] = job[k]
  BY <1>1, <1>2, JobGoes DEF AtWork
<1>4. Puts(j)
  BY <1>2, <1>3 DEF Puts
<1>5. IndexTyped' /\ \A c \in vec : c[2] # j => c \in vec'
  BY <1>1, <1>2 DEF IndexTyped, Embedded, Chunk
<1>6. ChunksRight'
  BY <1>1, <1>2, <1>3, ChunkType DEF ChunksRight
<1>7. ASSUME NEW k \in Jobs
      PROVE  EmbedRight(k)'
  <2> SUFFICES ASSUME NEW x, x = job'[k].doc, job'[k].pc = "embedding", ~sqlite, Lasts(x)',
                      NEW i \in 1..(job'[k].batch - 1)
               PROVE  <<x, k, i>> \in vec'
    BY <1>2 DEF EmbedRight, Lasts, Present
  <2>1. k # j /\ job'[k] = job[k]
    BY <1>3
  <2>2. x \in Docs /\ Known(x)
    BY <1>1, <2>1 DEF Known, AtWork, JobsTyped
  <2>3. <<x, k, i>> \in vec
    BY <1>1, <2>1, <2>2 DEF Later, EmbedRight
  <2> QED
    BY <1>5, <2>1, <2>3
<1>8. ASSUME NEW x \in Docs
      PROVE  ServesRight(x)'
  <2> SUFFICES ASSUME \/ x \in indexed'
                      \/ \E k \in Jobs : job'[k].pc = "storing" /\ job'[k].doc = x,
                      Lasts(x)'
               PROVE  Complete(x)'
    BY DEF ServesRight
  <2>1. x \in indexed \/ \E k \in Jobs : job[k].pc = "storing" /\ job[k].doc = x
    BY <1>2, <1>3
  <2>2. Known(x)
    BY <2>1 DEF Known, AtWork
  <2>3. Complete(x)
    BY <1>1, <2>1, <2>2 DEF Later, ServesRight
  <2>4. PICK g \in Jobs : \A i \in 1..Batches : <<x, g, i>> \in vec
    BY <2>3 DEF Complete
  <2>5. g # j
    <3>1. Batches \in 1..Batches /\ job[j].batch \in 1..Batches
      BY <1>1, <1>2, DocumentsAssumption DEF JobsTyped, AtWork
    <3>2. <<x, g, Batches>> \in vec
      BY <2>4, <3>1
    <3>3. job[g].pc = "embedding" => Batches < job[g].batch
      BY <1>1, <3>2 DEF ChunksRight
    <3> QED
      BY <1>2, <3>1, <3>3
  <2>6. \A i \in 1..Batches : <<x, g, i>> \in vec'
    BY <1>5, <2>4, <2>5
  <2> QED
    BY <1>2, <2>3, <2>6 DEF Complete
<1> QED
  BY <1>4, <1>5, <1>6, <1>7, <1>8, PutsAlone DEF IndexInv

LEMMA StoreLastRight ==
    ASSUME DocumentsInv, Later, NEW j \in Jobs, StoreLast(j)
    PROVE  IndexInv' /\ IndexTyped' /\ Puts(j)
<1> DEFINE d == job[j].doc
<1>1. /\ DocumentsTyped /\ JobsTyped /\ IndexTyped /\ ChunksRight
      /\ \A k \in Jobs : EmbedRight(k) /\ \A x \in Docs : ServesRight(x)
      /\ \A k, i \in Jobs : AloneRight(k, i)
  BY DEF DocumentsInv, DocumentsTyped
<1>2. /\ job[j].pc = "embedding" /\ job[j].batch = Batches /\ bm25' = [bm25 EXCEPT ![d] = j]
      /\ \/ vec' = OfOthers(j) \cup Generation(j)
         \/ vec' = vec \cup Generation(j)
      /\ Goto(j, "storing") \/ Goto(j, "failing")
      /\ UNCHANGED <<sqlite, indexed, overlapped>>
  BY DEF StoreLast, Doc, historyVars
<1>3. d \in Docs /\ Batches \in Nat /\ Batches \in 1..Batches /\ j \in Nat /\ j # 0
  BY <1>1, <1>2, DocumentsAssumption DEF JobsTyped, AtWork, Jobs
<1>4. /\ JobsTyped' /\ job'[j].pc \in {"storing", "failing"} /\ job'[j].doc = d
      /\ \A k \in Jobs : k # j => job'[k] = job[k]
  BY <1>1, <1>2, JobGoes DEF AtWork
<1>5. Puts(j)
  BY <1>2, <1>4 DEF Puts
<1>6. /\ Embedded(j) = {<<d, j, i>> : i \in 1..Batches}
      /\ Generation(j) = {<<d, j, Batches>>} \cup IF sqlite THEN Embedded(j) ELSE vec \cap Embedded(j)
      /\ OfOthers(j) = {c \in vec : c[1] # d}
  BY <1>2 DEF Embedded, Generation, OfOthers, Chunk, Doc
<1> HIDE DEF d
<1>7. /\ \A c \in vec' : c \in vec \/ \E i \in 1..Batches : c = <<d, j, i>>
      /\ \A c \in vec : c[1] # d => c \in vec'
      /\ Generation(j) \subseteq vec'
  BY <1>2, <1>3, <1>6
<1>8. IndexTyped'
  <2>1. bm25' \in [Docs -> Nat]
    BY <1>1, <1>2, <1>3 DEF IndexTyped
  <2>2. vec' \subseteq Docs \X Jobs \X (1..Batches)
    BY <1>1, <1>3, <1>7 DEF IndexTyped
  <2> QED
    BY <2>1, <2>2 DEF IndexTyped
<1>9. bm25'[d] = j /\ \A x \in Docs : x # d => bm25'[x] = bm25[x]
  BY <1>1, <1>2, <1>3 DEF IndexTyped
<1>10. ChunksRight'
  <2> SUFFICES ASSUME NEW c \in vec'
               PROVE  /\ job'[c[2]].pc \notin {"off", "asked", "start"}
                      /\ job'[c[2]].pc = "embedding" => c[3] < job'[c[2]].batch
    BY DEF ChunksRight
  <2>1. CASE c[2] = j
    BY <1>4, <2>1
  <2>2. CASE c[2] # j
    <3>1. c \in vec
      BY <1>7, <2>2
    <3>2. c[2] \in Jobs
      BY <1>1, <3>1, ChunkType
    <3> QED
      BY <1>1, <1>4, <2>2, <3>1, <3>2 DEF ChunksRight
  <2> QED
    BY <2>1, <2>2
<1>11. ASSUME NEW k \in Jobs
       PROVE  EmbedRight(k)'
  <2> SUFFICES ASSUME NEW x, x = job'[k].doc, job'[k].pc = "embedding", ~sqlite, Lasts(x)',
                      NEW i \in 1..(job'[k].batch - 1)
               PROVE  <<x, k, i>> \in vec'
    BY <1>2 DEF EmbedRight, Lasts, Present
  <2>1. k # j /\ job'[k] = job[k]
    BY <1>4
  <2>2. x \in Docs /\ Known(x)
    BY <1>1, <2>1 DEF Known, AtWork, JobsTyped
  <2>3. Lasts(x)
    BY <2>2 DEF Later
  <2>4. <<x, k, i>> \in vec
    BY <1>1, <2>1, <2>3 DEF EmbedRight
  <2>5. x # d
    BY <1>1, <1>2, <2>1, <2>3 DEF AloneRight, Lasts, d
  <2> QED
    BY <1>7, <2>4, <2>5
<1>12. ASSUME NEW x \in Docs, x = d, Lasts(x)'
       PROVE  Complete(x)'
  <2>1. Known(x)
    BY <1>2, <1>12 DEF Known, AtWork, d
  <2>2. Lasts(x)
    BY <1>12, <2>1 DEF Later
  <2>3. ASSUME NEW i \in 1..Batches
        PROVE  <<x, j, i>> \in Generation(j)
    <3>1. CASE sqlite \/ i = Batches
      BY <1>6, <1>12, <3>1
    <3>2. CASE ~sqlite /\ i # Batches
      <4>1. i \in 1..(job[j].batch - 1)
        BY <1>2, <1>3, <3>2
      <4>2. <<x, j, i>> \in vec
        BY <1>1, <1>2, <1>12, <2>2, <3>2, <4>1 DEF EmbedRight, d
      <4> QED
        BY <1>6, <1>12, <3>2, <4>2
    <3> QED
      BY <3>1, <3>2
  <2>4. \A i \in 1..Batches : <<x, j, i>> \in vec'
    BY <1>7, <2>3
  <2>5. (\E g \in Jobs : \A i \in 1..Batches : <<x, g, i>> \in vec') /\ bm25'[x] # 0
    BY <1>3, <1>9, <1>12, <2>4
  <2> QED
    BY <2>5 DEF Complete
<1>13. ASSUME NEW x \in Docs
       PROVE  ServesRight(x)'
  <2> SUFFICES ASSUME \/ x \in indexed'
                      \/ \E k \in Jobs : job'[k].pc = "storing" /\ job'[k].doc = x,
                      Lasts(x)'
               PROVE  Complete(x)'
    BY DEF ServesRight
  <2>1. CASE x = d
    BY <1>12, <2>1
  <2>2. CASE x # d
    <3>1. x \in indexed \/ \E k \in Jobs : job[k].pc = "storing" /\ job[k].doc = x
      BY <1>2, <1>4, <2>2
    <3>2. Known(x)
      BY <3>1 DEF Known, AtWork
    <3>3. Complete(x)
      BY <1>1, <3>1, <3>2 DEF Later, ServesRight
    <3>4. PICK g \in Jobs : \A i \in 1..Batches : <<x, g, i>> \in vec
      BY <3>3 DEF Complete
    <3>5. \A i \in 1..Batches : <<x, g, i>> \in vec'
      BY <1>7, <2>2, <3>4
    <3> QED
      BY <1>9, <2>2, <3>3, <3>5 DEF Complete
  <2> QED
    BY <2>1, <2>2
<1> QED
  BY <1>5, <1>8, <1>10, <1>11, <1>13, PutsAlone DEF IndexInv

LEMMA ReloadRight ==
    ASSUME DocumentsInv, Later, Reload
    PROVE  IndexInv' /\ JobsTyped'
<1>1. /\ DocumentsTyped /\ JobsTyped /\ IndexTyped /\ ChunksRight
      /\ \A x \in Docs : ServesRight(x)
  BY DEF DocumentsInv, DocumentsTyped
<1>2. /\ UNCHANGED <<vec, bm25, indexed>>
      /\ job' = [j \in Jobs |-> IF job[j].pc = "off" THEN job[j] ELSE [NoJob EXCEPT !.pc = "done"]]
  BY DEF Reload, indexVars, historyVars
<1>3. [NoJob EXCEPT !.pc = "done"] \in DocJobs /\ [NoJob EXCEPT !.pc = "done"].pc = "done"
  BY DEF NoJob, DocJobs
<1>4. /\ job' \in [Jobs -> DocJobs]
      /\ \A j \in Jobs : job'[j].pc = IF job[j].pc = "off" THEN "off" ELSE "done"
  BY <1>1, <1>2, <1>3 DEF JobsTyped
<1>5. JobsTyped'
  BY <1>4 DEF JobsTyped, AtWork
<1>6. ChunksRight'
  BY <1>1, <1>2, <1>4, ChunkType DEF ChunksRight
<1>7. \A j \in Jobs : EmbedRight(j)' /\ \A k \in Jobs : AloneRight(j, k)'
  BY <1>4 DEF EmbedRight, AloneRight
<1>8. ASSUME NEW x \in Docs
      PROVE  ServesRight(x)'
  <2> SUFFICES ASSUME Lasts(x)', x \in indexed
               PROVE  Complete(x)'
    BY <1>2, <1>4 DEF ServesRight
  <2>1. Complete(x)
    BY <1>1 DEF Later, Known, ServesRight
  <2> QED
    BY <1>2, <2>1 DEF Complete
<1> QED
  BY <1>5, <1>6, <1>7, <1>8 DEF IndexInv

\* The steps that are no job's.
LEMMA QuietSteps ==
    ASSUME DocumentsInv, Later,
           \/ UNCHANGED documentVars \/ AppendDocEvents \/ WriteDocsSnapshot \/ EmptyEvents
           \/ \E d \in Docs : Upload(d) \/ AddDocument(d) \/ DeleteDocument(d) \/ RemoveDocument(d)
           \/ Unlist \/ EmptyKb \/ RemoveKb
    PROVE  IndexInv' /\ JobsTyped' /\ IndexTyped' /\ indexed' = indexed
<1>1. DocumentsTyped /\ JobsTyped /\ IndexTyped
  BY DEF DocumentsInv, DocumentsTyped
<1>2. job' = job /\ indexed' = indexed
  BY DEF documentVars, historyVars, AppendDocEvents, WriteDocsSnapshot, EmptyEvents, Upload,
         AddDocument, DeleteDocument, RemoveDocument, Unlist, EmptyKb, RemoveKb
<1>3. CASE UNCHANGED <<vec, bm25>>
  BY <1>1, <1>2, <1>3, QuietRight DEF JobsTyped, IndexTyped
<1>4. ASSUME NEW docs \in SUBSET Docs, Purged(docs), \A d \in docs : ~ Lasts(d)'
      PROVE  IndexInv' /\ JobsTyped' /\ IndexTyped' /\ indexed' = indexed
  <2>1. /\ vec' = {c \in vec : c[1] \notin docs}
        /\ bm25' = [d \in Docs |-> IF d \in docs THEN 0 ELSE bm25[d]]
    BY <1>4 DEF Purged
  <2>2. IndexTyped' /\ vec' \subseteq vec
    BY <1>1, <2>1 DEF IndexTyped
  <2>3. ASSUME NEW d \in Docs, Lasts(d)'
        PROVE  (\A c \in vec : c[1] = d => c \in vec') /\ bm25'[d] = bm25[d]
    BY <1>4, <2>1, <2>3
  <2>4. JobsTyped'
    BY <1>1, <1>2 DEF JobsTyped
  <2> QED
    BY <1>2, <2>2, <2>3, <2>4, QuietRight
<1>5. ASSUME NEW d \in Docs, RemoveDocument(d)
      PROVE  IndexInv' /\ JobsTyped' /\ IndexTyped' /\ indexed' = indexed
  <2>1. /\ deleting[d] = "popped" /\ writer.by # <<"delete", d>> /\ Purged({d})
        /\ UNCHANGED <<cache, writer>>
    BY <1>5 DEF RemoveDocument, Free, recordVars
  <2>2. ~ Present(d)
    BY <2>1 DEF DocumentsInv, GoneRight, Present
  <2>3. ~ Lasts(d)'
    BY <2>1, <2>2 DEF Lasts, Present, Writing
  <2> QED
    BY <1>4, <2>1, <2>3
<1>6. CASE RemoveKb
  <2>1. Purged(Docs) /\ \A d \in Docs : ~ Lasts(d)'
    BY <1>6 DEF RemoveKb, Lasts
  <2> QED
    BY <1>4, <2>1
<1>7. CASE \/ UNCHANGED documentVars \/ AppendDocEvents \/ WriteDocsSnapshot \/ EmptyEvents
           \/ \E d \in Docs : Upload(d) \/ AddDocument(d) \/ DeleteDocument(d)
           \/ Unlist \/ EmptyKb
  BY <1>3, <1>7 DEF documentVars, indexVars, AppendDocEvents, WriteDocsSnapshot, EmptyEvents,
                    Upload, AddDocument, DeleteDocument, Unlist, EmptyKb
<1> QED
  BY <1>5, <1>6, <1>7

LEMMA IndexStep ==
    ASSUME DocumentsInv, [DocumentsNext]_documentVars
    PROVE  /\ IndexInv' /\ JobsTyped' /\ IndexTyped'
           /\ \A d \in indexed' :
                 d \in indexed \/ \E j \in Jobs : job[j].pc \in AtWork /\ job[j].doc = d
           /\ \A k \in Jobs : job'[k].pc \in AtWork =>
                 \/ job[k].pc \in AtWork /\ job'[k].doc = job[k].doc
                 \/ upload[job'[k].doc] = "added" \/ cache[job'[k].doc] # Nil
<1> DEFINE Goal ==
        /\ IndexInv' /\ JobsTyped' /\ IndexTyped'
        /\ \A d \in indexed' :
              d \in indexed \/ \E j \in Jobs : job[j].pc \in AtWork /\ job[j].doc = d
        /\ \A k \in Jobs : job'[k].pc \in AtWork =>
              \/ job[k].pc \in AtWork /\ job'[k].doc = job[k].doc
              \/ upload[job'[k].doc] = "added" \/ cache[job'[k].doc] # Nil
<1>1. Later /\ DocumentsTyped /\ IndexTyped
  BY StepIsLater DEF DocumentsInv, DocumentsTyped
<1>2. CASE \/ UNCHANGED documentVars \/ AppendDocEvents \/ WriteDocsSnapshot \/ EmptyEvents
           \/ \E d \in Docs : Upload(d) \/ AddDocument(d) \/ DeleteDocument(d) \/ RemoveDocument(d)
           \/ Unlist \/ EmptyKb \/ RemoveKb
  <2>1. job' = job
    BY <1>2 DEF documentVars, AppendDocEvents, WriteDocsSnapshot, EmptyEvents, Upload,
                AddDocument, DeleteDocument, RemoveDocument, Unlist, EmptyKb, RemoveKb
  <2> QED
    BY <1>1, <1>2, <2>1, QuietSteps
<1>3. ASSUME NEW j \in Jobs,
             \/ \E d \in Docs : StartUploaded(d, j) \/ Reprocess(d, j)
             \/ ResetStatus(j) \/ MarkProcessing(j) \/ MarkReady(j) \/ MarkError(j)
      PROVE  Goal
  <2>1. Idles(j)
    BY <1>1, <1>3, JobIdles
  <2>2. IndexInv'
    BY <1>1, <2>1, IdleRight
  <2>3. /\ JobsTyped' /\ vec' = vec /\ bm25' = bm25
        /\ \A k \in Jobs : k # j => job'[k] = job[k]
        /\ job'[j].pc \in AtWork =>
              \/ job[j].pc \in AtWork /\ job'[j].doc = job[j].doc
              \/ upload[job'[j].doc] = "added" \/ cache[job'[j].doc] # Nil
        /\ \A d \in indexed' : d \in indexed \/ (job[j].pc = "storing" /\ job[j].doc = d)
    BY <2>1 DEF Idles, Moves
  <2> QED
    BY <1>1, <2>2, <2>3 DEF IndexTyped, AtWork
<1>4. ASSUME NEW j \in Jobs, EmbedBatch(j) \/ StoreLast(j) \/ StoreFails(j)
      PROVE  Goal
  <2>1. IndexInv' /\ IndexTyped' /\ Puts(j)
    BY <1>1, <1>4, EmbedBatchRight, StoreLastRight, StoreFailsRight
  <2> QED
    BY <2>1 DEF Puts, AtWork
<1>5. CASE Reload
  <2>1. IndexInv' /\ JobsTyped'
    BY <1>1, <1>5, ReloadRight
  <2>2. /\ UNCHANGED <<vec, bm25, indexed>>
        /\ job' = [j \in Jobs |-> IF job[j].pc = "off" THEN job[j] ELSE [NoJob EXCEPT !.pc = "done"]]
    BY <1>5 DEF Reload, indexVars, historyVars
  <2>3. \A j \in Jobs : job'[j].pc \in {"off", "done"}
    BY <2>2 DEF NoJob
  <2> QED
    BY <1>1, <2>1, <2>2, <2>3 DEF IndexTyped, AtWork
<1> HIDE DEF Goal
<1>6. Goal
  BY <1>2, <1>3, <1>4, <1>5 DEF DocumentsNext, Goal
<1> QED
  BY <1>6 DEF Goal

-----------------------------------------------------------------------------
(* Uploads and deletions *)

LEMMA UploadSteps ==
    ASSUME DocumentsTyped, [DocumentsNext]_documentVars
    PROVE  /\ DOMAIN upload' = Docs /\ DOMAIN deleting' = Docs /\ sqlite' = sqlite
           /\ \A d \in Docs :
                 /\ upload'[d] \in {"new", "stored"} =>
                       upload[d] \in {"new", "stored"} /\ ~ AddDocument(d)
                 /\ deleting'[d] = "popped" /\ deleting[d] # "popped" => DeleteDocument(d)
                 /\ deleting'[d] # "no" /\ deleting[d] = "no" => DeleteDocument(d)
<1>1. DOMAIN upload = Docs /\ DOMAIN deleting = Docs
  BY DEF DocumentsTyped
<1>2. ASSUME UNCHANGED <<sqlite, upload, deleting>>
      PROVE  \A d \in Docs : ~ AddDocument(d) \/ upload'[d] \notin {"new", "stored"}
  BY <1>1, <1>2 DEF AddDocument
<1>3. CASE UNCHANGED <<sqlite, upload, deleting>>
  BY <1>1, <1>2, <1>3
<1>4. ASSUME NEW d \in Docs, Upload(d) \/ AddDocument(d) \/ \E j \in Jobs : StartUploaded(d, j)
      PROVE  /\ upload[d] = "new" => upload' = [upload EXCEPT ![d] = "stored"]
             /\ upload[d] # "new" => \E x \in {"added", "done"} : upload' = [upload EXCEPT ![d] = x]
             /\ UNCHANGED <<sqlite, deleting>>
  BY <1>4 DEF Upload, AddDocument, StartUploaded
<1>5. ASSUME NEW d \in Docs, Upload(d) \/ AddDocument(d) \/ \E j \in Jobs : StartUploaded(d, j)
      PROVE  \A x \in Docs : upload'[x] \in {"new", "stored"} =>
                upload[x] \in {"new", "stored"} /\ ~ AddDocument(x)
  <2> SUFFICES ASSUME NEW x \in Docs, upload'[x] \in {"new", "stored"}
               PROVE  upload[x] \in {"new", "stored"} /\ ~ AddDocument(x)
    OBVIOUS
  <2>1. upload[x] \in {"new", "stored"}
    BY <1>1, <1>4, <1>5
  <2>2. AddDocument(x) => upload' = [upload EXCEPT ![x] = "added"]
    BY DEF AddDocument
  <2> QED
    BY <1>1, <2>1, <2>2
<1>6. ASSUME NEW d \in Docs, DeleteDocument(d)
      PROVE  /\ deleting' = [deleting EXCEPT ![d] = "popped"] /\ UNCHANGED <<sqlite, upload>>
  BY <1>6 DEF DeleteDocument
<1>7. ASSUME NEW d \in Docs, RemoveDocument(d)
      PROVE  /\ deleting[d] = "popped" /\ deleting' = [deleting EXCEPT ![d] = "done"]
             /\ UNCHANGED <<sqlite, upload>>
  BY <1>7 DEF RemoveDocument
<1>8. CASE Reload
  <2>1. /\ upload' = [d \in Docs |-> IF upload[d] = "new" THEN "new" ELSE "done"]
        /\ deleting' = [d \in Docs |-> "no"] /\ sqlite' = sqlite
    BY <1>8 DEF Reload
  <2>2. \A d \in Docs : upload'[d] \in {"new", "stored"} => ~ AddDocument(d)
    BY <2>1 DEF AddDocument
  <2> QED
    BY <1>1, <2>1, <2>2
<1>9. CASE \/ UNCHANGED documentVars \/ AppendDocEvents \/ WriteDocsSnapshot \/ EmptyEvents
           \/ \E d \in Docs, j \in Jobs : Reprocess(d, j)
           \/ Unlist \/ EmptyKb \/ RemoveKb
           \/ \E j \in Jobs : \/ ResetStatus(j) \/ MarkProcessing(j) \/ EmbedBatch(j)
                              \/ StoreLast(j) \/ StoreFails(j) \/ MarkReady(j) \/ MarkError(j)
  <2>1. UNCHANGED <<sqlite, upload, deleting>>
    BY <1>9 DEF documentVars, AppendDocEvents, WriteDocsSnapshot, EmptyEvents, Reprocess,
                Unlist, EmptyKb, RemoveKb, ResetStatus, MarkProcessing, EmbedBatch, StoreLast,
                StoreFails, MarkReady, MarkError
  <2> QED
    BY <1>3, <2>1
<1>10. ASSUME NEW d \in Docs, Upload(d) \/ AddDocument(d) \/ \E j \in Jobs : StartUploaded(d, j)
       PROVE  DOMAIN upload' = Docs /\ UNCHANGED <<sqlite, deleting>>
  BY <1>1, <1>4, <1>10
<1>11. ASSUME NEW d \in Docs, DeleteDocument(d)
       PROVE  /\ DOMAIN deleting' = Docs
              /\ \A x \in Docs : x # d => deleting'[x] = deleting[x]
              /\ UNCHANGED <<sqlite, upload>>
              /\ \A x \in Docs : ~ AddDocument(x) \/ upload'[x] \notin {"new", "stored"}
  <2>1. UNCHANGED <<sqlite, upload>>
    BY <1>6, <1>11
  <2>2. \A x \in Docs : AddDocument(x) => upload'[x] = "added"
    BY <1>1 DEF AddDocument
  <2> QED
    BY <1>1, <1>6, <1>11, <2>1, <2>2
<1>12. ASSUME NEW d \in Docs, RemoveDocument(d)
       PROVE  /\ DOMAIN deleting' = Docs /\ deleting[d] = "popped" /\ deleting'[d] = "done"
              /\ \A x \in Docs : x # d => deleting'[x] = deleting[x]
              /\ UNCHANGED <<sqlite, upload>>
              /\ \A x \in Docs : ~ AddDocument(x) \/ upload'[x] \notin {"new", "stored"}
  <2>1. \A x \in Docs : AddDocument(x) => upload'[x] = "added"
    BY <1>1 DEF AddDocument
  <2> QED
    BY <1>1, <1>7, <1>12, <2>1
<1> DEFINE Goal ==
        /\ DOMAIN upload' = Docs /\ DOMAIN deleting' = Docs /\ sqlite' = sqlite
        /\ \A d \in Docs :
              /\ upload'[d] \in {"new", "stored"} =>
                    upload[d] \in {"new", "stored"} /\ ~ AddDocument(d)
              /\ deleting'[d] = "popped" /\ deleting[d] # "popped" => DeleteDocument(d)
              /\ deleting'[d] # "no" /\ deleting[d] = "no" => DeleteDocument(d)
<1>13. ASSUME NEW d \in Docs, Upload(d) \/ AddDocument(d) \/ \E j \in Jobs : StartUploaded(d, j)
       PROVE  Goal
  BY <1>1, <1>5, <1>10, <1>13
<1>14. ASSUME NEW d \in Docs, DeleteDocument(d)
       PROVE  Goal
  BY <1>1, <1>11, <1>14
<1>15. ASSUME NEW d \in Docs, RemoveDocument(d)
       PROVE  Goal
  BY <1>1, <1>12, <1>15
<1> HIDE DEF Goal
<1>16. Goal
  BY <1>8, <1>9, <1>13, <1>14, <1>15 DEF DocumentsNext, Goal
<1> QED
  BY <1>16 DEF Goal

LEMMA UploadStep ==
    ASSUME DocumentsInv, [DocumentsNext]_documentVars, NEW d \in Docs
    PROVE  UploadRight(d)'
<1> SUFFICES ASSUME upload'[d] \in {"new", "stored"}
             PROVE  /\ ~ Present(d)' /\ d \notin indexed' /\ deleting'[d] = "no"
                    /\ \A j \in Jobs : job'[j].pc \in AtWork => job'[j].doc # d
  BY DEF UploadRight
<1>1. upload[d] \in {"new", "stored"} /\ ~ AddDocument(d)
  BY UploadSteps DEF DocumentsInv
<1>2. /\ ~ Present(d) /\ d \notin indexed /\ deleting[d] = "no"
      /\ \A j \in Jobs : job[j].pc \in AtWork => job[j].doc # d
  BY <1>1 DEF DocumentsInv, UploadRight
<1>3. ~ Present(d)'
  BY <1>1, <1>2, ListedShrinks DEF DocumentsInv
<1>4. cache[d] = Nil
  BY <1>2 DEF Present
<1>5. deleting'[d] = "no"
  BY <1>2, <1>4, UploadSteps DEF DocumentsInv, DeleteDocument
<1> QED
  BY <1>1, <1>2, <1>3, <1>4, <1>5, IndexStep

LEMMA GoneStep ==
    ASSUME DocumentsInv, [DocumentsNext]_documentVars, NEW d \in Docs
    PROVE  GoneRight(d)'
<1> SUFFICES ASSUME deleting'[d] = "popped"
             PROVE  /\ cache'[d] = Nil
                    /\ Writing' /\ writer'.by # <<"delete", d>> => writer'.before[d] = Nil
  BY DEF GoneRight
<1>1. DocumentsTyped /\ LogRight
  BY DEF DocumentsInv
<1>2. CASE DeleteDocument(d)
  <2>1. /\ cache' = After(cache, Event({d}, Nil))
        /\ writer'.by = <<"delete", d>>
    BY <1>2 DEF DeleteDocument, Change
  <2> QED
    BY <2>1, AfterRight DEF Event
<1>3. CASE ~ DeleteDocument(d)
  <2>1. deleting[d] = "popped"
    BY <1>1, <1>3, UploadSteps
  <2>2. /\ cache[d] = Nil
        /\ Writing /\ writer.by # <<"delete", d>> => writer.before[d] = Nil
    BY <2>1 DEF DocumentsInv, GoneRight
  <2>3. ~ AddDocument(d)
    BY <2>1 DEF AddDocument, DocumentsInv, UploadRight
  <2>4. CASE UNCHANGED recordVars
    BY <2>2, <2>4 DEF recordVars, Writing
  <2>5. ASSUME NEW by, NEW event, Edits(by, event)
        PROVE  cache'[d] = Nil /\ (Writing' => writer'.before[d] = Nil)
    <3>1. /\ cache'[d] = IF d \in event.docs THEN event.status ELSE cache[d]
          /\ writer'.before = cache
      BY <2>5, AfterRight DEF Edits, Change
    <3> QED
      BY <2>2, <2>3, <2>5, <3>1 DEF Edits
  <2>6. CASE AppendDocEvents
    <3>1. cache' = cache /\ ~ Writing'
      BY <1>1, <2>6 DEF AppendDocEvents, NoWriter, Writing, DocumentsTyped, RecordsTyped
    <3> QED
      BY <2>2, <3>1
  <2>7. CASE WriteDocsSnapshot
    <3>1. cache' = cache /\ ~ Writing'
      BY <1>1, <2>7 DEF WriteDocsSnapshot, Writing, DocumentsTyped, RecordsTyped
    <3> QED
      BY <2>2, <3>1
  <2>8. CASE EmptyEvents \/ Unlist
    <3>1. EmptyEvents => writer'.pc = "none" /\ cache' = cache
      BY DEF EmptyEvents, NoWriter
    <3>2. Unlist => writer'.pc = "config" /\ cache' = cache
      BY DEF Unlist, NoWriter
    <3> QED
      BY <2>2, <2>8, <3>1, <3>2 DEF Writing
  <2>9. CASE EmptyKb
    <3>1. /\ cache'[d] = IF cache[d] # Nil THEN Nil ELSE cache[d]
          /\ writer'.pc = "changed" => writer'.before = cache
      BY <2>9, AfterRight DEF EmptyKb, Event, NoWriter
    <3> QED
      BY <2>2, <3>1 DEF Writing
  <2>10. CASE Reload
    BY <2>10 DEF Reload
  <2> QED
    BY <1>1, <2>4, <2>5, <2>6, <2>7, <2>8, <2>9, <2>10, RecordSteps
<1> QED
  BY <1>2, <1>3

-----------------------------------------------------------------------------
LEMMA DocumentsInitRight == DocumentsInit => DocumentsInv
<1> SUFFICES ASSUME DocumentsInit PROVE DocumentsInv
  OBVIOUS
<1>1. /\ sqlite \in BOOLEAN /\ cache = [d \in Docs |-> Nil] /\ snapshot = cache /\ events = <<>>
      /\ "pc" \in DOMAIN writer /\ writer.pc = "none"
      /\ upload = [d \in Docs |-> "new"] /\ deleting = [d \in Docs |-> "no"]
      /\ job = [j \in Jobs |-> NoJob] /\ vec = {} /\ bm25 = [d \in Docs |-> 0] /\ indexed = {}
  BY DEF DocumentsInit, NoWriter
<1>2. NoJob \in DocJobs /\ NoJob.pc = "off"
  BY DEF NoJob, DocJobs
<1>3. JobsTyped /\ \A j \in Jobs : job[j].pc = "off"
  BY <1>1, <1>2 DEF JobsTyped, AtWork
<1>4. RecordsTyped
  BY <1>1 DEF RecordsTyped, Mapped, Writing
<1>5. DocumentsTyped
  BY <1>1, <1>3, <1>4 DEF DocumentsTyped, IndexTyped
<1>6. LogRight
  BY <1>1, NoSteps DEF LogRight, Writing
<1>7. \A d \in Docs : UploadRight(d) /\ GoneRight(d) /\ ServesRight(d)
  BY <1>1, <1>3 DEF UploadRight, GoneRight, ServesRight, Present, Writing, AtWork
<1>8. ChunksRight /\ \A j \in Jobs : EmbedRight(j) /\ \A k \in Jobs : AloneRight(j, k)
  BY <1>1, <1>3 DEF ChunksRight, EmbedRight, AloneRight
<1> QED
  BY <1>5, <1>6, <1>7, <1>8 DEF DocumentsInv

LEMMA DocumentsStepRight ==
    ASSUME DocumentsInv, [DocumentsNext]_documentVars
    PROVE  DocumentsInv'
<1>1. DocumentsTyped /\ LogRight
  BY DEF DocumentsInv
<1>2. RecordsTyped' /\ LogRight'
  BY <1>1, LogStep
<1>3. /\ IndexInv' /\ JobsTyped' /\ IndexTyped'
      /\ \A d \in indexed' :
            d \in indexed \/ \E j \in Jobs : job[j].pc \in AtWork /\ job[j].doc = d
  BY IndexStep
<1>4. indexed' \subseteq Docs
  BY <1>1, <1>3 DEF DocumentsTyped, JobsTyped
<1>5. DocumentsTyped'
  BY <1>1, <1>2, <1>3, <1>4, UploadSteps DEF DocumentsTyped
<1>6. \A d \in Docs : UploadRight(d)' /\ GoneRight(d)'
  BY UploadStep, GoneStep
<1> QED
  BY <1>2, <1>3, <1>5, <1>6 DEF DocumentsInv, IndexInv

(***************************************************************************)
(* Whenever the process dies, the snapshot and the events give the records *)
(* before or after the change under way, also where the events are applied *)
(* a second time; and a document that was ready once keeps a whole         *)
(* generation of chunks until it is deleted.  For any documents, jobs,     *)
(* batches and crashes, and any number of events between two snapshots     *)
(* (_compact_doc_events_if_needed, _store_in_chromadb, upsert_chunks).     *)
(***************************************************************************)
THEOREM DocumentsCorrect == DocumentsSpec => []DocumentsWhole
<1>1. DocumentsInv => DocumentsWhole
  <2> SUFFICES ASSUME DocumentsInv PROVE EventsGiveRecords /\ OldChunksServe
    BY DEF DocumentsWhole
  <2>1. EventsGiveRecords
    BY DEF DocumentsInv, LogRight, EventsGiveRecords, Writing
  <2>2. OldChunksServe
    BY DEF DocumentsInv, DocumentsTyped, ServesRight, Complete, Lasts, Present, OldChunksServe
  <2> QED
    BY <2>1, <2>2
<1>2. DocumentsInv /\ [DocumentsNext]_documentVars => DocumentsInv'
  BY DocumentsStepRight
<1> QED
  BY <1>1, <1>2, DocumentsInitRight, PTL DEF DocumentsSpec

-----------------------------------------------------------------------------
(* The configuration of models: the models that remain of a list *)

\* What is kept of the first n models, for every n.
Keeps(models, gone, n, kept) ==
    kept = [k \in 0..n |-> IF k = 0 THEN <<>> ELSE Keep(kept[k-1], gone, models[k])]

LEMMA KeepsRight ==
    ASSUME NEW models, NEW gone, NEW n \in Nat, NEW kept, Keeps(models, gone, n, kept)
    PROVE  /\ kept[0] = <<>>
           /\ \A k \in 1..n : kept[k] = Keep(kept[k-1], gone, models[k])
<1>1. 0 \in 0..n /\ \A k \in 1..n : k \in 0..n /\ k # 0
  OBVIOUS
<1> QED
  BY <1>1 DEF Keeps

LEMMA KeepsExist ==
    ASSUME NEW models, NEW gone, NEW len \in Nat
    PROVE  \E kept : Keeps(models, gone, len, kept)
<1> DEFINE bad == {n \in Nat : ~ \E kept : Keeps(models, gone, n, kept)}
<1>1. \E kept : Keeps(models, gone, 0, kept)
  <2>1. Keeps(models, gone, 0, [k \in 0..0 |-> <<>>])
    BY DEF Keeps
  <2> QED
    BY <2>1
<1>2. ASSUME NEW n \in Nat, NEW f, Keeps(models, gone, n, f)
      PROVE  \E g : Keeps(models, gone, n + 1, g)
  <2> DEFINE g == [k \in 0..(n + 1) |->
                      IF k = n + 1 THEN Keep(f[n], gone, models[n + 1]) ELSE f[k]]
  <2>1. \A k \in 0..n : g[k] = f[k]
    OBVIOUS
  <2>2. ASSUME NEW k \in 0..(n + 1)
        PROVE  g[k] = IF k = 0 THEN <<>> ELSE Keep(g[k-1], gone, models[k])
    <3>1. CASE k = n + 1
      <4>1. k # 0 /\ k - 1 = n /\ n \in 0..n /\ k \in 0..(n + 1)
        BY <3>1
      <4>2. g[k - 1] = f[n]
        BY <2>1, <4>1
      <4>3. g[k] = Keep(f[n], gone, models[n + 1])
        BY <3>1
      <4> HIDE DEF g
      <4> QED
        BY <3>1, <4>1, <4>2, <4>3
    <3>2. CASE k # n + 1
      <4>1. k \in 0..n /\ (k # 0 => k - 1 \in 0..n /\ k \in 1..n)
        BY <3>2
      <4>2. f[k] = IF k = 0 THEN <<>> ELSE Keep(f[k-1], gone, models[k])
        <5>1. f[0] = <<>> /\ \A j \in 1..n : f[j] = Keep(f[j-1], gone, models[j])
          <6>1. 0 \in 0..n /\ \A j \in 1..n : j \in 0..n /\ j # 0
            OBVIOUS
          <6> QED
            BY <1>2, <6>1 DEF Keeps
        <5> QED
          BY <4>1, <5>1
      <4>3. g[k] = f[k] /\ (k # 0 => g[k - 1] = f[k - 1])
        BY <2>1, <4>1
      <4> HIDE DEF g
      <4> QED
        BY <4>2, <4>3
    <3> QED
      BY <3>1, <3>2
  <2>3. g = [k \in 0..(n + 1) |-> g[k]]
    OBVIOUS
  <2> HIDE DEF g
  <2>4. Keeps(models, gone, n + 1, g)
    BY <2>2, <2>3 DEF Keeps
  <2> QED
    BY <2>4
<1>3. bad = {}
  <2> SUFFICES ASSUME bad # {} PROVE FALSE
    OBVIOUS
  <2>1. PICK n \in bad : \A m \in bad : ~ (m < n)
    BY Least
  <2>2. n # 0
    BY <1>1, <2>1
  <2>3. n - 1 \in Nat /\ n - 1 < n /\ n = (n - 1) + 1
    BY <2>1, <2>2
  <2>4. \E f : Keeps(models, gone, n - 1, f)
    BY <2>1, <2>3
  <2>5. \E g : Keeps(models, gone, (n - 1) + 1, g)
    BY <1>2, <2>3, <2>4
  <2> QED
    BY <2>1, <2>3, <2>5
<1> QED
  BY <1>3

LEMMA RemainingKeeps ==
    ASSUME NEW models, NEW gone, Len(models) \in Nat
    PROVE  \E kept : /\ Keeps(models, gone, Len(models), kept)
                     /\ Remaining(models, gone) = kept[Len(models)]
<1> DEFINE f == CHOOSE kept : Keeps(models, gone, Len(models), kept)
<1>1. Keeps(models, gone, Len(models), f)
  BY KeepsExist
<1>2. Remaining(models, gone) = f[Len(models)]
  BY DEF Remaining, Keeps
<1> QED
  BY <1>1, <1>2

\* Keeping one more model: a list of models, none of some of them or the first of those.
LEMMA OneMore ==
    ASSUME NEW list \in Seq(Models), NEW model \in Models
    PROVE  /\ Append(list, model) \in Seq(Models)
           /\ DOMAIN Append(list, model) = 1..(Len(list) + 1) /\ Len(list) \in Nat
           /\ DOMAIN list = 1..Len(list)
           /\ Append(list, model)[Len(list) + 1] = model
           /\ \A k \in 1..Len(list) : Append(list, model)[k] = list[k]
  OBVIOUS

\* The first of some models remains the first of them when none of them goes.
LEMMA RemainingRight ==
    ASSUME NEW models \in Seq(Models), NEW gone, NEW some, some \cap gone = {}
    PROVE  /\ Remaining(models, gone) \in Seq(Models)
           /\ \A i : Foremost(models, some, i) =>
                \E k : /\ Foremost(Remaining(models, gone), some, k)
                       /\ Remaining(models, gone)[k] = models[i]
<1> DEFINE len == Len(models)
<1>1. len \in Nat /\ DOMAIN models = 1..len /\ \A n \in 1..len : models[n] \in Models
  OBVIOUS
<1>2. PICK kept : Keeps(models, gone, len, kept) /\ Remaining(models, gone) = kept[len]
  BY <1>1, RemainingKeeps
<1> HIDE DEF len
<1>3. /\ kept[0] = <<>>
      /\ \A k \in 1..len : kept[k] = Keep(kept[k-1], gone, models[k])
  BY <1>1, <1>2, KeepsRight
<1> DEFINE NoneYet(n) == \A j \in 1..n : models[j] \notin some
           Right(n) ==
              /\ kept[n] \in Seq(Models)
              /\ NoneYet(n) => \A k \in DOMAIN kept[n] : kept[n][k] \notin some
              /\ \A i \in 1..n : Foremost(models, some, i) =>
                    \E k : Foremost(kept[n], some, k) /\ kept[n][k] = models[i]
           bad == {n \in 0..len : ~Right(n)}
<1>4. Right(0)
  BY <1>3
<1>5. ASSUME NEW n \in 1..len, Right(n - 1) PROVE Right(n)
  <2> DEFINE list == kept[n - 1]
             model == models[n]
  <2>1. list \in Seq(Models) /\ model \in Models /\ kept[n] = Keep(list, gone, model)
    BY <1>1, <1>3, <1>5
  <2>2. NoneYet(n - 1) => \A k \in DOMAIN list : list[k] \notin some
    BY <1>5
  <2>3. \A i \in 1..(n - 1) : Foremost(models, some, i) =>
            \E k : Foremost(list, some, k) /\ list[k] = models[i]
    BY <1>5
  <2>4. /\ n \in Nat /\ n \in 1..n
        /\ \A i \in 1..n : i \in 1..(n - 1) \/ i = n
        /\ \A i \in 1..(n - 1) : i \in 1..n
    BY <1>1
  <2>5. NoneYet(n) => NoneYet(n - 1) /\ model \notin some
    BY <2>4
  <2>6. CASE model \in gone
    <3>1. kept[n] = list /\ model \notin some
      BY <2>1, <2>6 DEF Keep
    <3>2. \A i \in 1..n : Foremost(models, some, i) => i \in 1..(n - 1)
      BY <2>4, <3>1 DEF Foremost
    <3> HIDE DEF list, model, NoneYet
    <3> QED
      BY <2>1, <2>2, <2>3, <2>5, <3>1, <3>2
  <2>7. CASE model \notin gone
    <3>1. kept[n] = Append(list, model)
      BY <2>1, <2>7 DEF Keep
    <3>2. kept[n] \in Seq(Models)
      BY <2>1, <3>1
    <3>3. NoneYet(n) => \A k \in DOMAIN kept[n] : kept[n][k] \notin some
      <4> SUFFICES ASSUME NoneYet(n), NEW k \in DOMAIN kept[n] PROVE kept[n][k] \notin some
        OBVIOUS
      <4>1. (\A j \in DOMAIN list : list[j] \notin some) /\ model \notin some
        BY <2>2, <2>5
      <4> HIDE DEF list, model, NoneYet
      <4>2. k \in 1..Len(list) \/ k = Len(list) + 1
        BY <2>1, <3>1, OneMore
      <4> QED
        BY <2>1, <3>1, <4>1, <4>2, OneMore
    <3>4. ASSUME NEW i \in 1..n, Foremost(models, some, i)
          PROVE  \E k : Foremost(kept[n], some, k) /\ kept[n][k] = models[i]
      <4>1. CASE i \in 1..(n - 1)
        <5>1. PICK k : Foremost(list, some, k) /\ list[k] = models[i]
          BY <2>3, <3>4, <4>1
        <5> HIDE DEF list, model
        <5>2. Foremost(Append(list, model), some, k) /\ Append(list, model)[k] = list[k]
          <6>1. k \in 1..Len(list) /\ Len(list) \in Nat /\ k \in 1..(Len(list) + 1)
                /\ \A j \in 1..(k - 1) : j \in 1..Len(list)
            BY <2>1, <5>1 DEF Foremost
          <6> QED
            BY <2>1, <5>1, <6>1, OneMore DEF Foremost
        <5> QED
          BY <3>1, <5>1, <5>2
      <4>2. CASE i = n
        <5>1. NoneYet(n - 1) /\ model \in some
          BY <3>4, <4>2 DEF Foremost
        <5>2. \A k \in DOMAIN list : list[k] \notin some
          BY <2>2, <5>1
        <5>3. models[i] = model
          BY <4>2
        <5> HIDE DEF list, model, NoneYet
        <5>4. Len(list) \in Nat /\ (Len(list) + 1) - 1 = Len(list)
              /\ Len(list) + 1 \in 1..(Len(list) + 1)
          BY <2>1
        <5>5. Foremost(kept[n], some, Len(list) + 1)
          BY <2>1, <3>1, <5>1, <5>2, <5>4, OneMore DEF Foremost
        <5> QED
          BY <2>1, <3>1, <5>3, <5>5, OneMore
      <4> QED
        BY <2>4, <4>1, <4>2
    <3> HIDE DEF list, model, NoneYet
    <3> QED
      BY <3>2, <3>3, <3>4
  <2> QED
    BY <2>6, <2>7
<1> HIDE DEF Right
<1>6. bad = {}
  <2> SUFFICES ASSUME bad # {} PROVE FALSE
    OBVIOUS
  <2>0. bad \in SUBSET Nat
    BY <1>1
  <2>1. PICK n \in bad : \A m \in bad : ~ (m < n)
    <3> HIDE DEF bad
    <3> QED
      BY <2>0, Least
  <2>2. n \in 1..len /\ n - 1 \in 0..len /\ n - 1 < n
    BY <1>1, <1>4, <2>1
  <2>3. Right(n - 1)
    BY <2>1, <2>2
  <2> QED
    BY <1>5, <2>1, <2>2, <2>3
<1>7. Right(len)
  BY <1>1, <1>6
<1>8. kept[len] \in Seq(Models)
      /\ \A i \in 1..len : Foremost(models, some, i) =>
            \E k : Foremost(kept[len], some, k) /\ kept[len][k] = models[i]
  BY <1>7 DEF Right
<1>9. \A i : Foremost(models, some, i) => i \in 1..len
  BY <1>1 DEF Foremost
<1> QED
  BY <1>2, <1>8, <1>9

-----------------------------------------------------------------------------
(* What a request makes of the configuration *)

Good(config) == config.default = Void \/ Usable(config, config.default)

LEMMA Parts ==
    ASSUME NEW config \in Configurations
    PROVE  /\ config.providers \in Maps /\ config.models \in Seq(Models)
           /\ config.default = Void \/ config.default \in Providers \X ModelIds
  BY DEF Configurations

LEMMA WholeConfig ==
    ASSUME NEW P \in Maps, NEW M \in Seq(Models), NEW d \in {Void} \cup (Providers \X ModelIds)
    PROVE  [providers |-> P, models |-> M, default |-> d] \in Configurations
  BY DEF Configurations

LEMMA SelectedRight ==
    ASSUME NEW model \in Models, NEW selection
    PROVE  model \in Selected(selection) <=>
              model.provider = selection[1] /\ model.id = selection[2]
<1>1. model = [provider |-> model.provider, id |-> model.id, on |-> model.on]
      /\ model.on \in BOOLEAN
  BY DEF Models
<1> QED
  BY <1>1 DEF Selected

LEMMA SelectionRight ==
    ASSUME NEW model \in Models, NEW selection \in Providers \X ModelIds
    PROVE  model \in Selected(selection) <=> Selection(model) = selection
<1>1. selection = <<selection[1], selection[2]>>
  OBVIOUS
<1> QED
  BY <1>1, SelectedRight DEF Selection

\* The first model of a selection stays one that is on.
StaysNamed(models, more, selection) ==
    \A i : Foremost(models, Selected(selection), i) /\ models[i].on
           => \E k : Foremost(more, Selected(selection), k) /\ more[k].on

LEMMA StaysUsable ==
    ASSUME NEW config, NEW new, NEW selection,
           Usable(config, selection), StaysNamed(config.models, new.models, selection),
           On(config, selection[1]) => On(new, selection[1])
    PROVE  Usable(new, selection)
<1>1. PICK i : /\ Foremost(config.models, Selected(selection), i)
               /\ config.models[i].on /\ On(config, config.models[i].provider)
  BY DEF Usable
<1>2. PICK k : Foremost(new.models, Selected(selection), k) /\ new.models[k].on
  BY <1>1 DEF StaysNamed
<1>3. /\ config.models[i] \in Selected(selection) /\ new.models[k] \in Selected(selection)
      /\ k \in DOMAIN new.models
  BY <1>1, <1>2 DEF Foremost
<1>4. \A m \in Selected(selection) : m.provider = selection[1]
  BY DEF Selected
<1> QED
  BY <1>1, <1>2, <1>3, <1>4 DEF Usable

LEMMA SameStaysNamed ==
    ASSUME NEW models, NEW selection PROVE StaysNamed(models, models, selection)
  BY DEF StaysNamed

LEMMA ProviderAdded ==
    ASSUME NEW config \in Configurations, NEW p \in Providers, NEW on \in BOOLEAN,
           p \notin DOMAIN config.providers
    PROVE  LET new == [config EXCEPT !.providers =
                          [q \in DOMAIN @ \cup {p} |-> IF q = p THEN on ELSE @[q]]]
           IN  new \in Configurations /\ (Good(config) => Good(new))
<1> DEFINE P == [q \in DOMAIN config.providers \cup {p} |->
                    IF q = p THEN on ELSE config.providers[q]]
           new == [config EXCEPT !.providers = P]
<1>1. P \in Maps
  <2>1. PICK D \in SUBSET Providers : config.providers \in [D -> BOOLEAN]
    BY Parts DEF Maps
  <2>2. P \in [D \cup {p} -> BOOLEAN]
    BY <2>1
  <2>3. D \cup {p} \in SUBSET Providers
    OBVIOUS
  <2> HIDE DEF P
  <2> QED
    BY <2>2, <2>3 DEF Maps
<1>2. \A q : On(config, q) => q \in DOMAIN P /\ P[q]
  BY DEF On
<1> HIDE DEF P
<1>3. new.providers = P /\ new.models = config.models /\ new.default = config.default
  BY DEF Configurations
<1>4. new \in Configurations
  BY <1>1 DEF Configurations
<1>5. \A q : On(config, q) => On(new, q)
  BY <1>2, <1>3 DEF On
<1>6. Good(config) => Good(new)
  <2> HIDE DEF new
  <2> SUFFICES ASSUME Usable(config, config.default) PROVE Usable(new, new.default)
    BY <1>3 DEF Good
  <2> QED
    BY <1>3, <1>5, StaysUsable, SameStaysNamed
<1> QED
  BY <1>4, <1>6 DEF P

LEMMA ProviderReplaced ==
    ASSUME NEW config \in Configurations, NEW p \in DOMAIN config.providers, NEW on \in BOOLEAN
    PROVE  LET new == [config EXCEPT !.providers[p] = on,
                                     !.default = Deselected(config, p, on)]
           IN  new \in Configurations /\ (Good(config) => Good(new))
<1> DEFINE P == [config.providers EXCEPT ![p] = on]
           d == Deselected(config, p, on)
           new == [config EXCEPT !.providers[p] = on, !.default = d]
<1>1. P \in Maps
  <2>1. PICK D \in SUBSET Providers : config.providers \in [D -> BOOLEAN]
    BY Parts DEF Maps
  <2> QED
    BY <2>1 DEF Maps
<1>2. d = Void \/ (d = config.default /\ d \in Providers \X ModelIds
                      /\ (d[1] = p => on))
  BY Parts DEF Deselected
<1>3. \A q : On(config, q) /\ (q = p => on) => q \in DOMAIN P /\ P[q]
  BY DEF On
<1> HIDE DEF d
<1>4. new.providers = P /\ new.models = config.models /\ new.default = d
  BY DEF Configurations
<1>5. new \in Configurations
  <2>1. new = [config EXCEPT !.providers = P, !.default = d]
    OBVIOUS
  <2>2. d \in {Void} \cup (Providers \X ModelIds)
    BY <1>2
  <2> HIDE DEF P, new
  <2> QED
    BY <1>1, <2>1, <2>2 DEF Configurations
<1>6. Good(config) => Good(new)
  <2> HIDE DEF new, P
  <2> SUFFICES ASSUME Good(config), d # Void PROVE Usable(new, d)
    BY <1>4 DEF Good
  <2>1. Usable(config, d) /\ (d[1] = p => on)
    BY <1>2 DEF Good
  <2>2. On(config, d[1]) => On(new, d[1])
    BY <1>3, <1>4, <2>1 DEF On
  <2> QED
    BY <1>4, <2>1, <2>2, StaysUsable, SameStaysNamed
<1> QED
  BY <1>5, <1>6 DEF d

LEMMA ProviderDeleted ==
    ASSUME NEW config \in Configurations, NEW p \in Providers
    PROVE  LET new == [providers |-> [q \in DOMAIN config.providers \ {p} |-> config.providers[q]],
                       models |-> Remaining(config.models,
                                            [provider : {p}, id : ModelIds, on : BOOLEAN]),
                       default |-> Deselected(config, p, FALSE)]
           IN  new \in Configurations /\ (Good(config) => Good(new))
<1> DEFINE P == [q \in DOMAIN config.providers \ {p} |-> config.providers[q]]
           gone == [provider : {p}, id : ModelIds, on : BOOLEAN]
           M == Remaining(config.models, gone)
           d == Deselected(config, p, FALSE)
           new == [providers |-> P, models |-> M, default |-> d]
<1>1. P \in Maps
  <2>1. PICK D \in SUBSET Providers : config.providers \in [D -> BOOLEAN]
    BY Parts DEF Maps
  <2>2. P \in [D \ {p} -> BOOLEAN]
    BY <2>1
  <2>3. D \ {p} \in SUBSET Providers
    OBVIOUS
  <2> HIDE DEF P
  <2> QED
    BY <2>2, <2>3 DEF Maps
<1>2. d = Void \/ (d = config.default /\ d \in Providers \X ModelIds /\ d[1] # p)
  BY Parts DEF Deselected
<1>3. \A q : On(config, q) /\ q # p => q \in DOMAIN P /\ P[q]
  BY DEF On
<1>4. M \in Seq(Models)
  <2> HIDE DEF gone
  <2>1. {} \cap gone = {} /\ config.models \in Seq(Models)
    BY Parts
  <2> QED
    BY <2>1, RemainingRight
<1>5. ASSUME d # Void PROVE StaysNamed(config.models, M, d)
  <2>1. Selected(d) \cap gone = {}
    BY <1>2, <1>5 DEF Selected
  <2> HIDE DEF gone, d
  <2>2. \A i : Foremost(config.models, Selected(d), i) =>
            \E k : Foremost(M, Selected(d), k) /\ M[k] = config.models[i]
    BY <2>1, Parts, RemainingRight
  <2> HIDE DEF M
  <2> QED
    BY <2>2 DEF StaysNamed
<1> HIDE DEF P, M, d
<1>6. new \in Configurations
  BY <1>1, <1>2, <1>4, WholeConfig
<1>7. Good(config) => Good(new)
  <2>1. new.providers = P /\ new.models = M /\ new.default = d
    OBVIOUS
  <2> HIDE DEF new
  <2> SUFFICES ASSUME Good(config), d # Void PROVE Usable(new, d)
    BY <2>1 DEF Good
  <2>2. Usable(config, d) /\ d[1] # p
    BY <1>2 DEF Good
  <2>3. On(config, d[1]) => On(new, d[1])
    BY <1>3, <2>1, <2>2 DEF On
  <2> QED
    BY <1>5, <2>1, <2>2, <2>3, StaysUsable
<1> QED
  BY <1>6, <1>7 DEF P, M, d, gone

\* Only the list of models and the default change.
LEMMA ModelsChanged ==
    ASSUME NEW config \in Configurations, NEW M \in Seq(Models),
           NEW d \in {Void} \cup (Providers \X ModelIds),
           Good(config) /\ d # Void => d = config.default /\ StaysNamed(config.models, M, d)
    PROVE  LET new == [config EXCEPT !.models = M, !.default = d]
           IN  new \in Configurations /\ (Good(config) => Good(new))
<1> DEFINE new == [config EXCEPT !.models = M, !.default = d]
<1>1. new.providers = config.providers /\ new.models = M /\ new.default = d
  BY DEF Configurations
<1>2. new \in Configurations
  BY DEF Configurations
<1> HIDE DEF new
<1>3. \A q : On(config, q) => On(new, q)
  BY <1>1 DEF On
<1>4. ASSUME Good(config), d # Void PROVE Usable(new, d)
  <2>1. Usable(config, d) /\ StaysNamed(config.models, new.models, d)
    BY <1>1, <1>4 DEF Good
  <2>2. On(config, d[1]) => On(new, d[1])
    BY <1>3
  <2> QED
    BY <2>1, <2>2, StaysUsable
<1> QED
  BY <1>1, <1>2, <1>4 DEF Good, new

LEMMA ModelAdded ==
    ASSUME NEW config \in Configurations, NEW model \in Models
    PROVE  LET new == [config EXCEPT !.models = Append(@, model)]
           IN  new \in Configurations /\ (Good(config) => Good(new))
<1> DEFINE M == Append(config.models, model)
           d == config.default
           new == [config EXCEPT !.models = M]
<1>1. config.models \in Seq(Models)
  BY Parts
<1>2. M \in Seq(Models)
  BY <1>1
<1>3. StaysNamed(config.models, M, d)
  <2> SUFFICES ASSUME NEW i, Foremost(config.models, Selected(d), i), config.models[i].on
               PROVE  Foremost(M, Selected(d), i) /\ M[i].on
    BY DEF StaysNamed
  <2>1. i \in 1..Len(config.models) /\ Len(config.models) \in Nat
        /\ i \in 1..(Len(config.models) + 1)
        /\ \A j \in 1..(i - 1) : j \in 1..Len(config.models)
    BY <1>1 DEF Foremost
  <2> QED
    BY <1>1, <2>1, OneMore DEF Foremost
<1>4. d \in {Void} \cup (Providers \X ModelIds)
  BY Parts
<1> HIDE DEF M
<1>5. new = [config EXCEPT !.models = M, !.default = d]
  BY DEF Configurations
<1> HIDE DEF d, new
<1>6. new \in Configurations /\ (Good(config) => Good(new))
  BY <1>2, <1>3, <1>4, <1>5, ModelsChanged DEF d
<1> QED
  BY <1>6 DEF new, M

LEMMA ModelReplaced ==
    ASSUME NEW config \in Configurations, NEW i \in DOMAIN config.models, NEW on \in BOOLEAN
    PROVE  LET new == [config EXCEPT !.models[i].on = on,
                           !.default = IF Selection(config.models[i]) = @ /\ ~on
                                       THEN Void ELSE @]
           IN  new \in Configurations /\ (Good(config) => Good(new))
<1> DEFINE model == [config.models[i] EXCEPT !.on = on]
           M == [config.models EXCEPT ![i] = model]
           d == IF Selection(config.models[i]) = config.default /\ ~on
                THEN Void ELSE config.default
           new == [config EXCEPT !.models[i].on = on, !.default = d]
<1>1. config.models \in Seq(Models) /\ config.models[i] \in Models
  BY Parts
<1>2. model \in Models /\ model.on = on /\ Selection(model) = Selection(config.models[i])
  BY <1>1 DEF Models, Selection
<1>3. new = [config EXCEPT !.models = M, !.default = d]
  OBVIOUS
<1> HIDE DEF model, new
<1>4. /\ M \in Seq(Models) /\ DOMAIN M = DOMAIN config.models
      /\ \A k \in DOMAIN M : M[k] = IF k = i THEN model ELSE config.models[k]
  BY <1>1, <1>2
<1> HIDE DEF M
<1>5. d \in {Void} \cup (Providers \X ModelIds)
  BY Parts
<1>6. ASSUME d # Void PROVE d = config.default /\ StaysNamed(config.models, M, d)
  <2>1. d = config.default /\ d \in Providers \X ModelIds
        /\ (Selection(config.models[i]) = d => on)
    BY <1>5, <1>6
  <2> HIDE DEF d
  <2>2. model \in Selected(d) <=> config.models[i] \in Selected(d)
    BY <1>1, <1>2, <2>1, SelectionRight
  <2>3. config.models[i] \in Selected(d) => on
    BY <1>1, <2>1, SelectionRight
  <2> SUFFICES ASSUME NEW k, Foremost(config.models, Selected(d), k), config.models[k].on
               PROVE  Foremost(M, Selected(d), k) /\ M[k].on
    BY <2>1 DEF StaysNamed
  <2>4. k \in DOMAIN M /\ \A j \in 1..(k - 1) : j \in DOMAIN M
    BY <1>1, <1>4 DEF Foremost
  <2>5. \A j \in DOMAIN M : M[j] \in Selected(d) <=> config.models[j] \in Selected(d)
    BY <1>4, <2>2
  <2>6. Foremost(M, Selected(d), k)
    BY <2>4, <2>5 DEF Foremost
  <2>7. M[k].on
    BY <1>2, <1>4, <2>3, <2>4 DEF Foremost
  <2> QED
    BY <2>6, <2>7
<1> HIDE DEF d
<1>7. new \in Configurations /\ (Good(config) => Good(new))
  <2>1. M \in Seq(Models)
    BY <1>4
  <2>2. Good(config) /\ d # Void => d = config.default /\ StaysNamed(config.models, M, d)
    BY <1>6
  <2> QED
    BY <1>3, <1>5, <2>1, <2>2, ModelsChanged
<1> QED
  BY <1>7 DEF new, d

LEMMA ModelDeleted ==
    ASSUME NEW config \in Configurations, NEW i \in DOMAIN config.models, NEW simple \in BOOLEAN
    PROVE  LET model == config.models[i]
               gone == [provider : IF simple THEN Providers ELSE {model.provider},
                        id : {model.id}, on : BOOLEAN]
               new == [config EXCEPT !.models = Remaining(@, gone),
                               !.default = IF \E k \in DOMAIN config.models :
                                                 /\ config.models[k] \in gone
                                                 /\ Selection(config.models[k]) = @
                                           THEN Void ELSE @]
           IN  new \in Configurations /\ (Good(config) => Good(new))
<1> DEFINE model == config.models[i]
           from == IF simple THEN Providers ELSE {model.provider}
           gone == [provider : from, id : {model.id}, on : BOOLEAN]
           hit == \E k \in DOMAIN config.models :
                     config.models[k] \in gone /\ Selection(config.models[k]) = config.default
           M == Remaining(config.models, gone)
           d == IF hit THEN Void ELSE config.default
           new == [config EXCEPT !.models = M, !.default = d]
<1>1. config.models \in Seq(Models)
  BY Parts
<1>2. M \in Seq(Models)
  <2> HIDE DEF gone
  <2>1. {} \cap gone = {}
    OBVIOUS
  <2> QED
    BY <1>1, <2>1, RemainingRight
<1>3. d \in {Void} \cup (Providers \X ModelIds)
  BY Parts
<1>4. ASSUME Good(config), d # Void
      PROVE  d = config.default /\ StaysNamed(config.models, M, d)
  <2>1. d = config.default /\ ~hit /\ d \in Providers \X ModelIds
    BY <1>3, <1>4
  <2> HIDE DEF from
  <2>2. Selected(d) \cap gone = {}
    <3> SUFFICES ASSUME NEW m \in Selected(d), m \in gone PROVE FALSE
      OBVIOUS
    <3>1. PICK k \in DOMAIN config.models : config.models[k] \in Selected(d)
      BY <1>4, <2>1 DEF Good, Usable, Foremost
    <3>2. config.models[k] \in Models
      BY <1>1
    <3>3. d[1] \in from /\ d[2] = model.id
      BY DEF Selected
    <3>4. /\ config.models[k].provider = d[1] /\ config.models[k].id = d[2]
          /\ Selection(config.models[k]) = d
      BY <2>1, <3>1, <3>2, SelectedRight, SelectionRight
    <3>5. config.models[k] \in gone
      BY <3>2, <3>3, <3>4 DEF Models
    <3> QED
      BY <2>1, <3>4, <3>5
  <2> HIDE DEF gone, d
  <2>3. \A j : Foremost(config.models, Selected(d), j) =>
            \E k : Foremost(M, Selected(d), k) /\ M[k] = config.models[j]
    BY <1>1, <2>2, RemainingRight
  <2> HIDE DEF M
  <2>4. StaysNamed(config.models, M, d)
    BY <2>3 DEF StaysNamed
  <2> QED
    BY <2>1, <2>4
<1> HIDE DEF M, d, gone, new
<1>5. new \in Configurations /\ (Good(config) => Good(new))
  <2>1. new = [config EXCEPT !.models = M, !.default = d]
    BY DEF new
  <2>2. Good(config) /\ d # Void => d = config.default /\ StaysNamed(config.models, M, d)
    BY <1>4
  <2> QED
    BY <1>2, <1>3, <2>1, <2>2, ModelsChanged
<1> QED
  BY <1>5 DEF new, M, d, gone

LEMMA DefaultSet ==
    ASSUME NEW config \in Configurations, NEW p \in Providers, NEW id \in ModelIds,
           NEW i \in DOMAIN config.models, Foremost(config.models, OfId(id), i),
           config.models[i].provider = p, config.models[i].on, On(config, p)
    PROVE  LET new == [config EXCEPT !.default = <<p, id>>]
           IN  new \in Configurations /\ Good(new)
<1> DEFINE d == <<p, id>>
           new == [config EXCEPT !.default = d]
<1>1. config.models \in Seq(Models) /\ d \in Providers \X ModelIds /\ d[1] = p /\ d[2] = id
  BY Parts
<1>2. i \in DOMAIN config.models /\ \A j \in 1..(i - 1) : j \in DOMAIN config.models
  BY <1>1
<1>3. config.models[i] \in Selected(d)
  <2>1. config.models[i].id = id
    BY DEF Foremost, OfId
  <2> QED
    BY <1>1, <2>1, SelectedRight
<1>4. ASSUME NEW j \in 1..(i - 1) PROVE config.models[j] \notin Selected(d)
  <2>1. config.models[j] \in Models /\ config.models[j] \notin OfId(id)
    BY <1>1, <1>2 DEF Foremost
  <2>2. config.models[j].id # id
    BY <2>1 DEF Models, OfId
  <2> QED
    BY <1>1, <2>1, <2>2, SelectedRight
<1> HIDE DEF d
<1>5. /\ new.providers = config.providers /\ new.models = config.models /\ new.default = d
      /\ new \in Configurations
  BY <1>1 DEF Configurations
<1> HIDE DEF new
<1>6. Foremost(new.models, Selected(d), i) /\ On(new, p)
  BY <1>2, <1>3, <1>4, <1>5 DEF Foremost, On
<1>7. Usable(new, d)
  BY <1>5, <1>6 DEF Usable
<1> QED
  BY <1>5, <1>7 DEF Good, new, d

LEMMA KeptRight ==
    ASSUME NEW config \in Configurations
    PROVE  Kept(config) \in Configurations /\ Good(Kept(config))
<1>1. CASE Good(config)
  BY <1>1 DEF Kept, Good
<1>2. CASE ~Good(config)
  <2>1. Kept(config) = [config EXCEPT !.default = Void]
    BY <1>2 DEF Kept, Good
  <2> QED
    BY <2>1 DEF Good, Configurations
<1> QED
  BY <1>1, <1>2

-----------------------------------------------------------------------------
(* The invariant *)

Disks == [providers : {Void} \cup Maps, models : {Void} \cup Seq(Models),
          default : {Void} \cup (Providers \X ModelIds)]
SettingsTyped ==
    /\ disk \in Disks
    /\ saving \in {Void} \cup Writers /\ syncing \in {Void} \cup Readers
    /\ existing \in {Void} \cup [provider : Providers, on : BOOLEAN]
    /\ mixed \in BOOLEAN

Two == Tail(ConfigFiles)
One == Tail(Tail(ConfigFiles))

\* The files a writer has left behind hold its configuration, and a reader has what is in
\* those it has read.
OnDisk(w, d) ==
    /\ w.left # ConfigFiles => d.providers = w.config.providers
    /\ w.left = One => d.models = w.config.models
ReadSoFar(r) ==
    /\ r.left # ConfigFiles => r.got.providers = Read("providers")
    /\ r.left = One => r.got.models = Read("models")

\* As long as loop and thread are not at the files together, what is to be written has a
\* default that can be used.
Undisturbed ==
    /\ saving = Void \/ syncing = Void
    /\ saving # Void => Good(saving.config) /\ OnDisk(saving, disk)
    /\ syncing # Void /\ syncing.writer = Void => ReadSoFar(syncing)
    /\ syncing # Void /\ syncing.writer # Void =>
          Good(syncing.writer.config) /\ OnDisk(syncing.writer, disk)
    /\ up = "on" /\ saving = Void /\ syncing = Void => Good(Loaded)

SettingsInv ==
    /\ SettingsTyped
    /\ up # "on" => saving = Void
    /\ ~mixed => Undisturbed

LEMMA LeftRight ==
    /\ ConfigFiles \in Left /\ Two \in Left /\ One \in Left
    /\ \A left \in Left : left = ConfigFiles \/ left = Two \/ left = One
    /\ Two # ConfigFiles /\ One # ConfigFiles /\ One # Two
    /\ Head(ConfigFiles) = "providers" /\ Head(Two) = "models" /\ Head(One) = "default"
    /\ Tail(ConfigFiles) = Two /\ Tail(Two) = One
    /\ Len(ConfigFiles) > 1 /\ Len(Two) > 1 /\ ~ (Len(One) > 1)
  BY DEF Left, ConfigFiles, Two, One

LEMMA VoidRight ==
    /\ Void \notin Maps /\ Void \notin Seq(Models)
    /\ Void \notin Writers /\ Void \notin Readers
<1>1. Void \notin Maps \cup Seq(Models)
  BY SettingsAssumption, Zenon
<1>2. Void \notin Writers \cup Readers
  BY SettingsAssumption, Zenon
<1> QED
  BY <1>1, <1>2

LEMMA EmptyRight ==
    /\ Empty \in Configurations
    /\ Empty.providers \in Maps /\ Empty.models \in Seq(Models) /\ Empty.default = Void
<1>1. Empty.providers \in Maps
  <2>1. Empty.providers \in [{} -> BOOLEAN] /\ {} \in SUBSET Providers
    BY DEF Empty
  <2> QED
    BY <2>1 DEF Maps
<1>2. Empty.models \in Seq(Models) /\ Empty.default = Void
  BY DEF Empty
<1>3. Empty = [providers |-> Empty.providers, models |-> Empty.models, default |-> Empty.default]
  BY DEF Empty
<1> QED
  BY <1>1, <1>2, <1>3, WholeConfig

LEMMA ReadRight ==
    ASSUME SettingsTyped
    PROVE  /\ Read("providers") \in Maps /\ Read("models") \in Seq(Models)
           /\ Read("default") \in {Void} \cup (Providers \X ModelIds)
  BY EmptyRight DEF SettingsTyped, Disks, Read

LEMMA ConfigRight == ASSUME SettingsTyped PROVE Loaded \in Configurations
  BY ReadRight, WholeConfig DEF Loaded

\* A step of a writer: it goes on with the same configuration, or everything is written.
LEMMA WriteTyped ==
    ASSUME SettingsTyped, NEW w \in Writers
    PROVE  /\ Touched(w) \in Disks
           /\ Onward(w) \in {Void} \cup Writers
<1> DEFINE c == w.config
<1>1. /\ c.providers \in Maps /\ c.models \in Seq(Models)
      /\ c.default \in {Void} \cup (Providers \X ModelIds)
      /\ w.left \in Left /\ w.opened \in BOOLEAN /\ c \in Configurations
  BY Parts DEF Writers
<1>2. Touched(w) \in Disks
  <2>1. CASE w.left = ConfigFiles
    BY <1>1, <2>1, LeftRight DEF Touched, Disks, SettingsTyped
  <2>2. CASE w.left = Two
    BY <1>1, <2>2, LeftRight DEF Touched, Disks, SettingsTyped
  <2>3. CASE w.left = One
    BY <1>1, <2>3, LeftRight DEF Touched, Disks, SettingsTyped
  <2> QED
    BY <1>1, <2>1, <2>2, <2>3, LeftRight
<1>3. Onward(w) \in {Void} \cup Writers
  <2>1. CASE w.left = One
    <3>1. w.opened => Onward(w) = Void
      BY <2>1, LeftRight, Zenon DEF Onward
    <3>2. ~w.opened => Onward(w) = [w EXCEPT !.opened = TRUE]
      BY DEF Onward
    <3> QED
      BY <1>1, <3>1, <3>2 DEF Writers
  <2>2. CASE w.left # One
    <3>1. Tail(w.left) \in Left
      BY <1>1, <2>2, LeftRight
    <3> QED
      BY <1>1, <3>1 DEF Onward, Writers
  <2> QED
    BY <2>1, <2>2
<1> QED
  BY <1>2, <1>3

LEMMA WriteRight ==
    ASSUME SettingsTyped, NEW w \in Writers, OnDisk(w, disk)
    PROVE  /\ Onward(w) # Void => Onward(w).config = w.config /\ OnDisk(Onward(w), Touched(w))
           /\ Onward(w) = Void =>
                /\ Touched(w).providers = w.config.providers
                /\ Touched(w).models = w.config.models
                /\ Touched(w).default = w.config.default
<1>1. /\ w.left = ConfigFiles \/ w.left = Two \/ w.left = One
      /\ w.opened \in BOOLEAN
  BY LeftRight DEF Writers
<1>2. CASE ~w.opened
  <2>1. Onward(w) = [w EXCEPT !.opened = TRUE] /\ Onward(w) \in Writers
    BY <1>1, <1>2 DEF Onward, Writers
  <2>2. Onward(w).config = w.config /\ Onward(w).left = w.left
    BY <2>1 DEF Writers
  <2>3. OnDisk(w, Touched(w))
    BY <1>1, LeftRight DEF OnDisk, Touched, SettingsTyped, Disks
  <2>4. Onward(w) # Void
    BY <2>1, VoidRight
  <2> QED
    BY <2>2, <2>3, <2>4 DEF OnDisk
<1>3. CASE w.opened /\ w.left # One
  <2>1. Len(w.left) > 1 /\ Tail(w.left) \in Left
    BY <1>1, <1>3, LeftRight, Zenon
  <2>2. Onward(w) = [w EXCEPT !.left = Tail(@), !.opened = FALSE]
    BY <1>3, <2>1 DEF Onward
  <2>3. Onward(w) \in Writers /\ Onward(w).config = w.config /\ Onward(w).left = Tail(w.left)
    BY <2>1, <2>2 DEF Writers
  <2>4. Onward(w) # Void
    BY <2>3, VoidRight
  <2>5. OnDisk(Onward(w), Touched(w))
    BY <1>1, <1>3, <2>3, LeftRight DEF OnDisk, Touched, SettingsTyped, Disks
  <2> QED
    BY <2>3, <2>4, <2>5
<1>4. CASE w.opened /\ w.left = One
  <2>1. Onward(w) = Void
    BY <1>4, LeftRight DEF Onward
  <2>2. Touched(w) = [disk EXCEPT !["default"] = w.config["default"]]
    BY <1>4, LeftRight DEF Touched
  <2>3. /\ Touched(w).providers = disk.providers /\ Touched(w).models = disk.models
        /\ Touched(w).default = w.config.default
    BY <2>2 DEF SettingsTyped, Disks
  <2> QED
    BY <1>4, <2>1, <2>3, LeftRight DEF OnDisk
<1> QED
  BY <1>1, <1>2, <1>3, <1>4

\* What has been written is the configuration.
LEMMA AllOnDisk ==
    ASSUME NEW config \in Configurations, NEW d,
           d.providers = config.providers, d.models = config.models,
           d.default = config.default, disk' = d, Good(config)
    PROVE  Good(Loaded)'
<1>1. config.providers # Void /\ config.models # Void
  BY VoidRight, Parts
<1>2. /\ Read("providers")' = config.providers /\ Read("models")' = config.models
      /\ Read("default")' = config.default
  BY <1>1, EmptyRight DEF Read
<1>3. /\ Loaded'.providers = config.providers /\ Loaded'.models = config.models
      /\ Loaded'.default = config.default
  BY <1>2 DEF Loaded
<1> QED
  BY <1>3 DEF Good, Usable, On

-----------------------------------------------------------------------------
(* The steps *)

LEMMA SettingsInitRight == SettingsInit => SettingsInv
<1> SUFFICES ASSUME SettingsInit PROVE SettingsInv
  OBVIOUS
<1>1. PICK p \in Builtin, id \in ModelIds, models \in {0, 1}, selected \in BOOLEAN :
          /\ selected => models = 1
          /\ disk = [providers |-> [q \in Builtin |-> TRUE],
                     models |-> [i \in 1..models |-> [provider |-> p, id |-> id, on |-> TRUE]],
                     default |-> IF selected THEN <<p, id>> ELSE Void]
  BY DEF SettingsInit
<1> DEFINE P == [q \in Builtin |-> TRUE]
           model == [provider |-> p, id |-> id, on |-> TRUE]
           M == [i \in 1..models |-> model]
           d == IF selected THEN <<p, id>> ELSE Void
<1>2. P \in [Builtin -> BOOLEAN] /\ P \in Maps /\ p \in Providers /\ model \in Models
  <2>1. Builtin \subseteq Providers
    BY SettingsAssumption, Zenon
  <2>2. P \in [Builtin -> BOOLEAN] /\ p \in Providers /\ model \in Models
    BY <2>1 DEF Models
  <2> HIDE DEF P
  <2> QED
    BY <2>1, <2>2 DEF Maps
<1>3. M \in Seq(Models)
  BY <1>2
<1>4. d \in {Void} \cup (Providers \X ModelIds)
  BY <1>2
<1>5. disk.providers = P /\ disk.models = M /\ disk.default = d /\ disk \in Disks
  BY <1>1, <1>2, <1>3, <1>4 DEF Disks
<1>6. SettingsTyped
  BY <1>5 DEF SettingsInit, SettingsTyped
<1>7. Loaded.providers = P /\ Loaded.models = M /\ Loaded.default = d
  BY <1>2, <1>3, <1>5, VoidRight, EmptyRight DEF Loaded, Read
<1>8. Good(Loaded)
  <2>1. CASE ~selected
    BY <1>7, <2>1 DEF Good
  <2>2. CASE selected
    <3>1. 1 \in DOMAIN M /\ M[1] = model /\ 1..(1 - 1) = {}
      BY <1>1, <2>2
    <3>2. model \in Selected(<<p, id>>) /\ model.on /\ p \in DOMAIN P /\ P[p]
          /\ model.provider = p
      BY DEF Selected
    <3> HIDE DEF M, P, model
    <3>3. Usable(Loaded, <<p, id>>)
      BY <1>7, <3>1, <3>2 DEF Usable, Foremost, On
    <3> QED
      BY <1>7, <2>2, <3>3 DEF Good
  <2> QED
    BY <2>1, <2>2
<1> QED
  BY <1>6, <1>8 DEF SettingsInv, Undisturbed, SettingsInit

\* A request that saves what it made of the configuration.
LEMMA SaveRight ==
    ASSUME SettingsInv, NEW config, SaveConfig(config),
           config \in Configurations, Good(Loaded) => Good(config),
           existing' \in {Void} \cup [provider : Providers, on : BOOLEAN]
    PROVE  SettingsInv'
<1>1. Writer(config) \in Writers /\ Writer(config) # Void
      /\ Writer(config).config = config /\ Writer(config).left = ConfigFiles
  <2>1. Writer(config) \in Writers
    BY LeftRight DEF Writer, Writers
  <2> QED
    BY <2>1, VoidRight DEF Writer
<1>2. SettingsTyped'
  BY <1>1 DEF SettingsInv, SettingsTyped, SaveConfig
<1>3. (up # "on" => saving = Void)'
  BY DEF SaveConfig, LoopFree
<1>4. ASSUME ~mixed' PROVE Undisturbed'
  <2>1. syncing = Void /\ ~mixed /\ saving = Void /\ up = "on"
    BY <1>4 DEF SaveConfig, LoopFree, SettingsInv, SettingsTyped
  <2>2. Good(config)
    BY <2>1 DEF SettingsInv, Undisturbed
  <2>3. OnDisk(Writer(config), disk)
    BY <1>1, LeftRight DEF OnDisk
  <2>4. syncing' = Void /\ saving' = Writer(config) /\ disk' = disk
    BY <2>1 DEF SaveConfig
  <2> QED
    BY <1>1, <2>2, <2>3, <2>4 DEF Undisturbed
<1> QED
  BY <1>2, <1>3, <1>4 DEF SettingsInv

LEMMA SettingsChangesRight ==
    ASSUME SettingsInv,
           \/ \E p \in Providers : DeleteProvider(p)
           \/ \E p \in Providers, on \in BOOLEAN : AddProvider(p, on)
           \/ \E on \in BOOLEAN \cup {Void} : EndUpdate(on)
           \/ \E p \in Providers, id \in ModelIds, on \in BOOLEAN : AddModel(p, id, on)
           \/ \E i \in DOMAIN Loaded.models, b \in BOOLEAN : UpdateModel(i, b) \/ DeleteModel(i, b)
           \/ \E p \in Providers, id \in ModelIds : SetDefaultModel(p, id)
    PROVE  SettingsInv'
<1> DEFINE Existing == {Void} \cup [provider : Providers, on : BOOLEAN]
<1>1. Loaded \in Configurations /\ existing \in Existing
  BY ConfigRight DEF SettingsInv, SettingsTyped
<1>2. ASSUME NEW p \in Providers, DeleteProvider(p) PROVE SettingsInv'
  <2> DEFINE new == [providers |-> [q \in DOMAIN Loaded.providers \ {p} |-> Loaded.providers[q]],
                     models |-> Remaining(Loaded.models,
                                          [provider : {p}, id : ModelIds, on : BOOLEAN]),
                     default |-> Deselected(Loaded, p, FALSE)]
  <2>1. SaveConfig(new) /\ existing' = existing
    BY <1>2 DEF DeleteProvider
  <2>2. new \in Configurations /\ (Good(Loaded) => Good(new))
    BY <1>1, ProviderDeleted
  <2> HIDE DEF new
  <2> QED
    BY <1>1, <2>1, <2>2, SaveRight
<1>3. ASSUME NEW p \in Providers, NEW on \in BOOLEAN, AddProvider(p, on) PROVE SettingsInv'
  <2> DEFINE new == [Loaded EXCEPT !.providers =
                        [q \in DOMAIN @ \cup {p} |-> IF q = p THEN on ELSE @[q]]]
  <2>1. SaveConfig(new) /\ existing' = existing /\ p \notin DOMAIN Loaded.providers
    BY <1>3 DEF AddProvider
  <2>2. new \in Configurations /\ (Good(Loaded) => Good(new))
    BY <1>1, <2>1, ProviderAdded
  <2> HIDE DEF new
  <2> QED
    BY <1>1, <2>1, <2>2, SaveRight
<1>4. ASSUME NEW on \in BOOLEAN \cup {Void}, EndUpdate(on) PROVE SettingsInv'
  <2> DEFINE p == existing.provider
             value == IF on = Void THEN existing.on ELSE on
             new == [Loaded EXCEPT !.providers[p] = value,
                                   !.default = Deselected(Loaded, p, value)]
  <2>1. SaveConfig(new) /\ existing' = Void /\ p \in DOMAIN Loaded.providers
    BY <1>4 DEF EndUpdate
  <2>2. value \in BOOLEAN
    BY <1>1, <1>4 DEF EndUpdate
  <2> HIDE DEF p, value
  <2>3. new \in Configurations /\ (Good(Loaded) => Good(new))
    BY <1>1, <2>1, <2>2, ProviderReplaced
  <2> HIDE DEF new
  <2> QED
    BY <1>1, <2>1, <2>3, SaveRight
<1>5. ASSUME NEW p \in Providers, NEW id \in ModelIds, NEW on \in BOOLEAN, AddModel(p, id, on)
      PROVE  SettingsInv'
  <2> DEFINE model == [provider |-> p, id |-> id, on |-> on]
             new == [Loaded EXCEPT !.models = Append(@, model)]
  <2>1. SaveConfig(new) /\ existing' = existing
    BY <1>5 DEF AddModel
  <2>2. model \in Models
    BY DEF Models
  <2> HIDE DEF model
  <2>3. new \in Configurations /\ (Good(Loaded) => Good(new))
    BY <1>1, <2>2, ModelAdded
  <2> HIDE DEF new
  <2> QED
    BY <1>1, <2>1, <2>3, SaveRight
<1>6. ASSUME NEW i \in DOMAIN Loaded.models, NEW on \in BOOLEAN, UpdateModel(i, on)
      PROVE  SettingsInv'
  <2> DEFINE new == [Loaded EXCEPT !.models[i].on = on,
                           !.default = IF Selection(Loaded.models[i]) = @ /\ ~on
                                       THEN Void ELSE @]
  <2>1. SaveConfig(new) /\ existing' = existing
    BY <1>6 DEF UpdateModel
  <2>2. new \in Configurations /\ (Good(Loaded) => Good(new))
    BY <1>1, ModelReplaced
  <2> HIDE DEF new
  <2> QED
    BY <1>1, <2>1, <2>2, SaveRight
<1>7. ASSUME NEW i \in DOMAIN Loaded.models, NEW simple \in BOOLEAN, DeleteModel(i, simple)
      PROVE  SettingsInv'
  <2> DEFINE model == Loaded.models[i]
             gone == [provider : IF simple THEN Providers ELSE {model.provider},
                      id : {model.id}, on : BOOLEAN]
             new == [Loaded EXCEPT !.models = Remaining(@, gone),
                             !.default = IF \E k \in DOMAIN Loaded.models :
                                               /\ Loaded.models[k] \in gone
                                               /\ Selection(Loaded.models[k]) = @
                                         THEN Void ELSE @]
  <2>1. SaveConfig(new) /\ existing' = existing
    BY <1>7 DEF DeleteModel
  <2>2. new \in Configurations /\ (Good(Loaded) => Good(new))
    BY <1>1, ModelDeleted
  <2> HIDE DEF new
  <2> QED
    BY <1>1, <2>1, <2>2, SaveRight
<1>8. ASSUME NEW p \in Providers, NEW id \in ModelIds, SetDefaultModel(p, id) PROVE SettingsInv'
  <2> DEFINE new == [Loaded EXCEPT !.default = <<p, id>>]
  <2>1. /\ SaveConfig(new) /\ existing' = existing /\ On(Loaded, p)
        /\ \E i \in DOMAIN Loaded.models :
              /\ Foremost(Loaded.models, OfId(id), i)
              /\ Loaded.models[i].provider = p /\ Loaded.models[i].on
    BY <1>8 DEF SetDefaultModel
  <2>2. new \in Configurations /\ Good(new)
    BY <1>1, <2>1, DefaultSet
  <2> HIDE DEF new
  <2> QED
    BY <1>1, <2>1, <2>2, SaveRight
<1> QED
  BY <1>2, <1>3, <1>4, <1>5, <1>6, <1>7, <1>8

LEMMA SaveStepRight == ASSUME SettingsInv, SaveStep PROVE SettingsInv'
<1>1. /\ SettingsTyped /\ saving \in Writers /\ saving # Void
      /\ disk' = Touched(saving) /\ saving' = Onward(saving)
      /\ UNCHANGED <<syncing, existing, up, mixed>>
  BY DEF SettingsInv, SettingsTyped, SaveStep
<1>2. SettingsTyped'
  BY <1>1, WriteTyped DEF SettingsTyped
<1>3. (up # "on" => saving = Void)'
  BY <1>1 DEF SettingsInv
<1>4. ASSUME ~mixed' PROVE Undisturbed'
  <2>1. syncing = Void /\ Good(saving.config) /\ OnDisk(saving, disk)
    BY <1>1, <1>4 DEF SettingsInv, Undisturbed
  <2>2. saving' # Void => Good(saving'.config) /\ OnDisk(saving', disk')
    BY <1>1, <2>1, WriteRight
  <2>3. saving' = Void => Good(Loaded)'
    <3> SUFFICES ASSUME Onward(saving) = Void PROVE Good(Loaded)'
      BY <1>1
    <3>1. /\ Touched(saving).providers = saving.config.providers
          /\ Touched(saving).models = saving.config.models
          /\ Touched(saving).default = saving.config.default
      BY <1>1, <2>1, WriteRight
    <3>2. saving.config \in Configurations
      BY <1>1 DEF Writers
    <3> QED
      BY <1>1, <2>1, <3>1, <3>2, AllOnDisk
  <2> QED
    BY <1>1, <2>1, <2>2, <2>3 DEF Undisturbed
<1> QED
  BY <1>2, <1>3, <1>4 DEF SettingsInv

LEMMA SyncWriteRight == ASSUME SettingsInv, SyncWrite PROVE SettingsInv'
<1> DEFINE w == syncing.writer
<1>1. /\ SettingsTyped /\ syncing \in Readers /\ syncing # Void
      /\ w \in Writers /\ w # Void /\ disk' = Touched(w)
      /\ UNCHANGED <<saving, existing, mixed>>
  BY DEF SettingsInv, SettingsTyped, SyncWrite, Readers
<1>2. /\ Onward(w) = Void => syncing' = Void /\ up' = "on"
      /\ Onward(w) # Void => /\ syncing' = [syncing EXCEPT !.writer = Onward(w)]
                                /\ syncing' \in Readers /\ syncing'.writer = Onward(w)
                                /\ syncing' # Void /\ up' = up
  <2>1. CASE Onward(w) = Void
    BY <2>1 DEF SyncWrite
  <2>2. CASE Onward(w) # Void
    <3>1. syncing' = [syncing EXCEPT !.writer = Onward(w)]
      BY <2>2 DEF SyncWrite
    <3>2. Onward(w) \in Writers
      BY <1>1, <2>2, WriteTyped
    <3> HIDE DEF w
    <3>3. syncing' \in Readers /\ syncing'.writer = Onward(w)
      BY <1>1, <3>1, <3>2 DEF Readers
    <3>4. syncing' # Void
      BY <3>3, VoidRight
    <3> QED
      BY <2>2, <3>1, <3>3, <3>4 DEF SyncWrite
  <2> QED
    BY <2>1, <2>2
<1>3. SettingsTyped'
  BY <1>1, <1>2, WriteTyped DEF SettingsTyped
<1>4. (up # "on" => saving = Void)'
  BY <1>1, <1>2 DEF SettingsInv
<1>5. ASSUME ~mixed' PROVE Undisturbed'
  <2>1. saving = Void /\ Good(w.config) /\ OnDisk(w, disk)
    BY <1>1, <1>5 DEF SettingsInv, Undisturbed
  <2>2. Onward(w) # Void => Good(Onward(w).config) /\ OnDisk(Onward(w), disk')
    BY <1>1, <2>1, WriteRight
  <2>3. ASSUME Onward(w) = Void PROVE Good(Loaded)'
    <3>1. /\ Touched(w).providers = w.config.providers
          /\ Touched(w).models = w.config.models
          /\ Touched(w).default = w.config.default
      BY <1>1, <2>1, <2>3, WriteRight
    <3>2. w.config \in Configurations
      BY <1>1 DEF Writers
    <3> QED
      BY <1>1, <2>1, <3>1, <3>2, AllOnDisk
  <2> HIDE DEF w
  <2> QED
    BY <1>1, <1>2, <2>1, <2>2, <2>3 DEF Undisturbed
<1> QED
  BY <1>3, <1>4, <1>5 DEF SettingsInv

LEMMA ReadingRight ==
    /\ Reading \in Readers /\ Reading # Void
    /\ Reading.writer = Void /\ Reading.left = ConfigFiles
<1>1. Reading \in Readers
  BY EmptyRight, LeftRight DEF Reading, Readers
<1> QED
  BY <1>1, VoidRight DEF Reading

LEMMA SyncReadRight == ASSUME SettingsInv, SyncRead PROVE SettingsInv'
<1> DEFINE f == Head(syncing.left)
           got == [syncing.got EXCEPT ![f] = Read(f)]
<1>1. /\ SettingsTyped /\ syncing \in Readers /\ syncing # Void
      /\ syncing.writer = Void
      /\ UNCHANGED <<disk, saving, existing, mixed>>
      /\ up' = IF syncing' = Void THEN "on" ELSE up
  BY DEF SettingsInv, SettingsTyped, SyncRead
<1>2. /\ syncing.left \in Left /\ syncing.got \in Configurations
      /\ syncing.left = ConfigFiles \/ syncing.left = Two \/ syncing.left = One
  BY <1>1, LeftRight DEF Readers
<1>3. got \in Configurations
  <2>1. CASE syncing.left = ConfigFiles
    BY <1>1, <1>2, <2>1, LeftRight, ReadRight DEF Configurations
  <2>2. CASE syncing.left = Two
    BY <1>1, <1>2, <2>2, LeftRight, ReadRight DEF Configurations
  <2>3. CASE syncing.left = One
    BY <1>1, <1>2, <2>3, LeftRight, ReadRight DEF Configurations
  <2> QED
    BY <1>2, <2>1, <2>2, <2>3
<1>4. (up # "on" => saving = Void)'
  BY <1>1 DEF SettingsInv
<1>5. ASSUME ~mixed' PROVE saving = Void /\ ReadSoFar(syncing)
  BY <1>1, <1>5 DEF SettingsInv, Undisturbed
<1>6. CASE syncing.left # One
  <2>1. f # "default"
    BY <1>2, <1>6, LeftRight, Zenon
  <2>2. syncing' = [syncing EXCEPT !.got = got, !.left = Tail(@)]
    BY <2>1 DEF SyncRead
  <2>3. Tail(syncing.left) \in Left
    BY <1>2, <1>6, LeftRight, Zenon
  <2>4. /\ syncing' \in Readers /\ syncing'.got = got
        /\ syncing'.left = Tail(syncing.left) /\ syncing'.writer = Void
    <3> HIDE DEF got
    <3> QED
      BY <1>1, <1>3, <2>2, <2>3 DEF Readers
  <2>5. syncing' # Void
    BY <2>4, VoidRight
  <2>6. ReadSoFar(syncing) => ReadSoFar(syncing')
    <3>1. CASE syncing.left = ConfigFiles
      <4>1. got = [syncing.got EXCEPT !["providers"] = Read("providers")]
        BY <3>1, LeftRight
      <4> HIDE DEF got
      <4>2. got.providers = Read("providers")
        BY <1>2, <4>1 DEF Configurations
      <4> QED
        BY <2>4, <3>1, <4>2, LeftRight, Zenon DEF ReadSoFar
    <3>2. CASE syncing.left = Two
      <4>1. got = [syncing.got EXCEPT !["models"] = Read("models")]
        BY <3>2, LeftRight
      <4> HIDE DEF got
      <4>2. got.models = Read("models") /\ got.providers = syncing.got.providers
        BY <1>2, <4>1 DEF Configurations
      <4> QED
        BY <2>4, <3>2, <4>2, LeftRight, Zenon DEF ReadSoFar
    <3> QED
      BY <1>2, <1>6, <3>1, <3>2
  <2>7. ReadSoFar(syncing') => ReadSoFar(syncing)'
    BY <1>1 DEF ReadSoFar, Read
  <2>8. SettingsTyped'
    BY <1>1, <2>4 DEF SettingsTyped
  <2>9. ~mixed' => Undisturbed'
    BY <1>1, <1>5, <2>4, <2>5, <2>6, <2>7 DEF Undisturbed
  <2> QED
    BY <1>4, <2>8, <2>9 DEF SettingsInv
<1>7. CASE syncing.left = One
  <2>1. f = "default"
    BY <1>7, LeftRight, Zenon
  <2>2. syncing' = IF Kept(got) = got THEN Void
                   ELSE [syncing EXCEPT !.writer = Writer(Kept(got))]
    BY <2>1 DEF SyncRead
  <2>3. got = [syncing.got EXCEPT !["default"] = Read("default")]
    BY <2>1
  <2> HIDE DEF got, f
  <2>4. Kept(got) \in Configurations /\ Good(Kept(got))
    BY <1>3, KeptRight
  <2>5. CASE Kept(got) = got
    <3>1. syncing' = Void
      BY <2>2, <2>5
    <3>2. SettingsTyped'
      BY <1>1, <3>1 DEF SettingsTyped
    <3>3. ASSUME ~mixed' PROVE Good(Loaded)'
      <4>1. /\ got.default = Read("default") /\ got.models = syncing.got.models
            /\ got.providers = syncing.got.providers
        BY <1>2, <2>3 DEF Configurations
      <4>2. syncing.got.models = Read("models") /\ syncing.got.providers = Read("providers")
        BY <1>5, <1>7, <3>3, LeftRight, Zenon DEF ReadSoFar
      <4>3. Loaded' = Loaded
        BY <1>1 DEF Loaded, Read
      <4>4. /\ Loaded'.providers = got.providers /\ Loaded'.models = got.models
            /\ Loaded'.default = got.default
        BY <4>1, <4>2, <4>3 DEF Loaded
      <4> QED
        BY <2>4, <2>5, <4>4 DEF Good, Usable, On
    <3>4. ~mixed' => Undisturbed'
      BY <1>1, <1>5, <3>1, <3>3 DEF Undisturbed
    <3> QED
      BY <1>4, <3>2, <3>4 DEF SettingsInv
  <2>6. CASE Kept(got) # got
    <3> DEFINE w == Writer(Kept(got))
    <3>1. w \in Writers /\ w.config = Kept(got) /\ w.left = ConfigFiles
      BY <2>4, LeftRight DEF Writer, Writers
    <3> HIDE DEF w
    <3>2. w # Void
      BY <3>1, VoidRight
    <3>3. syncing' = [syncing EXCEPT !.writer = w]
      BY <2>2, <2>6 DEF w
    <3>4. syncing' \in Readers /\ syncing'.writer = w
      BY <1>1, <3>1, <3>3 DEF Readers
    <3>5. syncing' # Void
      BY <3>4, VoidRight
    <3>6. OnDisk(w, disk')
      BY <3>1, LeftRight, Zenon DEF OnDisk
    <3>7. SettingsTyped'
      BY <1>1, <3>4 DEF SettingsTyped
    <3>8. ~mixed' => Undisturbed'
      BY <1>1, <1>5, <2>4, <3>1, <3>2, <3>4, <3>5, <3>6 DEF Undisturbed
    <3> QED
      BY <1>4, <3>7, <3>8 DEF SettingsInv
  <2> QED
    BY <2>5, <2>6
<1> QED
  BY <1>6, <1>7

LEMMA ServiceRight ==
    ASSUME SettingsInv, Build \/ Die \/ StartUp PROVE SettingsInv'
<1>1. CASE Build
  BY <1>1, ReadingRight, LeftRight DEF Build, SettingsInv, SettingsTyped, Undisturbed, ReadSoFar
<1>2. CASE Die
  BY <1>2 DEF Die, SettingsInv, SettingsTyped, Undisturbed
<1>3. CASE StartUp
  BY <1>3, ReadingRight, LeftRight DEF StartUp, SettingsInv, SettingsTyped, Undisturbed, ReadSoFar
<1> QED
  BY <1>1, <1>2, <1>3

\* What changes neither the files nor who is at them.
LEMMA NoWriterRight ==
    ASSUME SettingsInv, UNCHANGED <<disk, saving, syncing, up, mixed>>,
           existing' \in {Void} \cup [provider : Providers, on : BOOLEAN]
    PROVE  SettingsInv'
<1>1. SettingsTyped'
  BY DEF SettingsInv, SettingsTyped
<1>2. Undisturbed => Undisturbed'
  BY DEF Undisturbed, OnDisk, ReadSoFar, Read, Loaded
<1> QED
  BY <1>1, <1>2 DEF SettingsInv

LEMMA UpdatesRight ==
    ASSUME SettingsInv, UpdateRefused \/ \E p \in Providers : BeginUpdate(p)
    PROVE  SettingsInv'
<1>1. CASE UpdateRefused
  BY <1>1, NoWriterRight DEF UpdateRefused
<1>2. ASSUME NEW p \in Providers, BeginUpdate(p) PROVE SettingsInv'
  <2>1. PICK D \in SUBSET Providers : Loaded.providers \in [D -> BOOLEAN]
    BY ConfigRight, Parts DEF SettingsInv, Maps
  <2>2. Loaded.providers[p] \in BOOLEAN
    BY <1>2, <2>1 DEF BeginUpdate
  <2> QED
    BY <1>2, <2>2, NoWriterRight DEF BeginUpdate
<1> QED
  BY <1>1, <1>2

LEMMA SettingsStepRight == SettingsInv /\ [SettingsNext]_settingsVars => SettingsInv'
<1> SUFFICES ASSUME SettingsInv, [SettingsNext]_settingsVars PROVE SettingsInv'
  OBVIOUS
<1>1. CASE UNCHANGED settingsVars
  <2>1. existing' \in {Void} \cup [provider : Providers, on : BOOLEAN]
    BY <1>1 DEF settingsVars, SettingsInv, SettingsTyped
  <2> QED
    BY <1>1, <2>1, NoWriterRight DEF settingsVars
<1>2. CASE SettingsNext
  BY <1>2, SaveStepRight, SyncWriteRight, SyncReadRight, ServiceRight, UpdatesRight,
     SettingsChangesRight DEF SettingsNext
<1> QED
  BY <1>1, <1>2

(***************************************************************************)
(* Whenever nobody is at the files the default selection is empty or the   *)
(* first model it names is on, under a provider that is on; also after a   *)
(* crash between or inside the writes, once the service has been built     *)
(* again, unless a save and the thread of another request overlapped since *)
(* the last start.  For any providers, models and numbers of changes       *)
(* (update_provider, delete_model, _sync_default_selection).               *)
(***************************************************************************)
THEOREM SelectionCorrect == SettingsSpec => []DefaultUsable
<1>1. SettingsInv => DefaultUsable
  BY DEF SettingsInv, Undisturbed, DefaultUsable, Good
<1>2. SettingsInv /\ [SettingsNext]_settingsVars => SettingsInv'
  BY SettingsStepRight
<1> QED
  BY <1>1, <1>2, SettingsInitRight, PTL DEF SettingsSpec
=============================================================================
