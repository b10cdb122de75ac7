--------------------------- MODULE Profiles_proofs ---------------------------
(***************************************************************************)
(* What a client that stays knows of the players it can see, proved for any *)
(* players, chunks, areas of interest, equipment and names.                 *)
(***************************************************************************)
EXTENDS Profiles, TLAPS

IInv == TypeOK /\ EquipmentIsCurrent /\ KnownNameIsCurrent

LEMMA InitImpliesIInv == Init => IInv
  BY DEF Init, IInv, TypeOK, EquipmentIsCurrent, KnownNameIsCurrent, Nothing, Online

(* The audience of a player's broadcast holds everybody that can see it,    *)
(* because the area of interest is symmetric.                               *)
LEMMA AudienceSees ==
    ASSUME TypeOK, NEW p \in Player, NEW c \in Chunk, NEW v \in Player \ {p},
           chunk[v] # NoChunk, c \in Near[chunk[v]]
    PROVE  v \in Audience(p, c)
  BY NearAssumption DEF TypeOK, Audience, Online

LEMMA HelloKeepsIInv ==
    ASSUME IInv, NEW p \in Player, NEW c \in Chunk, Hello(p, c)
    PROVE  IInv'
<1> DEFINE entry(q) == IF q \in Visible(c)
                       THEN [equipment |-> equipment[q], name |-> name[q]]
                       ELSE Nothing
<1>1. TypeOK
  BY DEF IInv
<1>2. /\ chunk[p] = NoChunk
      /\ chunk' = [chunk EXCEPT ![p] = c]
      /\ equipment' = [equipment EXCEPT ![p] = None]
      /\ name' = [name EXCEPT ![p] = None]
      /\ view' = [view EXCEPT ![p] = [q \in Player |-> entry(q)]]
      /\ settled' = settled \cup {p}
      /\ pose' = pose
  BY DEF Hello
<1>3. p \notin pose /\ p \notin settled /\ p \notin Visible(c)
  BY <1>1, <1>2 DEF TypeOK, Online, Visible
<1>4. \A q \in Player : entry(q) \in [equipment : Equipment \cup {None},
                                      name      : Name \cup {None}]
  BY <1>1 DEF TypeOK, Nothing
<1> HIDE DEF entry
<1>5. TypeOK'
  <2>1. Online' = Online \cup {p}
    BY <1>1, <1>2, NoneAssumption DEF Online, TypeOK
  <2> QED BY <1>1, <1>2, <1>4, <2>1 DEF TypeOK
<1>6. \A d \in Chunk : \A q \in Player : q \in Visible(d)' <=> q \in Visible(d)
  BY <1>1, <1>2, <1>3, NoneAssumption DEF TypeOK, Visible, Online
<1>7. ASSUME NEW v \in settled', NEW q \in (Visible(chunk[v])') \ {v}
      PROVE  /\ view'[v][q].equipment = equipment'[q]
             /\ view'[v][q].name \in {None, name'[q]}
  <2>1. v \in Player /\ q \in Player /\ q # p
    BY <1>2, <1>3, <1>5 DEF TypeOK, Online, Visible
  <2>2. CASE v = p
    <3>1. q \in Visible(c)
      BY <1>1, <1>2, <1>6, <2>1, <2>2 DEF TypeOK
    <3> QED BY <1>1, <1>2, <2>1, <2>2, <3>1 DEF entry, TypeOK
  <2>3. CASE v # p
    <3>1. v \in settled /\ chunk[v]' = chunk[v] /\ chunk[v] \in Chunk
      BY <1>1, <1>2, <2>1, <2>3 DEF TypeOK, Online
    <3>2. q \in Visible(chunk[v]) \ {v}
      BY <1>6, <2>1, <3>1
    <3>3. view'[v] = view[v] /\ equipment'[q] = equipment[q] /\ name'[q] = name[q]
      BY <1>1, <1>2, <2>1, <2>3 DEF TypeOK
    <3> QED BY <3>1, <3>2, <3>3 DEF IInv, EquipmentIsCurrent, KnownNameIsCurrent
  <2> QED BY <2>2, <2>3
<1> QED
  BY <1>5, <1>7 DEF IInv, EquipmentIsCurrent, KnownNameIsCurrent

(* Broadcasts of p change what others know of p alone, and only p's chunk,  *)
(* pose, equipment and name change: it is enough to look at those that see  *)
(* p after the step.                                                        *)
LEMMA OnlyThePublisherChanges ==
    ASSUME IInv, TypeOK', NEW p \in Player,
           \A q \in Player \ {p} :
               /\ chunk'[q] = chunk[q]
               /\ q \in pose' <=> q \in pose
               /\ equipment'[q] = equipment[q]
               /\ name'[q] = name[q],
           settled' \subseteq settled,
           p \in settled' => chunk'[p] = chunk[p],
           \A v \in Player : \A q \in Player \ {p} :
               v \in settled' => view'[v][q] = view[v][q],
           \A v \in settled \ {p} :
               p \in Visible(chunk[v])' =>
                   /\ view'[v][p].equipment = equipment'[p]
                   /\ view'[v][p].name \in {None, name'[p]}
    PROVE  IInv'
<1>1. TypeOK
  BY DEF IInv
<1>2. ASSUME NEW v \in settled', NEW q \in (Visible(chunk[v])') \ {v}
      PROVE  /\ view'[v][q].equipment = equipment'[q]
             /\ view'[v][q].name \in {None, name'[q]}
  <2>1. v \in settled /\ v \in Player /\ q \in Player /\ chunk'[v] = chunk[v]
    BY <1>1 DEF TypeOK, Online, Visible
  <2>2. CASE q = p
    BY <2>1, <2>2
  <2>3. CASE q # p
    <3>1. q \in Visible(chunk[v]) \ {v}
      BY <2>1, <2>3 DEF Visible, Online
    <3>2. view'[v][q] = view[v][q]
      BY <2>1, <2>3
    <3> QED BY <2>1, <2>3, <3>1, <3>2 DEF IInv, EquipmentIsCurrent, KnownNameIsCurrent
  <2> QED BY <2>2, <2>3
<1> QED
  BY <1>2 DEF IInv, EquipmentIsCurrent, KnownNameIsCurrent

LEMMA LeaveKeepsIInv ==
    ASSUME IInv, NEW p \in Player, Leave(p)
    PROVE  IInv'
<1> DEFINE informed == Informed(Audience(p, chunk[p]), p, Nothing)
<1>1. TypeOK
  BY DEF IInv
<1>2. /\ chunk' = [chunk EXCEPT ![p] = NoChunk]
      /\ view' = [informed EXCEPT ![p] = [q \in Player |-> Nothing]]
      /\ pose' = pose \ {p} /\ settled' = settled \ {p}
      /\ equipment' = equipment /\ name' = name
  BY DEF Leave
<1>3. Nothing \in [equipment : Equipment \cup {None}, name : Name \cup {None}]
  BY DEF Nothing
<1>4. informed \in [Player -> [Player -> [equipment : Equipment \cup {None},
                                          name      : Name \cup {None}]]]
  BY <1>1, <1>3 DEF TypeOK, Informed
<1>5. \A v \in Player : \A q \in Player \ {p} : informed[v][q] = view[v][q]
  BY <1>1 DEF TypeOK, Informed
<1> HIDE DEF informed
<1>6. TypeOK'
  <2>1. Online' = Online \ {p}
    BY <1>1, <1>2 DEF Online, TypeOK
  <2> QED BY <1>1, <1>2, <1>3, <1>4, <2>1 DEF TypeOK
<1>7. \A v \in Player : \A q \in Player \ {p} :
          v \in settled' => view'[v][q] = view[v][q]
  BY <1>2, <1>4, <1>5
<1>8. \A v \in settled \ {p} : ~(p \in Visible(chunk[v])')
  BY <1>2 DEF Visible
<1>9. \A q \in Player \ {p} :
          /\ chunk'[q] = chunk[q]
          /\ q \in pose' <=> q \in pose
          /\ equipment'[q] = equipment[q]
          /\ name'[q] = name[q]
  BY <1>1, <1>2 DEF TypeOK
<1>10. settled' \subseteq settled /\ p \notin settled'
  BY <1>2
<1> QED
  BY <1>6, <1>7, <1>8, <1>9, <1>10, OnlyThePublisherChanges

LEMMA MoveKeepsIInv ==
    ASSUME IInv, NEW p \in Player, NEW c \in Chunk, Move(p, c)
    PROVE  IInv'
<1> DEFINE changed == c # chunk[p]
           first   == p \notin pose
           left    == IF changed /\ ~first THEN Audience(p, chunk[p]) ELSE {}
           joined  == IF changed \/ first THEN Audience(p, c) ELSE {}
<1>1. TypeOK
  BY DEF IInv
<1>2. /\ chunk[p] # NoChunk
      /\ view' = [v \in Player |->
                     IF v \in joined THEN [view[v] EXCEPT ![p] = EntryAtJoin(p, c)]
                     ELSE IF v \in left THEN [view[v] EXCEPT ![p] = Nothing]
                     ELSE view[v]]
      /\ chunk' = [chunk EXCEPT ![p] = c]
      /\ pose' = pose \cup {p}
      /\ settled' = IF changed THEN settled \ {p} ELSE settled
      /\ equipment' = equipment /\ name' = name
  BY DEF Move
<1>3. /\ Nothing \in [equipment : Equipment \cup {None}, name : Name \cup {None}]
      /\ EntryAtJoin(p, c) \in [equipment : Equipment \cup {None}, name : Name \cup {None}]
      /\ EntryAtJoin(p, c).equipment = equipment[p]
      /\ EntryAtJoin(p, c).name = None
  BY <1>1 DEF TypeOK, Nothing, EntryAtJoin
<1>4. TypeOK'
  <2>1. Online' = Online
    BY <1>1, <1>2, NoneAssumption DEF Online, TypeOK
  <2>2. p \in Online
    BY <1>2 DEF Online
  <2>3. view' \in [Player -> [Player -> [equipment : Equipment \cup {None},
                                         name      : Name \cup {None}]]]
    <3> HIDE DEF left, joined
    <3> QED BY <1>1, <1>2, <1>3 DEF TypeOK
  <2> QED BY <1>1, <1>2, <2>1, <2>2, <2>3 DEF TypeOK
<1>5. \A v \in Player : \A q \in Player \ {p} : view'[v][q] = view[v][q]
  <2> HIDE DEF left, joined
  <2> QED BY <1>1, <1>2 DEF TypeOK
<1>6. ASSUME NEW v \in settled \ {p}, p \in Visible(chunk[v])'
      PROVE  /\ view'[v][p].equipment = equipment'[p]
             /\ view'[v][p].name \in {None, name'[p]}
  <2>1. /\ v \in Player /\ chunk[v] # NoChunk /\ chunk[v] \in Chunk
        /\ chunk'[v] = chunk[v] /\ chunk'[p] = c
    BY <1>1, <1>2 DEF TypeOK, Online
  <2>2. c \in Near[chunk[v]]
    BY <1>6, <2>1 DEF Visible
  <2>3. v \in Audience(p, c)
    BY <1>1, <2>1, <2>2, AudienceSees
  <2>4. CASE changed \/ first
    <3>1. v \in joined
      BY <2>3, <2>4
    <3>2. view'[v][p] = EntryAtJoin(p, c)
      <4> HIDE DEF left, joined
      <4> QED BY <1>1, <1>2, <2>1, <3>1 DEF TypeOK
    <3> QED BY <1>2, <1>3, <3>2
  <2>5. CASE ~(changed \/ first)
    <3>1. v \notin joined /\ v \notin left /\ chunk[p] = c /\ p \in pose
      BY <2>5
    <3>2. view'[v] = view[v]
      <4> HIDE DEF left, joined
      <4> QED BY <1>2, <2>1, <3>1
    <3>3. p \in Visible(chunk[v]) \ {v}
      BY <1>2, <2>2, <3>1 DEF Visible, Online
    <3> QED BY <1>2, <3>2, <3>3 DEF IInv, EquipmentIsCurrent, KnownNameIsCurrent
  <2> QED BY <2>4, <2>5
<1>7. \A q \in Player \ {p} :
          /\ chunk'[q] = chunk[q]
          /\ q \in pose' <=> q \in pose
          /\ equipment'[q] = equipment[q]
          /\ name'[q] = name[q]
  BY <1>1, <1>2 DEF TypeOK
<1>8. settled' \subseteq settled /\ (p \in settled' => chunk'[p] = chunk[p])
  BY <1>1, <1>2 DEF TypeOK
<1> QED
  <2> HIDE DEF changed, first, left, joined
  <2> QED BY <1>4, <1>5, <1>6, <1>7, <1>8, OnlyThePublisherChanges

LEMMA EquipKeepsIInv ==
    ASSUME IInv, NEW p \in Player, NEW e \in Equipment, Equip(p, e)
    PROVE  IInv'
<1>1. TypeOK
  BY DEF IInv
<1>2. /\ chunk[p] # NoChunk
      /\ equipment' = [equipment EXCEPT ![p] = e]
      /\ view' = [v \in Player |-> IF v \in Audience(p, chunk[p])
                                   THEN [view[v] EXCEPT ![p].equipment = e]
                                   ELSE view[v]]
      /\ chunk' = chunk /\ pose' = pose /\ name' = name /\ settled' = settled
  BY DEF Equip
<1>3. TypeOK'
  <2>1. Online' = Online
    BY <1>2 DEF Online
  <2>2. ASSUME NEW v \in Player
        PROVE  [view[v] EXCEPT ![p].equipment = e]
                   \in [Player -> [equipment : Equipment \cup {None},
                                   name      : Name \cup {None}]]
    <3>1. view[v] \in [Player -> [equipment : Equipment \cup {None},
                                  name      : Name \cup {None}]]
      BY <1>1 DEF TypeOK
    <3>2. [view[v][p] EXCEPT !.equipment = e]
              \in [equipment : Equipment \cup {None}, name : Name \cup {None}]
      BY <3>1
    <3> QED BY <3>1, <3>2
  <2> QED BY <1>1, <1>2, <2>1, <2>2 DEF TypeOK
<1>4. \A v \in Player : \A q \in Player \ {p} : view'[v][q] = view[v][q]
  BY <1>1, <1>2 DEF TypeOK
<1>5. ASSUME NEW v \in settled \ {p}, p \in Visible(chunk[v])'
      PROVE  /\ view'[v][p].equipment = equipment'[p]
             /\ view'[v][p].name \in {None, name'[p]}
  <2>1. v \in Player \ {p} /\ chunk[v] # NoChunk
    BY <1>1 DEF TypeOK, Online
  <2>5. p \in Visible(chunk[v]) \ {v}
    BY <1>2, <1>5, <2>1 DEF Visible, Online
  <2>2. v \in Audience(p, chunk[p])
    <3>1. chunk[p] \in Chunk /\ chunk[p] \in Near[chunk[v]]
      BY <1>1, <1>2, <2>5 DEF TypeOK, Visible
    <3> QED BY <1>1, <2>1, <3>1, AudienceSees
  <2>3. view'[v][p] = [view[v][p] EXCEPT !.equipment = e]
    BY <1>1, <1>2, <2>1, <2>2 DEF TypeOK
  <2>4. view[v][p].name \in {None, name[p]}
    BY <2>5 DEF IInv, KnownNameIsCurrent
  <2> QED BY <1>1, <1>2, <2>1, <2>3, <2>4 DEF TypeOK
<1>6. \A q \in Player \ {p} : equipment'[q] = equipment[q]
  BY <1>1, <1>2 DEF TypeOK
<1> QED
  BY <1>2, <1>3, <1>4, <1>5, <1>6, OnlyThePublisherChanges

LEMMA RenameKeepsIInv ==
    ASSUME IInv, NEW p \in Player, NEW n \in Name, Rename(p, n)
    PROVE  IInv'
<1>1. TypeOK
  BY DEF IInv
<1>2. /\ chunk[p] # NoChunk
      /\ name' = [name EXCEPT ![p] = n]
      /\ view' = [v \in Player |-> IF v \in Audience(p, chunk[p])
                                   THEN [view[v] EXCEPT ![p].name = n]
                                   ELSE view[v]]
      /\ chunk' = chunk /\ pose' = pose /\ equipment' = equipment /\ settled' = settled
  BY DEF Rename, IdentityEvent
<1>3. TypeOK'
  <2>1. Online' = Online
    BY <1>2 DEF Online
  <2>2. ASSUME NEW v \in Player
        PROVE  [view[v] EXCEPT ![p].name = n]
                   \in [Player -> [equipment : Equipment \cup {None},
                                   name      : Name \cup {None}]]
    <3>1. view[v] \in [Player -> [equipment : Equipment \cup {None},
                                  name      : Name \cup {None}]]
      BY <1>1 DEF TypeOK
    <3>2. [view[v][p] EXCEPT !.name = n]
              \in [equipment : Equipment \cup {None}, name : Name \cup {None}]
      BY <3>1
    <3> QED BY <3>1, <3>2
  <2> QED BY <1>1, <1>2, <2>1, <2>2 DEF TypeOK
<1>4. \A v \in Player : \A q \in Player \ {p} : view'[v][q] = view[v][q]
  BY <1>1, <1>2 DEF TypeOK
<1>5. ASSUME NEW v \in settled \ {p}, p \in Visible(chunk[v])'
      PROVE  /\ view'[v][p].equipment = equipment'[p]
             /\ view'[v][p].name \in {None, name'[p]}
  <2>1. v \in Player \ {p} /\ chunk[v] # NoChunk
    BY <1>1 DEF TypeOK, Online
  <2>5. p \in Visible(chunk[v]) \ {v}
    BY <1>2, <1>5, <2>1 DEF Visible, Online
  <2>2. v \in Audience(p, chunk[p])
    <3>1. chunk[p] \in Chunk /\ chunk[p] \in Near[chunk[v]]
      BY <1>1, <1>2, <2>5 DEF TypeOK, Visible
    <3> QED BY <1>1, <2>1, <3>1, AudienceSees
  <2>3. view'[v][p] = [view[v][p] EXCEPT !.name = n]
    BY <1>1, <1>2, <2>1, <2>2 DEF TypeOK
  <2>4. view[v][p].equipment = equipment[p]
    BY <2>5 DEF IInv, EquipmentIsCurrent
  <2>6. view[v][p] \in [equipment : Equipment \cup {None}, name : Name \cup {None}]
    BY <2>1 DEF IInv, TypeOK
  <2>7. /\ view'[v][p].equipment = view[v][p].equipment
        /\ view'[v][p].name = n
    BY <2>3, <2>6
  <2>8. equipment'[p] = equipment[p] /\ name'[p] = n
    <3>1. name \in [Player -> Name \cup {None}]
      BY <1>1 DEF TypeOK
    <3> QED BY <1>2, <3>1
  <2>9. view'[v][p].name = name'[p]
    BY <2>7, <2>8, Zenon
  <2> QED BY <2>4, <2>7, <2>8, <2>9
<1>6. \A q \in Player \ {p} : name'[q] = name[q]
  BY <1>1, <1>2 DEF TypeOK
<1>7. \A q \in Player \ {p} :
          /\ chunk'[q] = chunk[q]
          /\ q \in pose' <=> q \in pose
          /\ equipment'[q] = equipment[q]
          /\ name'[q] = name[q]
  BY <1>2, <1>6
<1>8. settled' \subseteq settled /\ chunk'[p] = chunk[p]
  BY <1>2
<1>9. \A v \in Player : \A q \in Player \ {p} :
          v \in settled' => view'[v][q] = view[v][q]
  BY <1>4
<1>10. \A v \in settled \ {p} :
          p \in Visible(chunk[v])' =>
              /\ view'[v][p].equipment = equipment'[p]
              /\ view'[v][p].name \in {None, name'[p]}
  BY <1>5
<1> QED
  BY <1>3, <1>7, <1>8, <1>9, <1>10, OnlyThePublisherChanges

LEMMA IInvInductive == IInv /\ [Next]_vars => IInv'
<1> SUFFICES ASSUME IInv, [Next]_vars PROVE IInv'
  OBVIOUS
<1>1. CASE UNCHANGED vars
  BY <1>1 DEF vars, IInv, TypeOK, EquipmentIsCurrent, KnownNameIsCurrent, Visible, Online
<1>2. CASE Next
  BY <1>2, HelloKeepsIInv, LeaveKeepsIInv, MoveKeepsIInv, EquipKeepsIInv,
     RenameKeepsIInv DEF Next
<1> QED
  BY <1>1, <1>2

(* The views of the clients are made of equipment and names that exist.     *)
THEOREM TypeCorrect == Spec => []TypeOK
<1>1. IInv => TypeOK
  BY DEF IInv
<1> QED
  BY InitImpliesIInv, IInvInductive, <1>1, PTL DEF Spec

(* A client that stays knows what everyone it can see is wearing: events,   *)
(* snapshots and the copies sent at chunk changes and at the first MOVE     *)
(* leave no gap.                                                            *)
THEOREM EquipmentAlwaysCurrent == Spec => []EquipmentIsCurrent
<1>1. IInv => EquipmentIsCurrent
  BY DEF IInv
<1> QED
  BY InitImpliesIInv, IInvInductive, <1>1, PTL DEF Spec

(* ... and never knows any of them by an old name. *)
THEOREM KnownNameAlwaysCurrent == Spec => []KnownNameIsCurrent
<1>1. IInv => KnownNameIsCurrent
  BY DEF IInv
<1> QED
  BY InitImpliesIInv, IInvInductive, <1>1, PTL DEF Spec

=============================================================================
