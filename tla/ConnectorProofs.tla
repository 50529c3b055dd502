--------------------------- MODULE ConnectorProofs ---------------------------
(***************************************************************************)
(* When no system has a dot in its name and no two connectors share a      *)
(* source_ref, an item id stands for one thing of one source and is read   *)
(* back as that thing: then what a ledger makes a run skip is in the       *)
(* graph, and every column of the graph was in a source.                   *)
(***************************************************************************)
EXTENDS Connector, SequenceTheorems, TLAPS

DotFree == \A system \in System : Len(system) = 1
RefsDiffer == \A s, t \in Source : RefOf[s] = RefOf[t] => s = t

\* A sequence of one part, joined to another one, is its head.
LEMMA FirstPart ==
    ASSUME NEW a \in Seq(Part), Len(a) = 1, NEW b \in Seq(Part)
    PROVE  <<Head(a \o b)>> = a /\ Tail(a \o b) = b
<1>1. /\ a \o b \in Seq(Part)
      /\ Len(a \o b) = 1 + Len(b)
      /\ \A i \in 1..(1 + Len(b)) : (a \o b)[i] = IF i <= 1 THEN a[i] ELSE b[i - 1]
  <2>1. /\ a \o b \in Seq(Part)
        /\ Len(a \o b) = Len(a) + Len(b)
        /\ \A i \in 1..(Len(a) + Len(b)) :
             (a \o b)[i] = IF i <= Len(a) THEN a[i] ELSE b[i - Len(a)]
    BY ConcatProperties, Zenon
  <2>2. QED BY <2>1
<1>2. Len(b) \in Nat /\ a \o b # << >>
  BY <1>1, LenProperties, EmptySeq
<1>3. Head(a \o b) = a[1]
  BY <1>1, <1>2, HeadTailProperties
<1>4. Tail(a \o b) = b
  <2>1. /\ Tail(a \o b) \in Seq(Part)
        /\ Len(Tail(a \o b)) = Len(b)
        /\ \A i \in 1..Len(b) : Tail(a \o b)[i] = (a \o b)[i + 1]
    BY <1>1, <1>2, HeadTailProperties
  <2>2. \A i \in 1..Len(b) : Tail(a \o b)[i] = b[i]
    BY <1>1, <1>2, <2>1
  <2>3. QED BY <2>1, <2>2, SeqEqual
<1>5. <<a[1]>> = a
  OBVIOUS
<1>6. QED BY <1>3, <1>4, <1>5

\* Splitting the id of a table gives back its system and its name.
LEMMA SplitId ==
    ASSUME DotFree, NEW x \in Table
    PROVE  /\ Ref(ItemId(x)) = x.system \o x.table
           /\ SystemIn(Ref(ItemId(x))) = x.system
           /\ TableIn(Ref(ItemId(x))) = x.table
           /\ ItemId(x)[1] = "rows"
<1>1. /\ x.system \in Seq(Part) /\ Len(x.system) = 1
      /\ x.table \in Seq(Part)
      /\ x.artifact_type = "rows"
  BY ConnectorAssumption DEF Table, DotFree
<1>2. /\ <<"rows">> \in Seq(Part) /\ Len(<<"rows">>) = 1
      /\ x.system \o x.table \in Seq(Part)
  <2>1. "rows" \in Part
    BY ConnectorAssumption DEF ArtifactType
  <2>2. <<"rows">> \in Seq(Part) /\ Len(<<"rows">>) = 1
    BY <2>1
  <2>3. QED BY <1>1, <2>2, ConcatProperties
<1>3. ItemId(x) = <<"rows">> \o (x.system \o x.table)
  <2>1. ItemId(x) = (<<"rows">> \o x.system) \o x.table
    BY <1>1 DEF ItemId
  <2>2. \A u, v, w \in Seq(Part) : (u \o v) \o w = u \o (v \o w)
    BY ConcatAssociative
  <2>3. QED BY <1>1, <1>2, <2>1, <2>2
<1>4. Tail(ItemId(x)) = x.system \o x.table
  BY <1>2, <1>3, FirstPart
<1>5. ItemId(x)[1] = "rows"
  BY <1>2, <1>3, ConcatProperties, LenProperties
<1>6. <<Head(x.system \o x.table)>> = x.system /\ Tail(x.system \o x.table) = x.table
  BY <1>1, FirstPart
<1>7. QED BY <1>4, <1>5, <1>6 DEF Ref, SystemIn, TableIn

\* So an id belongs to one thing, ...
LEMMA IdsDiffer ==
    ASSUME DotFree, NEW x \in Thing, NEW y \in Thing, ItemId(x) = ItemId(y)
    PROVE  x = y
<1>1. \A z \in Prose : ItemId(z) = <<"prose", z.uri>> /\ z.artifact_type = "prose"
  BY DEF Prose, ItemId
<1>2. CASE x \in Table /\ y \in Table
  <2>1. x.system = y.system /\ x.table = y.table
    BY <1>2, SplitId
  <2>2. QED BY <1>2, <2>1 DEF Table
<1>3. CASE x \in Prose /\ y \in Prose
  BY <1>1, <1>3 DEF Prose
<1>4. CASE (x \in Table /\ y \in Prose) \/ (x \in Prose /\ y \in Table)
  <2>1. \A z \in Table : ItemId(z)[1] = "rows"
    BY SplitId
  <2>2. \A z \in Prose : ItemId(z)[1] = "prose"
    BY <1>1
  <2>3. QED BY <1>4, <2>1, <2>2
<1>5. QED BY <1>2, <1>3, <1>4 DEF Thing

\* ... and a parser attributes what it finds to the thing that was fetched.
LEMMA ParsedAsItself ==
    ASSUME DotFree, NEW x \in Thing, NEW payload
    PROVE  NodesIn(x.artifact_type, ItemId(x), payload) = OwnNodes(x, payload)
<1>1. CASE x \in Table
  <2>1. x.artifact_type = "rows"
    BY <1>1 DEF Table
  <2>2. QED BY <1>1, <2>1, SplitId DEF NodesIn, RowsNodes, OwnNodes
<1>2. CASE x \in Prose
  <2>1. x.artifact_type = "prose" /\ x \notin Table /\ x.uri \in Part
    BY <1>2, ConnectorAssumption DEF Prose, Table
  <2>2. Ref(ItemId(x))[1] = x.uri
    BY <2>1 DEF ItemId, Ref
  <2>3. QED BY <1>2, <2>1, <2>2 DEF NodesIn, OwnNodes
<1>3. QED BY <1>1, <1>2 DEF Thing

(***************************************************************************)
(* The invariant.  A run knows what it fetched and, while it loads, has    *)
(* each node of it still to write or in the graph, and no column of a      *)
(* version its consumer does not understand.                               *)
(***************************************************************************)
Underway(s) ==
    /\ pc[s] \in {"parse", "load"} => fetched[s][item[s]] # Absent
    /\ pc[s] = "load" =>
         /\ bundle[s] \subseteq OwnNodes(item[s], fetched[s][item[s]])
         /\ \A n \in OwnNodes(item[s], fetched[s][item[s]]) : n \in bundle[s] \/ n \in graph
         /\ \A n \in bundle[s] : n[1] = "Column" => Understood(s)

ColumnsRemembered ==
    \A s \in Source, x \in Thing :
        ColumnsOf(x, content[s][x]) \cup ColumnsOf(x, fetched[s][x]) \subseteq seen[s]

Inv == /\ TypeOK
       /\ \A s \in Source : Underway(s)
       /\ ColumnsRemembered
       /\ SkippedIsHeld
       /\ ColumnsWereSeen

\* The columns among the nodes a thing stands for are the columns it showed.
LEMMA OwnColumns ==
    ASSUME NEW x \in Thing, NEW payload, payload # Absent,
           NEW n \in OwnNodes(x, payload), n[1] = "Column"
    PROVE  n[2] \in ColumnsOf(x, payload)
<1>1. CASE x \in Table
  <2>1. \A r : EntityNode(r)[1] = "Entity"
    BY DEF EntityNode
  <2>2. PICK c \in ColumnNames(payload) : n = ColumnNode(x.system, x.table, c)
    BY <1>1, <2>1 DEF OwnNodes
  <2>3. QED BY <1>1, <2>2 DEF ColumnsOf, ColumnNode
<1>2. CASE x \notin Table
  BY <1>2 DEF OwnNodes, DocumentNode
<1>3. QED BY <1>1, <1>2

\* Every source starts idle, with nothing fetched, skipped or written.
LEMMA InvInit == Init => Inv
<1>1. ASSUME Init PROVE Inv
  <2>1. (CHOOSE x \in Thing : TRUE) \in Thing
    BY ConnectorAssumption
  <2>2. FirstContent \in [Source -> Held] /\ MaxChanges \in Nat /\ MaxFailures \in Nat
    BY ConnectorAssumption
  <2>3. /\ content \in [Source -> Held] /\ fetched \in [Source -> Held]
        /\ item \in [Source -> Thing]
    BY <1>1, <2>1, <2>2 DEF Init, Held
  <2>4. TypeOK
    BY <1>1, <2>2, <2>3 DEF Init, TypeOK
  <2>5. \A s \in Source : Underway(s)
    BY <1>1 DEF Init, Underway
  <2>6. ColumnsRemembered
    <3>1. \A s \in Source, x \in Thing : ColumnsOf(x, content[s][x]) \subseteq seen[s]
      BY <1>1 DEF Init
    <3>2. \A x \in Thing : ColumnsOf(x, Absent) = {}
      BY DEF ColumnsOf
    <3>3. \A s \in Source, x \in Thing : fetched[s][x] = Absent
      BY <1>1 DEF Init
    <3>4. QED BY <3>1, <3>2, <3>3 DEF ColumnsRemembered
  <2>7. SkippedIsHeld /\ ColumnsWereSeen
    BY <1>1 DEF Init, SkippedIsHeld, ColumnsWereSeen
  <2>8. QED BY <2>4, <2>5, <2>6, <2>7 DEF Inv
<1>2. QED BY <1>1

\* What a source offers is what it holds.
LEMMA OfferedThings ==
    ASSUME NEW s \in Source, NEW type
    PROVE  Offered(s, type) \subseteq Thing
BY DEF Offered

\* Every action keeps the types.
LEMMA TypeNext ==
    ASSUME TypeOK, [Next]_vars
    PROVE  TypeOK'
<1> USE DEF TypeOK
<1>1. CASE UNCHANGED vars
  BY <1>1 DEF vars, Key
<1>2. ASSUME NEW s \in Source, Start(s) PROVE TypeOK'
  BY <1>2, OfferedThings DEF Start, At, Goto, Key
<1>3. ASSUME NEW s \in Source, ListDocuments(s) PROVE TypeOK'
  BY <1>3, OfferedThings DEF ListDocuments, At, Goto, Key
<1>4. ASSUME NEW s \in Source, Skip(s) PROVE TypeOK'
  BY <1>4 DEF Skip, At, Goto, Key
<1>5. ASSUME NEW s \in Source, Fetch(s) PROVE TypeOK'
  <2>1. PICK x \in todo[s] :
          /\ content[s][x] # Absent
          /\ item' = [item EXCEPT ![s] = x]
          /\ fetched' = [fetched EXCEPT ![s][x] = content[s][x]]
    BY <1>5 DEF Fetch
  <2>2. x \in Thing /\ content[s][x] \in Rows \cup {<<>>, Absent}
    BY DEF Held
  <2>3. fetched' \in [Source -> Held]
    BY <2>1, <2>2 DEF Held
  <2>4. QED BY <1>5, <2>1, <2>2, <2>3 DEF Fetch, At, Goto, Key
<1>6. ASSUME NEW s \in Source, Abandon(s), failures' \in 0..MaxFailures PROVE TypeOK'
  BY <1>6 DEF Abandon, Goto, Key
<1>7. ASSUME NEW s \in Source, Parse(s) PROVE TypeOK'
  BY <1>7 DEF Parse, At, Goto, Key
<1>8. ASSUME NEW s \in Source, Load(s) PROVE TypeOK'
  BY <1>8 DEF Load, At, Goto, Key
<1>9. ASSUME NEW s \in Source, MarkDone(s) PROVE TypeOK'
  <2>1. Key(s, item[s]) \in {Key(t, x) : t \in Source, x \in Thing}
    OBVIOUS
  <2>2. ledger' \subseteq {Key(t, x) : t \in Source, x \in Thing}
    BY <1>9, <2>1 DEF MarkDone
  <2>3. {Key(t, x) : t \in Source, x \in Thing}' = {Key(t, x) : t \in Source, x \in Thing}
    BY DEF Key
  <2>4. QED BY <1>9, <2>2, <2>3 DEF MarkDone, At, Goto
<1>10. ASSUME NEW s \in Source, Finish(s) PROVE TypeOK'
  BY <1>10 DEF Finish, At, Goto, Key
<1>11. ASSUME NEW s \in Source, Change(s) PROVE TypeOK'
  <2>1. PICK x \in Thing :
          \E payload \in Payload(x) \cup {Absent} :
             content' = [content EXCEPT ![s][x] = payload]
    BY <1>11 DEF Change
  <2>2. PICK payload \in Rows \cup {<<>>, Absent} :
          content' = [content EXCEPT ![s][x] = payload]
    BY <2>1 DEF Payload
  <2>3. content' \in [Source -> Held]
    BY <2>2 DEF Held
  <2>4. QED BY <1>11, <2>3, ConnectorAssumption DEF Change, Key
<1>12. QED
  BY <1>1, <1>2, <1>3, <1>4, <1>5, <1>6, <1>7, <1>8, <1>9, <1>10, <1>11, ConnectorAssumption
  DEF Next, Step, Fail, FetchMissing, RejectArtifact

(***************************************************************************)
(* The steps that touch neither the ledger nor what was fetched.           *)
(***************************************************************************)
\* What is held stays held.
LEMMA HeldFrame ==
    ASSUME SkippedIsHeld, UNCHANGED <<ledger, fetched>>, graph \subseteq graph'
    PROVE  SkippedIsHeld'
<1>1. ASSUME NEW s \in Source, NEW x \in Thing, Key(s, x) \in ledger'
      PROVE  /\ fetched'[s][x] # Absent
             /\ \A n \in OwnNodes(x, fetched'[s][x]) : n \in graph'
  <2>1. Key(s, x) \in ledger
    BY <1>1
  <2>2. /\ fetched[s][x] # Absent
        /\ \A n \in OwnNodes(x, fetched[s][x]) : n \in graph
    BY <2>1 DEF SkippedIsHeld
  <2>3. QED BY <2>2
<1>2. QED BY <1>1 DEF SkippedIsHeld, Key

\* A run whose own state did not change is where it was.
LEMMA UnderwayFrame ==
    ASSUME NEW s \in Source, Underway(s), graph \subseteq graph',
           pc'[s] = pc[s], item'[s] = item[s], fetched'[s] = fetched[s],
           bundle'[s] = bundle[s]
    PROVE  Underway(s)'
<1>1. ASSUME NEW n \in OwnNodes(item[s], fetched[s][item[s]]), pc[s] = "load"
      PROVE  n \in bundle'[s] \/ n \in graph'
  <2>1. n \in bundle[s] \/ n \in graph
    BY <1>1 DEF Underway
  <2>2. QED BY <2>1
<1>2. QED BY <1>1 DEF Underway, Understood

\* Nor is anything about the graph disturbed by a step that does not write it.
LEMMA QuietFrame ==
    ASSUME ColumnsWereSeen, UNCHANGED graph, \A s \in Source : seen[s] \subseteq seen'[s]
    PROVE  ColumnsWereSeen'
BY DEF ColumnsWereSeen, Understood

\* Steps that neither fetch, load nor mark.
QuietStep(s) ==
    \/ Start(s) \/ ListDocuments(s) \/ Skip(s) \/ Finish(s)
    \/ FetchMissing(s) \/ RejectArtifact(s) \/ Fail(s)

LEMMA QuietNext ==
    ASSUME Inv, NEW s \in Source, QuietStep(s)
    PROVE  /\ \A t \in Source : Underway(t)'
           /\ ColumnsRemembered' /\ SkippedIsHeld' /\ ColumnsWereSeen'
<1>1. /\ UNCHANGED <<content, seen, item, fetched, ledger, graph>>
      /\ pc'[s] \notin {"parse", "load"}
      /\ \A t \in Source : t # s => pc'[t] = pc[t] /\ bundle'[t] = bundle[t]
  <2>1. DOMAIN pc = Source /\ DOMAIN bundle = Source
    BY DEF Inv, TypeOK
  <2>2. Start(s) \/ FetchMissing(s) \/ RejectArtifact(s) \/ Fail(s) \/ Finish(s) =>
          pc'[s] \in {"idle", "run"}
    BY <2>1 DEF Start, FetchMissing, RejectArtifact, Fail, Finish, Abandon, Goto
  <2>3. ListDocuments(s) \/ Skip(s) => pc'[s] = "run"
    BY DEF ListDocuments, Skip, At
  <2>4. QED
    BY <2>1, <2>2, <2>3 DEF QuietStep, Start, ListDocuments, Skip, Finish, FetchMissing,
       RejectArtifact, Fail, Abandon, Goto
<1>2. Underway(s)'
  BY <1>1 DEF Underway
<1>3. ASSUME NEW t \in Source, t # s PROVE Underway(t)'
  BY <1>1, <1>3, UnderwayFrame DEF Inv
<1>4. ColumnsRemembered'
  BY <1>1 DEF Inv, ColumnsRemembered, ColumnsOf
<1>5. QED BY <1>1, <1>2, <1>3, <1>4, HeldFrame, QuietFrame DEF Inv

(***************************************************************************)
(* The steps of an item.                                                   *)
(***************************************************************************)
\* Only what no ledger names is fetched.
LEMMA FetchNext ==
    ASSUME Inv, NEW s \in Source, Fetch(s)
    PROVE  /\ \A t \in Source : Underway(t)'
           /\ ColumnsRemembered' /\ SkippedIsHeld' /\ ColumnsWereSeen'
<1>1. PICK x \in todo[s] : /\ Key(s, x) \notin ledger
                           /\ content[s][x] # Absent
                           /\ item' = [item EXCEPT ![s] = x]
                           /\ fetched' = [fetched EXCEPT ![s][x] = content[s][x]]
  BY DEF Fetch
<1>2. /\ UNCHANGED <<content, seen, bundle, ledger, graph>>
      /\ pc' = [pc EXCEPT ![s] = "parse"]
      /\ x \in Thing
      /\ fetched \in [Source -> Held] /\ item \in [Source -> Thing] /\ DOMAIN pc = Source
  BY DEF Fetch, Goto, Inv, TypeOK
<1>3. /\ fetched'[s][x] = content[s][x]
      /\ \A t \in Source, y \in Thing : t # s \/ y # x => fetched'[t][y] = fetched[t][y]
      /\ \A t \in Source : t # s => fetched'[t] = fetched[t]
  BY <1>1, <1>2 DEF Held
<1>4. Underway(s)'
  BY <1>1, <1>2, <1>3 DEF Underway
<1>5. ASSUME NEW t \in Source, t # s PROVE Underway(t)'
  BY <1>1, <1>2, <1>3, <1>5, UnderwayFrame DEF Inv
<1>6. ColumnsRemembered'
  <2>1. ASSUME NEW t \in Source, NEW y \in Thing
        PROVE  ColumnsOf(y, content[t][y]) \cup ColumnsOf(y, fetched'[t][y]) \subseteq seen[t]
    <3>1. ColumnsOf(y, content[t][y]) \cup ColumnsOf(y, fetched[t][y]) \subseteq seen[t]
      BY DEF Inv, ColumnsRemembered
    <3>2. CASE t = s /\ y = x
      BY <1>3, <3>1, <3>2
    <3>3. CASE t # s \/ y # x
      BY <1>3, <3>1, <3>3
    <3>4. QED BY <3>2, <3>3
  <2>2. QED BY <1>2, <2>1 DEF ColumnsRemembered, ColumnsOf
<1>7. SkippedIsHeld'
  <2>1. ASSUME NEW t \in Source, NEW y \in Thing, Key(t, y) \in ledger
        PROVE  /\ fetched'[t][y] # Absent
               /\ \A n \in OwnNodes(y, fetched'[t][y]) : n \in graph
    <3>1. t # s \/ y # x
      BY <1>1, <2>1
    <3>2. fetched'[t][y] = fetched[t][y]
      BY <1>3, <3>1
    <3>3. QED BY <2>1, <3>2 DEF Inv, SkippedIsHeld
  <2>2. QED BY <1>2, <2>1 DEF SkippedIsHeld, Key
<1>8. QED BY <1>2, <1>4, <1>5, <1>6, <1>7, QuietFrame DEF Inv

\* A bundle holds the nodes of the thing fetched.
LEMMA ParseNext ==
    ASSUME DotFree, Inv, NEW s \in Source, Parse(s)
    PROVE  /\ \A t \in Source : Underway(t)'
           /\ ColumnsRemembered' /\ SkippedIsHeld' /\ ColumnsWereSeen'
<1>1. /\ UNCHANGED <<content, seen, item, fetched, ledger, graph>>
      /\ pc[s] = "parse" /\ Accepts(s, item[s], fetched[s][item[s]])
      /\ pc' = [pc EXCEPT ![s] = "load"]
      /\ bundle' = [bundle EXCEPT ![s] =
            NodesIn(item[s].artifact_type, ItemId(item[s]), fetched[s][item[s]])]
      /\ DOMAIN pc = Source /\ DOMAIN bundle = Source /\ item[s] \in Thing
  BY DEF Parse, At, Goto, Inv, TypeOK
<1>2. bundle'[s] = OwnNodes(item[s], fetched[s][item[s]])
  BY <1>1, ParsedAsItself
<1>3. ASSUME NEW n \in bundle'[s], n[1] = "Column" PROVE Understood(s)
  <2>1. item[s] \in Table
    BY <1>1, <1>2, <1>3 DEF OwnNodes, DocumentNode
  <2>2. item[s].artifact_type = "rows"
    BY <2>1 DEF Table
  <2>3. n \in NodesIn(item[s].artifact_type, ItemId(item[s]), fetched[s][item[s]])
    BY <1>1, <1>3
  <2>4. QED BY <1>1, <1>3, <2>2, <2>3 DEF Accepts, Stamp, Understood
<1>4. Underway(s)'
  BY <1>1, <1>2, <1>3 DEF Underway, Understood, Inv
<1>5. ASSUME NEW t \in Source, t # s PROVE Underway(t)'
  BY <1>1, <1>5, UnderwayFrame DEF Inv
<1>6. ColumnsRemembered'
  BY <1>1 DEF Inv, ColumnsRemembered, ColumnsOf
<1>7. QED BY <1>1, <1>4, <1>5, <1>6, HeldFrame, QuietFrame DEF Inv

\* A node of the bundle enters the graph.
LEMMA LoadNext ==
    ASSUME Inv, NEW s \in Source, Load(s)
    PROVE  /\ \A t \in Source : Underway(t)'
           /\ ColumnsRemembered' /\ SkippedIsHeld' /\ ColumnsWereSeen'
<1>1. PICK n \in bundle[s] : /\ bundle' = [bundle EXCEPT ![s] = @ \ {n}]
                             /\ graph' = graph \cup {n}
  BY DEF Load
<1>2. /\ UNCHANGED <<content, seen, pc, item, fetched, ledger>>
      /\ pc[s] = "load" /\ DOMAIN bundle = Source /\ item[s] \in Thing
  BY DEF Load, At, Inv, TypeOK
<1>3. /\ fetched[s][item[s]] # Absent
      /\ bundle[s] \subseteq OwnNodes(item[s], fetched[s][item[s]])
      /\ \A k \in OwnNodes(item[s], fetched[s][item[s]]) : k \in bundle[s] \/ k \in graph
      /\ \A k \in bundle[s] : k[1] = "Column" => Understood(s)
  BY <1>2 DEF Inv, Underway
<1>4. Underway(s)'
  BY <1>1, <1>2, <1>3 DEF Underway, Understood
<1>5. ASSUME NEW t \in Source, t # s PROVE Underway(t)'
  BY <1>1, <1>2, <1>5, UnderwayFrame DEF Inv
<1>6. ColumnsRemembered'
  BY <1>2 DEF Inv, ColumnsRemembered, ColumnsOf
<1>7. ColumnsWereSeen'
  <2>1. n[1] = "Column" => n[2] \in seen[s] /\ Understood(s)
    BY <1>2, <1>3, OwnColumns DEF Inv, TypeOK, ColumnsRemembered
  <2>2. QED BY <1>1, <1>2, <2>1 DEF Inv, ColumnsWereSeen, Understood
<1>8. QED BY <1>1, <1>2, <1>4, <1>5, <1>6, <1>7, HeldFrame DEF Inv

\* The item marked is the only thing of its key.
LEMMA MarkNext ==
    ASSUME DotFree, RefsDiffer, Inv, NEW s \in Source, MarkDone(s)
    PROVE  /\ \A t \in Source : Underway(t)'
           /\ ColumnsRemembered' /\ SkippedIsHeld' /\ ColumnsWereSeen'
<1>1. /\ UNCHANGED <<content, seen, item, fetched, bundle, graph>>
      /\ pc[s] = "load" /\ bundle[s] = {} /\ pc' = [pc EXCEPT ![s] = "run"]
      /\ ledger' = ledger \cup {Key(s, item[s])}
      /\ DOMAIN pc = Source /\ item[s] \in Thing
  BY DEF MarkDone, At, Goto, Inv, TypeOK
<1>2. /\ fetched[s][item[s]] # Absent
      /\ \A k \in OwnNodes(item[s], fetched[s][item[s]]) : k \in graph
  BY <1>1 DEF Inv, Underway
<1>3. ASSUME NEW t \in Source, NEW y \in Thing, Key(t, y) \in ledger'
      PROVE  Key(t, y) \in ledger \/ (t = s /\ y = item[s])
  <2>1. Key(t, y) = Key(s, item[s]) => RefOf[t] = RefOf[s] /\ ItemId(y) = ItemId(item[s])
    BY DEF Key
  <2>2. QED BY <1>1, <1>3, <2>1, IdsDiffer DEF RefsDiffer
<1>4. Underway(s)'
  BY <1>1 DEF Underway
<1>5. ASSUME NEW t \in Source, t # s PROVE Underway(t)'
  BY <1>1, <1>5, UnderwayFrame DEF Inv
<1>6. ColumnsRemembered'
  BY <1>1 DEF Inv, ColumnsRemembered, ColumnsOf
<1>7. SkippedIsHeld'
  <2>1. ASSUME NEW t \in Source, NEW y \in Thing, Key(t, y) \in ledger'
        PROVE  /\ fetched[t][y] # Absent
               /\ \A n \in OwnNodes(y, fetched[t][y]) : n \in graph
    BY <1>2, <1>3, <2>1 DEF Inv, SkippedIsHeld
  <2>2. QED BY <1>1, <2>1 DEF SkippedIsHeld, Key
<1>8. ColumnsWereSeen'
  BY <1>1 DEF Inv, ColumnsWereSeen, Understood
<1>9. QED BY <1>4, <1>5, <1>6, <1>7, <1>8

\* What a source shows is remembered.
LEMMA ChangeNext ==
    ASSUME Inv, NEW s \in Source, Change(s)
    PROVE  /\ \A t \in Source : Underway(t)'
           /\ ColumnsRemembered' /\ SkippedIsHeld' /\ ColumnsWereSeen'
<1>1. PICK x \in Thing : \E payload \in Payload(x) \cup {Absent} :
        /\ content' = [content EXCEPT ![s][x] = payload]
        /\ seen' = [seen EXCEPT ![s] = @ \cup ColumnsOf(x, payload)]
  BY DEF Change
<1>2. PICK payload : /\ content' = [content EXCEPT ![s][x] = payload]
                     /\ seen' = [seen EXCEPT ![s] = @ \cup ColumnsOf(x, payload)]
  BY <1>1
<1>3. /\ UNCHANGED <<pc, item, fetched, bundle, ledger, graph>>
      /\ content \in [Source -> Held] /\ DOMAIN seen = Source
  BY DEF Change, Inv, TypeOK
<1>4. \A t \in Source : Underway(t)'
  BY <1>3, UnderwayFrame DEF Inv
<1>5. ColumnsRemembered'
  <2>1. ASSUME NEW t \in Source, NEW y \in Thing
        PROVE  ColumnsOf(y, content'[t][y]) \cup ColumnsOf(y, fetched[t][y]) \subseteq seen'[t]
    <3>1. content'[t][y] = content[t][y] \/ (t = s /\ y = x /\ content'[t][y] = payload)
      BY <1>2, <1>3 DEF Held
    <3>2. ColumnsOf(y, content[t][y]) \cup ColumnsOf(y, fetched[t][y]) \subseteq seen[t]
      BY DEF Inv, ColumnsRemembered
    <3>3. QED BY <1>2, <1>3, <3>1, <3>2
  <2>2. QED BY <1>3, <2>1 DEF ColumnsRemembered, ColumnsOf
<1>6. QED BY <1>2, <1>3, <1>4, <1>5, HeldFrame, QuietFrame DEF Inv

LEMMA InvNext == DotFree /\ RefsDiffer => (Inv /\ [Next]_vars => Inv')
<1>1. ASSUME DotFree, RefsDiffer, Inv, [Next]_vars PROVE Inv'
  <2>1. TypeOK'
    BY <1>1, TypeNext DEF Inv
  <2>2. CASE UNCHANGED vars
    <3>1. /\ UNCHANGED <<content, seen, pc, item, fetched, bundle, ledger, graph>>
      BY <2>2 DEF vars
    <3>2. \A t \in Source : Underway(t)'
      BY <1>1, <3>1, UnderwayFrame DEF Inv
    <3>3. ColumnsRemembered'
      BY <1>1, <3>1 DEF Inv, ColumnsRemembered, ColumnsOf
    <3>4. QED BY <1>1, <2>1, <3>1, <3>2, <3>3, HeldFrame, QuietFrame DEF Inv
  <2>3. CASE Next
    <3>1. PICK s \in Source : Start(s) \/ Step(s) \/ Fail(s) \/ Change(s)
      BY <2>3 DEF Next
    <3>2. QuietStep(s) \/ Fetch(s) \/ Parse(s) \/ Load(s) \/ MarkDone(s) \/ Change(s)
      BY <3>1 DEF Step, QuietStep
    <3>3. QED
      BY <1>1, <2>1, <3>2, QuietNext, FetchNext, ParseNext, LoadNext, MarkNext, ChangeNext
      DEF Inv
  <2>4. QED BY <1>1, <2>2, <2>3
<1>2. QED BY <1>1

(***************************************************************************)
(* What follows for every run.                                             *)
(***************************************************************************)
\* Whatever names, sources and parsers there are, a run that is not loading has
\* nothing left to write, and one that fetches or loads is at an item it listed.
THEOREM ConnectorTyped == Spec => []TypeOK
<1>1. Init => TypeOK
  BY InvInit DEF Inv
<1>2. QED BY <1>1, TypeNext, PTL DEF Spec

\* What the ledger makes a run skip was read from that source and is in the
\* graph under its own names: what synthetic.py's ids are for.
THEOREM IdsIdentify ==
    ASSUME DotFree, RefsDiffer
    PROVE  Spec => []SkippedIsHeld
<1>1. Inv /\ [Next]_vars => Inv'
  BY InvNext
<1>2. Inv => SkippedIsHeld
  BY DEF Inv
<1>3. QED BY <1>1, <1>2, InvInit, PTL DEF Spec

\* Every column of the graph was in a source, in that system and table, and came
\* through a parser that speaks the version of columns the consumer understands.
THEOREM NoInventedColumn ==
    ASSUME DotFree, RefsDiffer
    PROVE  Spec => []ColumnsWereSeen
<1>1. Inv /\ [Next]_vars => Inv'
  BY InvNext
<1>2. Inv => ColumnsWereSeen
  BY DEF Inv
<1>3. QED BY <1>1, <1>2, InvInit, PTL DEF Spec
==============================================================================
