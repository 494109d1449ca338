------------------------------- MODULE FrameText -------------------------------
(* The text of a plane frame: frame-text-model.ts with its loads and load
   cases.  It names a node by a number taken from its identifier and a member
   by its place, so reading a text back renames both; it has no word for
   hinges and for the role of a load.  A text is the lines the serializer
   writes, in the order it writes them; what a user types is not modelled.
   Only load cases and combinations are written by name, and a name that is not
   one word is read as TextLine says.
   A load is taken to be one line: one that is both force and moment becomes
   two, and one that is nothing none. *)
EXTENDS FrameWorkspace, TextLine

(* parseTextModelNumericCode: the first number in a name, with a hyphen in
   front of it as its sign. *)
NumberIn(appended) == IF appended.text = "-" THEN -appended.n ELSE appended.n

(* The number of a node; without a number in its name, its place. *)
nodeNumber(m, i) ==
  LET id == m.nodes[i].id
  IN CASE id.n # 0 -> id.n
       [] id.n = 0 /\ id.tail # <<>> -> NumberIn(id.tail[1])
       [] OTHER -> i

PlaceOf(id, s) == CHOOSE i \in DOMAIN s : s[i].id = id

(* Node 1 stands for one that is not there, and member 1 for such a member. *)
nodeNumberOf(m, id) == IF id \in Ids(m.nodes) THEN nodeNumber(m, PlaceOf(id, m.nodes)) ELSE 1

memberNumberOf(m, id) == IF id \in Ids(m.members) THEN PlaceOf(id, m.members) ELSE 1

(* NLOAD, DLOAD, PLOAD or TLOAD. *)
serializeFrameTextLoad(load, m) ==
  [load |-> load,
   number |-> IF load.type = "nodal" THEN nodeNumberOf(m, load.node) ELSE memberNumberOf(m, load.member)]

(* NSUPT: a support without an angle is written with the angle 0, which is not
   what it stands for. *)
supportLine(node, number) ==
  [number |-> number, support |-> node.support, angle |-> IF node.angle = NoAngle THEN 0 ELSE node.angle]

(* N, NSUPT, NSPRING, NSDISP and E lines, the loads, and CASE and COMB with
   what belongs to them. *)
serializeFrameTextModel(m) ==
  LET line(load) == serializeFrameTextLoad(load, m)
      linesOf(i, directions) == Each(directions, LAMBDA dof : [number |-> nodeNumber(m, i), dof |-> dof])
      supportLines(i) == IF m.nodes[i].support = "free" THEN <<>>
                         ELSE <<supportLine(m.nodes[i], nodeNumber(m, i))>>
  IN [nodes |-> [i \in DOMAIN m.nodes |-> nodeNumber(m, i)],
      supports |-> FlattenSeq([i \in DOMAIN m.nodes |-> supportLines(i)]),
      springs |-> FlattenSeq([i \in DOMAIN m.nodes |-> linesOf(i, m.nodes[i].springs)]),
      displacements |-> FlattenSeq([i \in DOMAIN m.nodes |-> linesOf(i, m.nodes[i].displacements)]),
      members |-> Each(m.members, LAMBDA k : [start |-> nodeNumberOf(m, k.start), end |-> nodeNumberOf(m, k.end)]),
      loads |-> Each(m.loads, line),
      cases |-> Each(m.cases, LAMBDA case : [case EXCEPT !.loads = Each(@, line)]),
      combinations |-> m.combinations]

parseFrameTextLoad(line) ==
  [line.load EXCEPT !.node = IF line.load.type = "nodal" THEN Draft("N", line.number) ELSE NoId,
                    !.member = IF line.load.type = "nodal" THEN NoId ELSE Draft("M", line.number),
                    !.role = "variable"]

(* Of the lines about a node the last NSUPT counts, and the last NSPRING and
   NSDISP for each direction. *)
linesFor(node, lines) == Where(lines, {line \in Elements(lines) : Draft("N", line.number) = node.id})
lastOfEach(lines) ==
  Each(Picked(lines, {k \in DOMAIN lines : \A l \in DOMAIN lines : k < l => lines[l].dof # lines[k].dof}),
       LAMBDA line : line.dof)

heldAsRead(node, text) ==
  LET supports == linesFor(node, text.supports)
      held == [node EXCEPT !.springs = lastOfEach(linesFor(node, text.springs)),
                           !.displacements = lastOfEach(linesFor(node, text.displacements))]
  IN IF supports = <<>> THEN held
     ELSE [held EXCEPT !.support = Last(supports).support, !.angle = Last(supports).angle]

(* CASE and COMB give the first word of a name, and make it distinct. *)
readNames(s, stem) ==
  DistinctNames([k \in DOMAIN s |-> [s[k] EXCEPT !.id = token(words(s[k].id), 1, Draft(stem, k))]])

(* CASELOAD adds to the case that has the first word of the name it gives. *)
readCases(text) ==
  LET read == readNames(text.cases, "LC")
      said(case, id) == IF token(words(case.id), 1, NoId) = id THEN Each(case.loads, parseFrameTextLoad) ELSE <<>>
  IN Each(read, LAMBDA new : [new EXCEPT !.loads = FlattenSeq(Each(text.cases, LAMBDA case : said(case, new.id)))])

(* FACTOR: combination, load case and factor are the first three words of the
   line; a factor that is no number is 0.  The factors are written in the order
   of the load cases. *)
factorLine(c, id) ==
  LET said == splitTextModelTokens(<<c.id, id>>)
  IN [combination |-> token(said, 1, NoId), case |-> token(said, 2, NoId),
      factor |-> CASE Len(said) > 2 -> IF IsNumber(said[3]) THEN said[3].n ELSE 0
                   [] Len(said) <= 2 /\ (Marked(c.id) \/ Marked(id)) -> 0
                   [] OTHER -> c.factors[id]]
factorLines(text) ==
  LET ids == Each(text.cases, LAMBDA case : case.id)
      linesOf(c) == Each(Where(ids, DOMAIN c.factors), LAMBDA id : factorLine(c, id))
  IN FlattenSeq(Each(text.combinations, linesOf))

(* The last line for a case counts. *)
factorsAsRead(id, lines) ==
  LET own(case) == {k \in DOMAIN lines : lines[k].combination = id /\ lines[k].case = case}
      cases == {line.case : line \in {l \in Elements(lines) : l.combination = id}}
  IN [case \in cases |-> lines[Highest(own(case))].factor]

readCombinations(text) ==
  LET lines == factorLines(text)
  IN Each(readNames(text.combinations, "COMB"),
          LAMBDA new : [new EXCEPT !.factors = factorsAsRead(new.id, lines)])

(* A CASELOAD line that goes on with another word than a load, or a FACTOR line
   without a combination or a case. *)
Misread(text) ==
  \/ \E case \in Elements(text.cases) : case.loads # <<>> /\ ~IsWord(case.id)
  \/ \E line \in Elements(factorLines(text)) :
       line.combination \notin Ids(readNames(text.combinations, "COMB")) \/ line.case = NoId

(* A number that was used already names another node, which nothing in the
   text can refer to. *)
parseFrameTextModel(text) ==
  LET named == DistinctNames([i \in DOMAIN text.nodes |-> FreeNode(Draft("N", text.nodes[i]))])
  IN [nodes |-> Each(named, LAMBDA node : heldAsRead(node, text)),
      members |-> [i \in DOMAIN text.members |->
                    [id |-> Draft("M", i), start |-> Draft("N", text.members[i].start),
                     end |-> Draft("N", text.members[i].end), hinges |-> <<>>]],
      loads |-> Each(text.loads, parseFrameTextLoad),
      cases |-> readCases(text),
      combinations |-> readCombinations(text)]

(* The text says something the parser would have to leave out. *)
Diagnosed(m) ==
  \/ m.nodes = <<>>
  \/ ~Resolved(m)
  \/ \E member \in Elements(m.members) : ZeroLength(member)

(* Without a member the nodes are joined one after another; stems are the
   kinds of the members. *)
completeFrameTextCollections(m, stems) ==
  IF m.members # <<>> THEN m
  ELSE [m EXCEPT !.members = [k \in DOMAIN stems |->
          [id |-> Draft(stems[k], Cardinality({l \in 1..k : stems[l] = stems[k]})),
           start |-> m.nodes[k].id, end |-> m.nodes[k + 1].id, hinges |-> <<>>]]]
=============================================================================
