----------------------------- MODULE Dictionary -----------------------------
(***************************************************************************)
(* The organisation dictionary: pages, trees and searches computed from    *)
(* the units of one tenant. The inputs are every forest of the units,      *)
(* with every choice of status and of which units the keyword matches, and *)
(* the requests of Requests; the answers are compared with what the forest *)
(* itself says.                                                            *)
(*                                                                         *)
(* A unit's identifier is its number; its code sorts the other way round,  *)
(* and all names are equal. The parent 0 stands for none.                  *)
(*                                                                         *)
(* An operator D_Variant that stands before D is D with one mistake in it. *)
(***************************************************************************)
EXTENDS Integers, Sequences, SequencesExt, FiniteSets

CONSTANTS N, Requests

Numbers == 1..N

VARIABLES
  unit,    \* the rows: parent, status, and whether the keyword matches
  req,     \* the request
  answer   \* what the provider returned

vars == <<unit, req, answer>>

RECURSIVE PathIn(_, _, _)
PathIn(rows, u, fuel) ==
  IF u = 0 THEN <<>> ELSE IF fuel = 0 THEN <<0>> ELSE Append(PathIn(rows, rows[u].parent, fuel - 1), u)

Forest(rows) == \A u \in Numbers : Head(PathIn(rows, u, N)) # 0

Init ==
  /\ unit \in {rows \in [Numbers -> [parent : 0..N, status : {"active", "archived"}, hit : BOOLEAN]] : Forest(rows)}
  /\ req \in Requests
  /\ answer = [state |-> "none"]

Path(u) == PathIn(unit, u, N)
-----------------------------------------------------------------------------
(* filterOrganizationUnits, sortOrganizationUnits *)

filterOrganizationUnits(items, keyword, status) ==
  {u \in items : (status # "" => unit[u].status = status) /\ (keyword => unit[u].hit)}

PathLess(p, q) ==
  \/ Len(p) < Len(q) /\ p = SubSeq(q, 1, Len(p))
  \/ \E i \in 1..Len(p) : i <= Len(q) /\ SubSeq(p, 1, i - 1) = SubSeq(q, 1, i - 1) /\ p[i] < q[i]

Less(field, a, b) ==
  CASE field = "code" -> a > b
    [] field = "name" -> a < b
    [] OTHER -> PathLess(Path(a), Path(b))

sortOrganizationUnits(items, field, descending) ==
  SetToSortSeq(items, LAMBDA a, b : IF descending THEN Less(field, b, a) ELSE Less(field, a, b))

ByPath(items) == sortOrganizationUnits(items, "path", FALSE)
-----------------------------------------------------------------------------
(* Query *)

Refused == [state |-> "refused"]
Least(a, b) == IF a < b THEN a ELSE b

PageOf(items, page, size) == SubSeq(items, (page - 1) * size + 1, Least(page * size, Len(items)))

Query(r) ==
  LET page == IF r.page = 0 THEN 1 ELSE r.page
      size == IF r.size = 0 THEN 20 ELSE r.size
      items == sortOrganizationUnits(filterOrganizationUnits(Numbers, r.keyword, r.status), r.sort, r.descending)
  IN IF size > 100 \/ r.sort \notin {"", "code", "name", "path"} THEN Refused
     ELSE [state |-> "page", items |-> PageOf(items, page, size), total |-> Len(items), page |-> page, size |-> size]

-----------------------------------------------------------------------------
(* buildOrganizationTree: the nodes in the order they are made, each with  *)
(* its parent. Once maxNodes nodes are made every further one is skipped;  *)
(* the guard against a unit below itself has nothing to do in a forest.    *)

Kids(items, parent) == ByPath({u \in items : unit[u].parent = parent})

Full_Late(count, maxNodes) == count > maxNodes
Full(count, maxNodes) == count >= maxNodes

RECURSIVE Build(_, _, _, _, _)
Build(items, bounds, parent, depth, acc) ==
  IF depth > bounds.depth
  THEN [acc EXCEPT !.truncated = @ \/ Kids(items, parent) # <<>>]
  ELSE FoldLeft(LAMBDA a, u :
                  IF Full(Len(a.nodes), bounds.nodes) THEN [a EXCEPT !.truncated = TRUE]
                  ELSE Build(items, bounds, u, depth + 1,
                             [a EXCEPT !.nodes = Append(@, [id |-> u, parent |-> parent,
                                                            has |-> Kids(items, u) # <<>>])]),
                acc, Kids(items, parent))

buildOrganizationTree(items, root, bounds) ==
  Build(items, bounds, root, 1, [nodes |-> <<>>, truncated |-> FALSE])

(* withOrganizationAncestors walks from every match to the first parent    *)
(* that is not among the items.                                            *)
RECURSIVE Climb(_, _)
Climb(items, u) == IF u \notin items THEN {} ELSE {u} \cup Climb(items, unit[u].parent)
withOrganizationAncestors(items) == UNION {Climb(items, u) : u \in {m \in items : unit[m].hit}}

(* The repository's own search: the first matches, then what their paths   *)
(* name, as far as it has the status.                                      *)
OnPath_Parent(u) == {u, unit[u].parent} \ {0}
OnPath(u) == ToSet(Path(u))

SearchOrganizationUnitsWithAncestors(keyword, status, limit) ==
  LET matches == ByPath(filterOrganizationUnits(Numbers, keyword, status))
      first == ToSet(SubSeq(matches, 1, Least(limit, Len(matches))))
  IN [items |-> first \cup filterOrganizationUnits(UNION {OnPath(u) : u \in first}, FALSE, status),
      truncated |-> Len(matches) > limit]

ListOrganizationChildren_Status(parent, status, limit) ==
  LET rows == Kids(filterOrganizationUnits(Numbers, FALSE, status), parent)
      has(u) == \E c \in Numbers : unit[c].parent = u
  IN [nodes |-> [i \in 1..Least(limit, Len(rows)) |-> [id |-> rows[i], parent |-> parent, has |-> has(rows[i])]],
      truncated |-> Len(rows) > limit]
ListOrganizationChildren(parent, status, limit) ==
  LET rows == Kids(filterOrganizationUnits(Numbers, FALSE, status), parent)
      has(u) == \E c \in filterOrganizationUnits(Numbers, FALSE, status) : unit[c].parent = u
  IN [nodes |-> [i \in 1..Least(limit, Len(rows)) |-> [id |-> rows[i], parent |-> parent, has |-> has(rows[i])]],
      truncated |-> Len(rows) > limit]

Bounds(r) == [depth |-> IF r.depth = 0 THEN 8 ELSE r.depth, nodes |-> IF r.nodes = 0 THEN 1000 ELSE r.nodes]

(* The general way of Tree, for a repository that only lists.              *)
TreeOfList(r) ==
  LET items == filterOrganizationUnits(Numbers, FALSE, r.status)
  IN buildOrganizationTree(IF r.mode = "search_with_ancestors" /\ r.keyword
                           THEN withOrganizationAncestors(items) ELSE items,
                           IF r.mode = "children" THEN r.parent ELSE 0, Bounds(r))

Tree(r) ==
  LET b == Bounds(r)
      found == SearchOrganizationUnitsWithAncestors(r.keyword, r.status, b.nodes)
      built == CASE r.mode = "children" /\ b.depth = 1 -> ListOrganizationChildren(r.parent, r.status, b.nodes)
                 [] r.mode = "search_with_ancestors" -> buildOrganizationTree(found.items, 0, b)
                 [] OTHER -> TreeOfList(r)
  IN IF b.depth > 32 \/ b.nodes > 5000 \/ r.mode \notin {"full", "children", "search_with_ancestors"} THEN Refused
     ELSE [state |-> "tree", nodes |-> built.nodes,
           truncated |-> built.truncated \/ (r.mode = "search_with_ancestors" /\ found.truncated)]

(* TreeOrganizationUnits of the service has a name of its own for a mode.  *)
TreeOrganizationUnits(r) == Tree(IF r.mode = "lazy_children" THEN [r EXCEPT !.mode = "children"] ELSE r)

Answer ==
  /\ answer.state = "none"
  /\ answer' = CASE req.op = "query" -> Query(req)
                 [] req.op = "tree" -> Tree(req)
                 [] OTHER -> TreeOrganizationUnits(req)
  /\ UNCHANGED <<unit, req>>

Answered == answer.state # "none" /\ UNCHANGED vars

Next == Answer \/ Answered
Spec == Init /\ [][Next]_vars
-----------------------------------------------------------------------------
Shown == {answer.nodes[i].id : i \in DOMAIN answer.nodes}
IsTree(mode) == answer.state = "tree" /\ req.mode = mode

(* The pages of a query are a partition of the matching units in the order *)
(* asked for: page after page gives every one once, and the total counts   *)
(* them.                                                                   *)
PagesPartition ==
  answer.state = "page" =>
    LET all == filterOrganizationUnits(Numbers, req.keyword, req.status)
        before == {u \in all : \E v \in ToSet(answer.items) : Less(req.sort, u, v) # req.descending /\ u # v} \ ToSet(answer.items)
    IN /\ answer.total = Cardinality(all)
       /\ Len(answer.items) = Cardinality(ToSet(answer.items))
       /\ ToSet(answer.items) \subseteq all
       /\ answer.items # <<>> => Cardinality(before) = (answer.page - 1) * answer.size
       /\ Len(answer.items) < answer.size => answer.page * answer.size >= answer.total

(* What a tree is asked for: the units below its root that are reached     *)
(* over units of the status asked for.                                     *)
Root == IF req.mode \in {"children", "lazy_children"} THEN req.parent ELSE 0
Below ==
  {u \in Numbers \ {Root} : /\ Root = 0 \/ Root \in ToSet(Path(u))
                           /\ ToSet(Path(u)) \ ToSet(Path(Root)) \subseteq filterOrganizationUnits(Numbers, FALSE, req.status)}

(* One level of children, which the repository's shortcut answers.         *)
OneLevel == req.mode \in {"children", "lazy_children"} /\ Bounds(req).depth = 1

(* A tree that is not marked truncated holds every unit it is asked for.   *)
(* One level of children is not marked for what lies below it: then it     *)
(* holds the level, and every node says rightly whether there is more. No  *)
(* tree has more nodes than asked for, a unit twice or one without its     *)
(* parent.                                                                 *)
TreeTellsAll ==
  answer.state = "tree" =>
    /\ Cardinality(Shown) = Len(answer.nodes)
    /\ Len(answer.nodes) <= Bounds(req).nodes
    /\ \A i \in DOMAIN answer.nodes :
         answer.nodes[i].parent = Root \/ \E j \in 1..(i - 1) : answer.nodes[j].id = answer.nodes[i].parent
    /\ req.mode # "search_with_ancestors" =>
         /\ ~answer.truncated => Shown = {u \in Below : OneLevel => unit[u].parent = Root}
         /\ \A i \in DOMAIN answer.nodes :
              answer.nodes[i].has <=> \E u \in Below : unit[u].parent = answer.nodes[i].id

(* A search that is not marked truncated shows every unit that matches and *)
(* every ancestor of it, and nothing else.                                 *)
SearchShowsMatches ==
  IsTree("search_with_ancestors") /\ ~answer.truncated /\ req.status = "" =>
    Shown = UNION {ToSet(Path(u)) : u \in filterOrganizationUnits(Numbers, req.keyword, "")}

(* The two shortcuts of the repository give the nodes that the general way *)
(* gives: one level of children for every status, a search without one.    *)
(* The general way marks a level as truncated also when a node of it has   *)
(* children; a search that is not marked it does not mark either.          *)
ShortcutsAgree ==
  answer.state = "tree" =>
    LET general == TreeOfList(IF req.mode = "lazy_children" THEN [req EXCEPT !.mode = "children"] ELSE req) IN
      /\ OneLevel =>
           /\ answer.nodes = general.nodes
           /\ general.truncated = (answer.truncated \/ \E i \in DOMAIN answer.nodes : answer.nodes[i].has)
      /\ req.mode = "search_with_ancestors" /\ req.status = "" /\ ~answer.truncated
           => answer.nodes = general.nodes /\ ~general.truncated
=============================================================================
