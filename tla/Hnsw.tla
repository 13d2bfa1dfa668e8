--------------------------------- MODULE Hnsw ---------------------------------
(***************************************************************************)
(* The navigable graph over the chunk vectors that stats and doctor probe. *)
(* A graph is a sequence of nodes, dead ones included, that refer to each  *)
(* other by position, a list of neighbours per level; and its entry (0 for *)
(* none) with the top level.                                               *)
(***************************************************************************)
EXTENDS Integers, Sequences, SequencesExt, FiniteSetsExt

CONSTANTS Distance(_, _),  \* of two vectors
          M, M0,           \* links a node keeps: above and on the ground level
          EF               \* EF_CONSTRUCTION

Empty == [nodes |-> <<>>, entry |-> 0, top |-> 0]

Live(graph) == {n \in DOMAIN graph.nodes : graph.nodes[n].live}
At(graph, id) == {n \in Live(graph) : graph.nodes[n].id = id}
Cap(level) == IF level = 0 THEN M0 ELSE M

\* Lists of a node are numbered from level 0; a list it does not have is empty.
Has(graph, n, level) == level + 1 \in DOMAIN graph.nodes[n].links
Links(graph, n, level) == IF Has(graph, n, level) THEN graph.nodes[n].links[level + 1] ELSE <<>>
SetLinks(graph, n, level, list) ==
    IF Has(graph, n, level) THEN [graph EXCEPT !.nodes[n].links[level + 1] = list] ELSE graph

Linked(list, n) == IF n \in ToSet(list) THEN list ELSE Append(list, n)
Without(list, n) == SelectSeq(list, LAMBDA other : other # n)
Link(graph, n, level, other) == SetLinks(graph, n, level, Linked(Links(graph, n, level), other))
Unlink(graph, n, level, other) == SetLinks(graph, n, level, Without(Links(graph, n, level), other))

-----------------------------------------------------------------------------
\* search_layer: the nodes met from entry, nearest first, at most ef of them.

SearchLayer(graph, query, entry, ef, level) ==
    LET dist(n) == Distance(query, graph.nodes[n].vector)
        nearer(m, n) == dist(m) < dist(n) \/ (dist(m) = dist(n) /\ graph.nodes[m].id < graph.nodes[n].id)
        nearest(set) == CHOOSE m \in set : \A n \in set \ {m} : nearer(m, n)
        \* the worst result: among the farthest the smallest id goes first
        worst(set) == CHOOSE m \in set : \A n \in set \ {m} :
                          dist(n) < dist(m) \/ (dist(n) = dist(m) /\ graph.nodes[m].id < graph.nodes[n].id)
        meet(at, n) ==
            IF n \in at.seen \/ ~graph.nodes[n].live THEN at
            ELSE LET seen == [at EXCEPT !.seen = @ \cup {n}]
                     more == at.results \cup {n}
                 IN  IF Cardinality(at.results) < ef \/ dist(n) < dist(worst(at.results))
                     THEN [seen EXCEPT !.candidates = @ \cup {n},
                                       !.results = IF Cardinality(more) > ef THEN more \ {worst(more)} ELSE more]
                     ELSE seen
        visit(at) ==
            LET next == nearest(at.candidates)
                rest == [at EXCEPT !.candidates = @ \ {next}]
            IN  IF dist(next) > dist(worst(at.results)) THEN [at EXCEPT !.candidates = {}]
                ELSE FoldLeft(meet, rest, Links(graph, next, level))
        \* a node becomes a candidate once
        end == FoldLeftDomain(LAMBDA at, k : IF at.candidates = {} THEN at ELSE visit(at),
                              [candidates |-> {entry}, results |-> {entry}, seen |-> {entry}], graph.nodes)
    IN  SetToSortSeq(end.results, nearer)

\* select_neighbors: the limit nearest others; a stable sort of the candidates.
SelectNeighbors(graph, n, candidates, limit) ==
    LET dist(m) == Distance(graph.nodes[n].vector, graph.nodes[m].vector)
        place(m) == CHOOSE k \in DOMAIN candidates : candidates[k] = m
        sorted == SetToSortSeq(ToSet(candidates) \ {n}, LAMBDA a, b :
                      dist(a) < dist(b) \/ (dist(a) = dist(b) /\ place(a) < place(b)))
    IN  SubSeq(sorted, 1, Min({limit, Len(sorted)}))

\* The others of a list that grew over the cap forget the node as it forgets them.
Prune(graph, n, level) ==
    LET list == Links(graph, n, level)
        kept == SelectNeighbors(graph, n, list, Cap(level))
    IN  IF Len(list) <= Cap(level) THEN graph
        ELSE FoldLeft(LAMBDA g, other : Unlink(g, other, level, n), SetLinks(graph, n, level, kept),
                      SelectSeq(list, LAMBDA other : other \notin ToSet(kept)))

Downwards(from, to) == [k \in 1..from - to + 1 |-> from - k + 1]

\* One level lower: the nearest node that a search of width one meets.
Descend(graph, query, current, level) == SearchLayer(graph, query, current, 1, level)[1]

Join(graph, n, level, current) ==
    LET found == SearchLayer(graph, graph.nodes[n].vector, current, EF, level)
        meet(g, other) == Prune(Link(Link(g, n, level, other), other, level, n), other, level)
    IN  [graph |-> FoldLeft(meet, graph, SelectNeighbors(graph, n, found, Cap(level))), current |-> found[1]]

\* insert, with the level that random_level drew.
Insert(graph, id, vector, level) ==
    LET n == Len(graph.nodes) + 1
        node == [id |-> id, vector |-> vector, level |-> level, live |-> TRUE,
                 links |-> [k \in 1..level + 1 |-> <<>>]]
        added == [graph EXCEPT !.nodes = Append(@, node)]
        start == FoldLeft(LAMBDA current, l : Descend(added, vector, current, l), graph.entry,
                          Downwards(graph.top, level + 1))
        joined == FoldLeft(LAMBDA at, l : Join(at.graph, n, l, at.current), [graph |-> added, current |-> start],
                           Downwards(Min({level, graph.top}), 0)).graph
    IN  IF At(graph, id) # {} THEN [graph EXCEPT !.nodes[CHOOSE m \in At(graph, id) : TRUE].vector = vector]
        ELSE IF graph.entry = 0 THEN [added EXCEPT !.entry = n, !.top = level]
        ELSE IF level > graph.top THEN [joined EXCEPT !.entry = n, !.top = level]
        ELSE joined

\* The neighbours of a node that goes meet each other, where their lists have
\* room: the room of one side only is asked.
Bridge(graph, level, neighbours) ==
    LET room(g, a) == Has(g, a, level) /\ Len(Links(g, a, level)) < Cap(level)
        meet(g, a, b) == IF b = a \/ b \in ToSet(Links(g, a, level)) \/ ~room(g, a) THEN g
                         ELSE Link(SetLinks(g, a, level, Append(Links(g, a, level), b)), b, level, a)
    IN  FoldLeft(LAMBDA g, a : FoldLeft(LAMBDA h, b : meet(h, a, b), g, neighbours), graph, neighbours)

\* The last of the highest nodes.
Highest(graph) ==
    LET level(n) == graph.nodes[n].level
    IN  IF Live(graph) = {} THEN 0
        ELSE CHOOSE n \in Live(graph) : \A m \in Live(graph) :
                 level(m) < level(n) \/ (level(m) = level(n) /\ m <= n)

Forget(graph, id) ==
    IF At(graph, id) = {} THEN graph
    ELSE LET n == CHOOSE m \in At(graph, id) : TRUE
             leave(g, level) ==
                 LET neighbours == SelectSeq(Links(graph, n, level), LAMBDA m : graph.nodes[m].live)
                 IN  Bridge(FoldLeft(LAMBDA h, m : Unlink(h, m, level, n), g, neighbours), level, neighbours)
             left == FoldLeft(leave, graph, [k \in 1..graph.nodes[n].level + 1 |-> k - 1])
             gone == [left EXCEPT !.nodes[n].live = FALSE, !.nodes[n].links = <<>>]
             entry == Highest(gone)
         IN  IF graph.entry # n THEN gone
             ELSE [gone EXCEPT !.entry = entry, !.top = IF entry = 0 THEN 0 ELSE gone.nodes[entry].level]

AdaptiveEf(nodes, k) ==
    Max({k, IF nodes < 100 THEN 10 ELSE IF nodes < 1000 THEN 50 ELSE IF nodes < 10000 THEN 100 ELSE 200})

\* search: the k best of the ground level.
Search(graph, query, k) ==
    LET start == FoldLeft(LAMBDA current, l : Descend(graph, query, current, l), graph.entry,
                          Downwards(graph.top, 1))
        found == SearchLayer(graph, query, start, AdaptiveEf(Cardinality(Live(graph)), k), 0)
    IN  IF graph.entry = 0 THEN <<>> ELSE SubSeq(found, 1, Min({k, Len(found)}))
=============================================================================
