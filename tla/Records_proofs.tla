----------------------------- MODULE Records_proofs -----------------------------
(***************************************************************************)
(* What Records promises of ids, turns and history, proved for any number  *)
(* of servers, rows, calls, failures and restarts.                         *)
(*                                                                         *)
(* A state is live if the next call of some server works on it, or would   *)
(* after a save by another: the snapshot, and what Reacquired gives each   *)
(* server.  A call adds to the live states what it leaves in memory and,   *)
(* if it saves, what can be read back; if it answers well after a save,    *)
(* no other live state is left.  So it is enough to show that every live   *)
(* state agrees with what callers were told (Good), which is a property of *)
(* one state, and that each tool makes a good state of a good one.         *)
(***************************************************************************)
EXTENDS Records, TLAPS

Live == {snapshot} \cup {Reacquired(s) : s \in Server}

\* The fields of a state.  The attached rows are left open: which of them
\* prune_chunks keeps matters to none of the theorems.
Shape(st) ==
    /\ st = [sessions |-> st.sessions, log |-> st.log,
             annotations |-> st.annotations, next_annotation |-> st.next_annotation,
             dynamic |-> st.dynamic, next_symbol_id |-> st.next_symbol_id]
    /\ st.log \in Seq(Nat)
    /\ st.annotations \subseteq Note /\ st.next_annotation \in Nat
    /\ st.dynamic \subseteq Symbol /\ st.next_symbol_id \in Nat
    /\ \A x \in DOMAIN st.sessions : st.sessions[x].turn \in Nat

\* Ids of annotations were counted, and those told stand for their rows.
NotesGood(st, ns) ==
    /\ \A n \in st.annotations : n.id <= st.next_annotation
    /\ \A note \in ns : {n \in st.annotations : n.id = note.id} = {note}

\* The next id of a symbol is above those in use and those told.
SymbolsGood(st, ys) ==
    /\ \A d \in st.dynamic : d.id < st.next_symbol_id
    /\ \A old \in ys : old.id < st.next_symbol_id
    /\ \A old \in ys, new \in st.dynamic : new.id = old.id => new.made = old.made

TurnsGood(st, ts) ==
    \A x \in Session : ts[x] >= 0 => x \in DOMAIN st.sessions /\ st.sessions[x].turn > ts[x]

Increasing(rows, k) ==
    /\ \A i \in DOMAIN rows : rows[i] <= k
    /\ \A i, j \in DOMAIN rows : i < j => rows[i] < rows[j]

LogGood(st, g, k) ==
    Increasing(st.log, k) /\ \A i \in DOMAIN st.log : st.log[i] \notin g

Good(st, ns, ys, ts, g, k) ==
    Shape(st) /\ NotesGood(st, ns) /\ SymbolsGood(st, ys) /\ TurnsGood(st, ts) /\ LogGood(st, g, k)

Told(ns, ys, ts, g, k) ==
    /\ ys \subseteq Symbol /\ ts \in [Session -> Int]
    /\ k \in Nat /\ g \subseteq 0..k

IInv ==
    /\ mem = [s \in Server |-> mem[s]]
    /\ made \in 0..MaxMade
    /\ Told(notes, symbols, turns, gone, changes)
    /\ file \in Seq(Nat) /\ Increasing(file, changes)
    /\ \A st \in Live : Good(st, notes, symbols, turns, gone, changes)

-------------------------------------------------------------------------------
\* Live states after a call.

LEMMA AfterSave ==
    ASSUME NEW s \in Server, NEW saved, NEW held, NEW outcome \in Outcome,
           mem = [z \in Server |-> mem[z]],
           Save(s, saved, outcome), Holds(s, held)
    PROVE  /\ Live' \subseteq Live \cup {held, Written(saved)}
           /\ outcome = "ok" => Live' \subseteq {held, Written(saved)}
           /\ mem' = [z \in Server |-> mem'[z]]
<1>1. mem' = [z \in Server |-> IF z = s THEN held ELSE mem[z]]
  BY DEF Holds
<1>2. snapshot' \in {snapshot, Written(saved)}
  BY DEF Save
<1>3. \A z \in Server : Reacquired(z)' = IF z \in fresh' THEN mem'[z] ELSE snapshot'
  BY DEF Reacquired
<1> QED  BY <1>1, <1>2, <1>3 DEF Live, Save, Outcome, Reacquired

LEMMA AfterNoSave ==
    ASSUME NEW s \in Server, NEW held, mem = [z \in Server |-> mem[z]],
           NoSave(s), Holds(s, held)
    PROVE  /\ Live' \subseteq Live \cup {held}
           /\ mem' = [z \in Server |-> mem'[z]]
<1>1. mem' = [z \in Server |-> IF z = s THEN held ELSE mem[z]]
  BY DEF Holds
<1>2. \A z \in Server : Reacquired(z)' = IF z \in fresh' THEN mem'[z] ELSE snapshot'
  BY DEF Reacquired
<1> QED  BY <1>1, <1>2 DEF Live, NoSave, Reacquired

-------------------------------------------------------------------------------
\* What each tool does to a good state.

\* Writing and reading back loses nothing that Good speaks of.
LEMMA GoodWritten ==
    ASSUME NEW st, NEW ns, NEW ys, NEW ts, NEW g, NEW k, Good(st, ns, ys, ts, g, k)
    PROVE  Good(Written(st), ns, ys, ts, g, k)
<1> DEFINE new == Written(st)
           reread == [x \in DOMAIN st.sessions |->
                        [turn |-> st.sessions[x].turn, kv |-> st.sessions[x].kv,
                         attached |-> st.sessions[x].kv]]
<1>1. new = [sessions |-> reread, log |-> st.log,
             annotations |-> st.annotations, next_annotation |-> st.next_annotation,
             dynamic |-> st.dynamic, next_symbol_id |-> st.next_symbol_id]
  BY DEF Written, Good, Shape
<1>2. /\ DOMAIN new.sessions = DOMAIN st.sessions
      /\ \A x \in DOMAIN st.sessions : new.sessions[x].turn = st.sessions[x].turn
  BY <1>1
<1>3. Shape(new)
  BY <1>1, <1>2 DEF Good, Shape
<1>4. NotesGood(new, ns) /\ SymbolsGood(new, ys) /\ LogGood(new, g, k)
  BY <1>1 DEF Good, NotesGood, SymbolsGood, LogGood
<1>5. TurnsGood(new, ts)
  BY <1>2 DEF Good, TurnsGood
<1> QED  BY <1>3, <1>4, <1>5 DEF Good

LEMMA GoodNote ==
    ASSUME NEW st, NEW ns, NEW ys, NEW ts, NEW g, NEW k, Good(st, ns, ys, ts, g, k),
           NEW path \in Path, NEW m \in Made
    PROVE  LET note == [id |-> st.next_annotation + 1, path |-> path, made |-> m]
               new == [st EXCEPT !.next_annotation = @ + 1, !.annotations = @ \cup {note}]
           IN  Good(new, ns, ys, ts, g, k) /\ Good(new, ns \cup {note}, ys, ts, g, k)
<1> DEFINE note == [id |-> st.next_annotation + 1, path |-> path, made |-> m]
           new == [st EXCEPT !.next_annotation = @ + 1, !.annotations = @ \cup {note}]
<1>0. st = [sessions |-> st.sessions, log |-> st.log,
            annotations |-> st.annotations, next_annotation |-> st.next_annotation,
            dynamic |-> st.dynamic, next_symbol_id |-> st.next_symbol_id]
  BY DEF Good, Shape
<1>a. st.next_annotation \in Nat
  BY DEF Good, Shape
<1>b. new = [st EXCEPT !.next_annotation = st.next_annotation + 1,
                      !.annotations = st.annotations \cup {note}]
  OBVIOUS
<1> HIDE DEF note, new
<1>1. new = [sessions |-> st.sessions, log |-> st.log,
             annotations |-> st.annotations \cup {note}, next_annotation |-> st.next_annotation + 1,
             dynamic |-> st.dynamic, next_symbol_id |-> st.next_symbol_id]
  BY <1>0, <1>a, <1>b
<1>2. note \in Note /\ note.id = st.next_annotation + 1
  BY DEF Good, Shape, Note, note
<1>3. Shape(new)
  BY <1>1, <1>2 DEF Good, Shape
<1>4. \A n \in new.annotations : n.id <= new.next_annotation
  BY <1>1, <1>2 DEF Good, Shape, NotesGood, Note
<1>5. \A old \in ns : old \in st.annotations
  BY DEF Good, NotesGood
<1>6. \A old \in ns : old.id <= st.next_annotation /\ old.id # note.id
  BY <1>2, <1>5 DEF Good, Shape, NotesGood, Note
<1>7. \A old \in ns : {n \in new.annotations : n.id = old.id} = {old}
  BY <1>1, <1>6 DEF Good, NotesGood
<1>8. {n \in new.annotations : n.id = note.id} = {note}
  BY <1>1, <1>2 DEF Good, Shape, NotesGood, Note
<1>9. SymbolsGood(new, ys) /\ TurnsGood(new, ts) /\ LogGood(new, g, k)
  BY <1>1 DEF Good, SymbolsGood, TurnsGood, LogGood
<1>10. NotesGood(new, ns) /\ NotesGood(new, ns \cup {note})
  BY <1>4, <1>7, <1>8 DEF NotesGood
<1> QED  BY <1>3, <1>9, <1>10 DEF Good, note, new

\* An update keeps ids, so the rows told and the rows there change alike.
LEMMA GoodUpdate ==
    ASSUME NEW st, NEW ns, NEW ys, NEW ts, NEW g, NEW k, Good(st, ns, ys, ts, g, k),
           NEW id, NEW m \in Made
    PROVE  LET new == [st EXCEPT !.annotations = Rewritten(@, id, m)]
           IN  /\ Good(new, Rewritten(ns, id, m), ys, ts, g, k)
               /\ Good(new, {n \in ns : n.id # id}, ys, ts, g, k)
<1> DEFINE Change(n) == IF n.id = id THEN [n EXCEPT !.made = m] ELSE n
           new == [st EXCEPT !.annotations = Rewritten(@, id, m)]
<1>0. st = [sessions |-> st.sessions, log |-> st.log,
            annotations |-> st.annotations, next_annotation |-> st.next_annotation,
            dynamic |-> st.dynamic, next_symbol_id |-> st.next_symbol_id]
  BY DEF Good, Shape
<1>r. \A rows : Rewritten(rows, id, m) = {Change(n) : n \in rows}
  BY DEF Rewritten
<1> HIDE DEF Change
<1>1. new = [sessions |-> st.sessions, log |-> st.log,
             annotations |-> Rewritten(st.annotations, id, m), next_annotation |-> st.next_annotation,
             dynamic |-> st.dynamic, next_symbol_id |-> st.next_symbol_id]
  BY <1>0
<1>2. \A n \in Note : Change(n) \in Note /\ Change(n).id = n.id
  BY DEF Note, Change
<1>3. \A n : n.id # id => Change(n) = n
  BY DEF Change
<1>4. ns \subseteq st.annotations /\ st.annotations \subseteq Note
  BY DEF Good, Shape, NotesGood
<1>5. Rewritten(st.annotations, id, m) \subseteq Note
  BY <1>2, <1>4, <1>r
<1>6. \A note \in ns : {n \in Rewritten(st.annotations, id, m) : n.id = note.id} = {Change(note)}
  <2> SUFFICES ASSUME NEW note \in ns
               PROVE  {n \in Rewritten(st.annotations, id, m) : n.id = note.id} = {Change(note)}
    OBVIOUS
  <2>1. {n \in st.annotations : n.id = note.id} = {note}
    BY DEF Good, NotesGood
  <2>2. \A n \in st.annotations : Change(n).id = n.id
    BY <1>2, <1>4
  <2> QED  BY <2>1, <2>2, <1>4, <1>r
<1>7. \A n \in Rewritten(st.annotations, id, m) : n.id <= st.next_annotation
  BY <1>2, <1>4, <1>r DEF Good, NotesGood
<1> HIDE DEF new
<1>8. Shape(new)
  BY <1>1, <1>5 DEF Good, Shape
<1>9. NotesGood(new, Rewritten(ns, id, m))
  <2> SUFFICES ASSUME NEW note \in ns
               PROVE  {n \in new.annotations : n.id = Change(note).id} = {Change(note)}
    BY <1>1, <1>7, <1>r DEF NotesGood
  <2> QED  BY <1>1, <1>2, <1>4, <1>6
<1>10. NotesGood(new, {n \in ns : n.id # id})
  BY <1>1, <1>3, <1>6, <1>7 DEF NotesGood
<1>11. SymbolsGood(new, ys) /\ TurnsGood(new, ts) /\ LogGood(new, g, k)
  BY <1>1 DEF Good, SymbolsGood, TurnsGood, LogGood
<1> QED  BY <1>8, <1>9, <1>10, <1>11 DEF Good, new

LEMMA GoodDelete ==
    ASSUME NEW st, NEW ns, NEW ys, NEW ts, NEW g, NEW k, Good(st, ns, ys, ts, g, k), NEW which
    PROVE  /\ Good([st EXCEPT !.annotations = Others(@, which)], Others(ns, which), ys, ts, g, k)
           /\ Good(st, Others(ns, which), ys, ts, g, k)
<1> DEFINE new == [st EXCEPT !.annotations = Others(@, which)]
<1>0. st = [sessions |-> st.sessions, log |-> st.log,
            annotations |-> st.annotations, next_annotation |-> st.next_annotation,
            dynamic |-> st.dynamic, next_symbol_id |-> st.next_symbol_id]
  BY DEF Good, Shape
<1>1. new = [sessions |-> st.sessions, log |-> st.log,
             annotations |-> Others(st.annotations, which), next_annotation |-> st.next_annotation,
             dynamic |-> st.dynamic, next_symbol_id |-> st.next_symbol_id]
  BY <1>0
<1> HIDE DEF new
<1>2. Shape(new)
  BY <1>1 DEF Good, Shape, Others
<1>3. NotesGood(new, Others(ns, which)) /\ NotesGood(st, Others(ns, which))
  BY <1>1 DEF Good, NotesGood, Others
<1>4. SymbolsGood(new, ys) /\ TurnsGood(new, ts) /\ LogGood(new, g, k)
  BY <1>1 DEF Good, SymbolsGood, TurnsGood, LogGood
<1> QED  BY <1>2, <1>3, <1>4 DEF Good, new

\* A taken id is above those in use and those told.
LEMMA TakenId ==
    ASSUME NEW st, NEW ys, Shape(st), SymbolsGood(st, ys), ys \subseteq Symbol
    PROVE  /\ TakeSymbolId(st) \in Nat
           /\ st.next_symbol_id <= TakeSymbolId(st)
           /\ \A d \in st.dynamic : d.id < TakeSymbolId(st)
           /\ \A old \in ys : old.id < TakeSymbolId(st)
<1>1. CASE st.next_symbol_id = 0
  <2>1. st.dynamic = {} /\ ys = {}
    BY <1>1 DEF SymbolsGood, Shape, Symbol
  <2>2. Largest({d.id : d \in st.dynamic}) = 0
    BY <2>1 DEF Largest
  <2> QED  BY <1>1, <2>1, <2>2 DEF TakeSymbolId
<1>2. CASE st.next_symbol_id # 0
  BY <1>2 DEF TakeSymbolId, SymbolsGood, Shape
<1> QED  BY <1>1, <1>2

LEMMA GoodRegister ==
    ASSUME NEW st, NEW ns, NEW ys, NEW ts, NEW g, NEW k, Good(st, ns, ys, ts, g, k),
           ys \subseteq Symbol, NEW name \in Name, NEW agent \in Agent, NEW m \in Made
    PROVE  LET symbol == [id |-> TakeSymbolId(st), name |-> name, agent |-> None, made |-> m]
               owned == [symbol EXCEPT !.agent = agent]
               state == [st EXCEPT !.dynamic = @ \cup {symbol}, !.next_symbol_id = TakeSymbolId(st) + 1]
               held == [state EXCEPT !.dynamic = (@ \ {symbol}) \cup {owned}]
           IN  /\ Good(state, ns, ys, ts, g, k) /\ Good(state, ns, ys \cup {owned}, ts, g, k)
               /\ Good(held, ns, ys \cup {owned}, ts, g, k)
               /\ owned \in Symbol
<1> DEFINE id == TakeSymbolId(st)
           symbol == [id |-> id, name |-> name, agent |-> None, made |-> m]
           owned == [symbol EXCEPT !.agent = agent]
           state == [st EXCEPT !.dynamic = @ \cup {symbol}, !.next_symbol_id = id + 1]
           held == [state EXCEPT !.dynamic = (@ \ {symbol}) \cup {owned}]
<1>0. st = [sessions |-> st.sessions, log |-> st.log,
            annotations |-> st.annotations, next_annotation |-> st.next_annotation,
            dynamic |-> st.dynamic, next_symbol_id |-> st.next_symbol_id]
  BY DEF Good, Shape
<1>1. /\ id \in Nat
      /\ \A d \in st.dynamic : d.id < id
      /\ \A old \in ys : old.id < id
  BY TakenId DEF Good
<1> HIDE DEF id
<1>2. /\ symbol \in Symbol /\ symbol.id = id /\ symbol.made = m
      /\ owned \in Symbol /\ owned.id = id /\ owned.made = m
  BY <1>1 DEF Symbol
<1>3. state = [st EXCEPT !.dynamic = st.dynamic \cup {symbol}, !.next_symbol_id = id + 1]
  OBVIOUS
<1> HIDE DEF symbol, owned, state
<1>4. state = [sessions |-> st.sessions, log |-> st.log,
               annotations |-> st.annotations, next_annotation |-> st.next_annotation,
               dynamic |-> st.dynamic \cup {symbol}, next_symbol_id |-> id + 1]
  BY <1>0, <1>1, <1>3
<1>5. held = [state EXCEPT !.dynamic = (state.dynamic \ {symbol}) \cup {owned}]
  OBVIOUS
<1> HIDE DEF held
<1>6. held = [sessions |-> st.sessions, log |-> st.log,
              annotations |-> st.annotations, next_annotation |-> st.next_annotation,
              dynamic |-> (state.dynamic \ {symbol}) \cup {owned}, next_symbol_id |-> id + 1]
  BY <1>4, <1>5
<1>7. \A new \in {state, held} :
        /\ new.dynamic \subseteq st.dynamic \cup {symbol, owned}
        /\ new.next_symbol_id = id + 1
  BY <1>4, <1>6
<1>8. \A new \in {state, held} : Shape(new)
  BY <1>1, <1>2, <1>4, <1>6, <1>7 DEF Good, Shape
<1>9. st.dynamic \subseteq Symbol
  BY DEF Good, Shape
<1>10. \A new \in {state, held} : SymbolsGood(new, ys) /\ SymbolsGood(new, ys \cup {owned})
  <2> SUFFICES ASSUME NEW new \in {state, held}
               PROVE  SymbolsGood(new, ys) /\ SymbolsGood(new, ys \cup {owned})
    OBVIOUS
  <2>1. \A d \in new.dynamic : d.id < new.next_symbol_id
    BY <1>1, <1>2, <1>7, <1>9 DEF Symbol
  <2>2. \A old \in ys \cup {owned} : old.id < new.next_symbol_id
    BY <1>1, <1>2, <1>7 DEF Symbol
  <2>3. \A old \in ys, d \in new.dynamic : d.id = old.id => d.made = old.made
    BY <1>1, <1>2, <1>7, <1>9 DEF Symbol, Good, SymbolsGood
  <2>4. \A d \in new.dynamic : d.id = owned.id => d.made = owned.made
    BY <1>1, <1>2, <1>7, <1>9 DEF Symbol
  <2> QED  BY <2>1, <2>2, <2>3, <2>4 DEF SymbolsGood
<1>11. \A new \in {state, held} : NotesGood(new, ns) /\ TurnsGood(new, ts) /\ LogGood(new, g, k)
  BY <1>4, <1>6 DEF Good, NotesGood, TurnsGood, LogGood
<1> QED  BY <1>2, <1>8, <1>10, <1>11 DEF Good, held, state, owned, symbol, id

LEMMA GoodRemove ==
    ASSUME NEW st, NEW ns, NEW ys, NEW ts, NEW g, NEW k, Good(st, ns, ys, ts, g, k),
           NEW names, NEW agents
    PROVE  Good([st EXCEPT !.dynamic = {d \in @ : d.name \notin names /\ d.agent \notin agents}],
                ns, ys, ts, g, k)
<1> DEFINE rest == {d \in st.dynamic : d.name \notin names /\ d.agent \notin agents}
           new == [st EXCEPT !.dynamic = rest]
<1>0. st = [sessions |-> st.sessions, log |-> st.log,
            annotations |-> st.annotations, next_annotation |-> st.next_annotation,
            dynamic |-> st.dynamic, next_symbol_id |-> st.next_symbol_id]
  BY DEF Good, Shape
<1>1. rest \subseteq st.dynamic
  OBVIOUS
<1> HIDE DEF rest
<1>2. new = [sessions |-> st.sessions, log |-> st.log,
             annotations |-> st.annotations, next_annotation |-> st.next_annotation,
             dynamic |-> rest, next_symbol_id |-> st.next_symbol_id]
  BY <1>0
<1> HIDE DEF new
<1>3. Good(new, ns, ys, ts, g, k)
  BY <1>1, <1>2 DEF Good, Shape, NotesGood, SymbolsGood, TurnsGood, LogGood
<1> QED  BY <1>3 DEF new, rest

LEMMA GoodIndexed ==
    ASSUME NEW st, NEW ns, NEW ys, NEW ts, NEW g, NEW k, Good(st, ns, ys, ts, g, k),
           ys \subseteq Symbol, NEW ids \in Nat
    PROVE  Good(Indexed(st, ids), ns, ys, ts, g, k)
<1> DEFINE next == IF ids = 0 THEN st.next_symbol_id ELSE TakeSymbolId(st) + ids
           new == Indexed(st, ids)
<1>0. st = [sessions |-> st.sessions, log |-> st.log,
            annotations |-> st.annotations, next_annotation |-> st.next_annotation,
            dynamic |-> st.dynamic, next_symbol_id |-> st.next_symbol_id]
  BY DEF Good, Shape
<1>1. /\ next \in Nat
      /\ \A d \in st.dynamic : d.id < next
      /\ \A old \in ys : old.id < next
  BY TakenId DEF Good, Shape, SymbolsGood, Symbol
<1>2. new = [st EXCEPT !.next_symbol_id = next]
  BY DEF Indexed
<1> HIDE DEF next, new
<1>3. new = [sessions |-> st.sessions, log |-> st.log,
             annotations |-> st.annotations, next_annotation |-> st.next_annotation,
             dynamic |-> st.dynamic, next_symbol_id |-> next]
  BY <1>0, <1>2
<1>4. Shape(new)
  BY <1>1, <1>3 DEF Good, Shape
<1>5. SymbolsGood(new, ys)
  BY <1>1, <1>3 DEF Good, SymbolsGood
<1>6. NotesGood(new, ns) /\ TurnsGood(new, ts) /\ LogGood(new, g, k)
  BY <1>3 DEF Good, NotesGood, TurnsGood, LogGood
<1> QED  BY <1>4, <1>5, <1>6 DEF Good, new

LEMMA GoodRebuild ==
    ASSUME NEW st, NEW ns, NEW ys, NEW ts, NEW g, NEW k, Good(st, ns, ys, ts, g, k),
           ys \subseteq Symbol, NEW ids \in Nat
    PROVE  Good(Indexed([st EXCEPT !.dynamic = {}], ids), ns, ys, ts, g, k)
<1> DEFINE new == [st EXCEPT !.dynamic = {}]
<1>0. st = [sessions |-> st.sessions, log |-> st.log,
            annotations |-> st.annotations, next_annotation |-> st.next_annotation,
            dynamic |-> st.dynamic, next_symbol_id |-> st.next_symbol_id]
  BY DEF Good, Shape
<1>1. new = [sessions |-> st.sessions, log |-> st.log,
             annotations |-> st.annotations, next_annotation |-> st.next_annotation,
             dynamic |-> {}, next_symbol_id |-> st.next_symbol_id]
  BY <1>0
<1> HIDE DEF new
<1>2. Good(new, ns, ys, ts, g, k)
  BY <1>1 DEF Good, Shape, NotesGood, SymbolsGood, TurnsGood, LogGood
<1> QED  BY <1>2, GoodIndexed DEF new

LEMMA GoodSession ==
    ASSUME NEW st, NEW ns, NEW ys, NEW ts, NEW g, NEW k, Good(st, ns, ys, ts, g, k),
           NEW x \in Session
    PROVE  /\ Good(WithSession(st, x), ns, ys, ts, g, k)
           /\ x \in DOMAIN WithSession(st, x).sessions
<1> DEFINE opened == [y \in DOMAIN st.sessions \cup {x} |->
                        IF y \in DOMAIN st.sessions THEN st.sessions[y]
                        ELSE [turn |-> 0, kv |-> <<>>, attached |-> <<>>]]
           new == WithSession(st, x)
<1>0. st = [sessions |-> st.sessions, log |-> st.log,
            annotations |-> st.annotations, next_annotation |-> st.next_annotation,
            dynamic |-> st.dynamic, next_symbol_id |-> st.next_symbol_id]
  BY DEF Good, Shape
<1>1. new = [st EXCEPT !.sessions = opened]
  BY DEF WithSession
<1>2. /\ x \in DOMAIN opened
      /\ \A y \in DOMAIN opened : opened[y].turn \in Nat
      /\ \A y \in DOMAIN st.sessions : y \in DOMAIN opened /\ opened[y] = st.sessions[y]
  BY DEF Good, Shape
<1> HIDE DEF opened, new
<1>3. new = [sessions |-> opened, log |-> st.log,
             annotations |-> st.annotations, next_annotation |-> st.next_annotation,
             dynamic |-> st.dynamic, next_symbol_id |-> st.next_symbol_id]
  BY <1>0, <1>1
<1>4. Shape(new)
  BY <1>2, <1>3 DEF Good, Shape
<1>5. TurnsGood(new, ts)
  BY <1>2, <1>3 DEF Good, TurnsGood
<1>6. NotesGood(new, ns) /\ SymbolsGood(new, ys) /\ LogGood(new, g, k)
  BY <1>3 DEF Good, NotesGood, SymbolsGood, LogGood
<1> QED  BY <1>2, <1>3, <1>4, <1>5, <1>6 DEF Good, new

\* A session goes to another turn: later than it was told, or told to go there.
LEMMA GoodTurn ==
    ASSUME NEW st, NEW ns, NEW ys, NEW ts, NEW g, NEW k, Good(st, ns, ys, ts, g, k),
           NEW x \in Session, x \in DOMAIN st.sessions, NEW row, row.turn \in Nat,
           NEW tx, \A y \in Session : y # x => tx[y] = ts[y], tx[x] < row.turn
    PROVE  Good([st EXCEPT !.sessions[x] = row], ns, ys, tx, g, k)
<1> DEFINE opened == [st.sessions EXCEPT ![x] = row]
           new == [st EXCEPT !.sessions[x] = row]
<1>0. st = [sessions |-> st.sessions, log |-> st.log,
            annotations |-> st.annotations, next_annotation |-> st.next_annotation,
            dynamic |-> st.dynamic, next_symbol_id |-> st.next_symbol_id]
  BY DEF Good, Shape
<1>1. new = [st EXCEPT !.sessions = opened]
  OBVIOUS
<1>2. /\ DOMAIN opened = DOMAIN st.sessions
      /\ opened[x] = row
      /\ \A y \in DOMAIN st.sessions : y # x => opened[y] = st.sessions[y]
  OBVIOUS
<1> HIDE DEF opened, new
<1>3. new = [sessions |-> opened, log |-> st.log,
             annotations |-> st.annotations, next_annotation |-> st.next_annotation,
             dynamic |-> st.dynamic, next_symbol_id |-> st.next_symbol_id]
  BY <1>0, <1>1
<1>4. Shape(new)
  BY <1>2, <1>3 DEF Good, Shape
<1>5. TurnsGood(new, tx)
  BY <1>2, <1>3 DEF Good, TurnsGood
<1>6. NotesGood(new, ns) /\ SymbolsGood(new, ys) /\ LogGood(new, g, k)
  BY <1>3 DEF Good, NotesGood, SymbolsGood, LogGood
<1> QED  BY <1>4, <1>5, <1>6 DEF Good, new

\* prune_chunks: the turn stays.
LEMMA GoodPrunedChunks ==
    ASSUME NEW st, NEW ns, NEW ys, NEW ts, NEW g, NEW k, Good(st, ns, ys, ts, g, k),
           NEW x \in Session, x \in DOMAIN st.sessions, NEW rows
    PROVE  Good([st EXCEPT !.sessions[x].attached = rows], ns, ys, ts, g, k)
<1> DEFINE opened == [st.sessions EXCEPT ![x].attached = rows]
           new == [st EXCEPT !.sessions[x].attached = rows]
<1>0. st = [sessions |-> st.sessions, log |-> st.log,
            annotations |-> st.annotations, next_annotation |-> st.next_annotation,
            dynamic |-> st.dynamic, next_symbol_id |-> st.next_symbol_id]
  BY DEF Good, Shape
<1>1. new = [st EXCEPT !.sessions = opened]
  OBVIOUS
<1>2. /\ DOMAIN opened = DOMAIN st.sessions
      /\ \A y \in DOMAIN st.sessions : opened[y].turn = st.sessions[y].turn
  OBVIOUS
<1> HIDE DEF opened, new
<1>3. new = [sessions |-> opened, log |-> st.log,
             annotations |-> st.annotations, next_annotation |-> st.next_annotation,
             dynamic |-> st.dynamic, next_symbol_id |-> st.next_symbol_id]
  BY <1>0, <1>1
<1>4. Shape(new)
  BY <1>2, <1>3 DEF Good, Shape
<1>5. TurnsGood(new, ts)
  BY <1>2, <1>3 DEF Good, TurnsGood
<1>6. NotesGood(new, ns) /\ SymbolsGood(new, ys) /\ LogGood(new, g, k)
  BY <1>3 DEF Good, NotesGood, SymbolsGood, LogGood
<1> QED  BY <1>4, <1>5, <1>6 DEF Good, new

\* remember_change: the number of the detect run is above those in the log.
LEMMA GoodRemembered ==
    ASSUME NEW st, NEW ns, NEW ys, NEW ts, NEW g, NEW k, Good(st, ns, ys, ts, g, k),
           k \in Nat, g \subseteq 0..k
    PROVE  /\ Good([st EXCEPT !.log = Append(@, k + 1)], ns, ys, ts, g, k + 1)
           /\ Good(st, ns, ys, ts, g, k + 1)
<1> DEFINE longer == Append(st.log, k + 1)
           new == [st EXCEPT !.log = longer]
<1>0. st = [sessions |-> st.sessions, log |-> st.log,
            annotations |-> st.annotations, next_annotation |-> st.next_annotation,
            dynamic |-> st.dynamic, next_symbol_id |-> st.next_symbol_id]
  BY DEF Good, Shape
<1>1. st.log \in Seq(Nat) /\ Increasing(st.log, k) /\ \A i \in DOMAIN st.log : st.log[i] \notin g
  BY DEF Good, Shape, LogGood
<1>2. /\ longer \in Seq(Nat) /\ DOMAIN longer = 1..(Len(st.log) + 1)
      /\ DOMAIN st.log = 1..Len(st.log) /\ Len(st.log) \in Nat
      /\ \A i \in DOMAIN st.log : longer[i] = st.log[i] /\ st.log[i] \in Nat
      /\ longer[Len(st.log) + 1] = k + 1
  BY <1>1
<1> HIDE DEF longer, new
<1>3. Increasing(longer, k + 1) /\ Increasing(st.log, k + 1)
  <2>1. \A i \in DOMAIN st.log : longer[i] <= k
    BY <1>1, <1>2 DEF Increasing
  <2>2. \A i \in DOMAIN longer : longer[i] <= k + 1
    BY <2>1, <1>2
  <2>3. ASSUME NEW i \in DOMAIN longer, NEW j \in DOMAIN longer, i < j
        PROVE  longer[i] < longer[j]
    <3>1. i \in DOMAIN st.log
      BY <2>3, <1>2
    <3>2. CASE j = Len(st.log) + 1
      BY <3>1, <3>2, <2>1, <1>2
    <3>3. CASE j # Len(st.log) + 1
      <4>1. j \in DOMAIN st.log
        BY <3>3, <1>2
      <4> QED  BY <4>1, <3>1, <2>3, <1>1, <1>2 DEF Increasing
    <3> QED  BY <3>2, <3>3
  <2>4. Increasing(st.log, k + 1)
    BY <1>1, <1>2 DEF Increasing
  <2> QED  BY <2>2, <2>3, <2>4 DEF Increasing
<1>4. \A i \in DOMAIN longer : longer[i] \notin g
  <2>1. k + 1 \notin g
    OBVIOUS
  <2>2. \A i \in DOMAIN longer : i = Len(st.log) + 1 \/ i \in DOMAIN st.log
    BY <1>2
  <2> QED  BY <2>1, <2>2, <1>1, <1>2
<1>5. new = [st EXCEPT !.log = longer]
  BY DEF new
<1>6. new = [sessions |-> st.sessions, log |-> longer,
             annotations |-> st.annotations, next_annotation |-> st.next_annotation,
             dynamic |-> st.dynamic, next_symbol_id |-> st.next_symbol_id]
  BY <1>0, <1>5
<1>7. Good(new, ns, ys, ts, g, k + 1)
  BY <1>2, <1>3, <1>4, <1>6 DEF Good, Shape, NotesGood, SymbolsGood, TurnsGood, LogGood
<1>8. Good(st, ns, ys, ts, g, k + 1)
  BY <1>1, <1>3 DEF Good, LogGood
<1> QED  BY <1>7, <1>8 DEF new, longer

\* What is left of an increasing log has nothing of what was dropped.
LEMMA GoodNewest ==
    ASSUME NEW st, NEW ns, NEW ys, NEW ts, NEW g, NEW k, Good(st, ns, ys, ts, g, k),
           NEW max \in Nat
    PROVE  LET new == [st EXCEPT !.log = Newest(@, max)]
           IN  /\ Good(new, ns, ys, ts, g, k)
               /\ Good(new, ns, ys, ts, g \cup Dropped(st.log, max), k)
               /\ k \in Nat => Dropped(st.log, max) \subseteq 0..k
<1> DEFINE first == IF Len(st.log) > max THEN Len(st.log) - max + 1 ELSE 1
           rest == Newest(st.log, max)
           new == [st EXCEPT !.log = rest]
<1>0. st = [sessions |-> st.sessions, log |-> st.log,
            annotations |-> st.annotations, next_annotation |-> st.next_annotation,
            dynamic |-> st.dynamic, next_symbol_id |-> st.next_symbol_id]
  BY DEF Good, Shape
<1>1. st.log \in Seq(Nat) /\ Increasing(st.log, k) /\ \A i \in DOMAIN st.log : st.log[i] \notin g
  BY DEF Good, Shape, LogGood
<1>2. /\ DOMAIN st.log = 1..Len(st.log) /\ Len(st.log) \in Nat
      /\ first \in Nat /\ first >= 1
      /\ \A i \in DOMAIN st.log : st.log[i] \in Nat
  BY <1>1
<1>3. rest = SubSeq(st.log, first, Len(st.log))
  BY DEF Newest
<1> HIDE DEF first
<1> HIDE DEF rest, new
<1>4. /\ rest \in Seq(Nat)
      /\ \A i \in DOMAIN rest : /\ i \in Nat /\ i + first - 1 \in DOMAIN st.log
                                /\ rest[i] = st.log[i + first - 1]
  <2> DEFINE n == IF first <= Len(st.log) THEN Len(st.log) - first + 1 ELSE 0
  <2>1. rest \in Seq(Nat)
    BY <1>1, <1>2, <1>3
  <2>2. Len(rest) = n /\ DOMAIN rest = 1..n
    BY <1>1, <1>2, <1>3
  <2>3. \A i \in 1..n : rest[i] = st.log[i + first - 1]
    BY <1>1, <1>2, <1>3
  <2>4. \A i \in 1..n : i \in Nat /\ i + first - 1 \in 1..Len(st.log)
    BY <1>2
  <2> HIDE DEF n
  <2> QED  BY <2>1, <2>2, <2>3, <2>4, <1>2
<1>5. Increasing(rest, k)
  <2>1. \A i \in DOMAIN rest : rest[i] <= k
    BY <1>1, <1>4 DEF Increasing
  <2>2. ASSUME NEW i \in DOMAIN rest, NEW j \in DOMAIN rest, i < j
        PROVE  rest[i] < rest[j]
    <3>1. i + first - 1 < j + first - 1
      BY <2>2, <1>2, <1>4
    <3> QED  BY <3>1, <1>1, <1>4 DEF Increasing
  <2> QED  BY <2>1, <2>2 DEF Increasing
<1>6. \A i \in DOMAIN rest : rest[i] \notin g /\ rest[i] \notin Dropped(st.log, max)
  BY <1>1, <1>4 DEF Dropped, ToSet, rest
<1>7. new = [st EXCEPT !.log = rest]
  BY DEF new
<1>8. new = [sessions |-> st.sessions, log |-> rest,
             annotations |-> st.annotations, next_annotation |-> st.next_annotation,
             dynamic |-> st.dynamic, next_symbol_id |-> st.next_symbol_id]
  BY <1>0, <1>7
<1>9. Shape(new) /\ NotesGood(new, ns) /\ SymbolsGood(new, ys) /\ TurnsGood(new, ts)
  BY <1>4, <1>8 DEF Good, Shape, NotesGood, SymbolsGood, TurnsGood
<1>10. LogGood(new, g, k) /\ LogGood(new, g \cup Dropped(st.log, max), k)
  BY <1>5, <1>6, <1>8 DEF LogGood
<1>11. k \in Nat => Dropped(st.log, max) \subseteq 0..k
  BY <1>1, <1>2 DEF Dropped, ToSet, Increasing
<1> QED  BY <1>9, <1>10, <1>11 DEF Good, new, rest

LEMMA GoodCleared ==
    ASSUME NEW g, NEW k
    PROVE  Good(NoState, {}, {}, [x \in Session |-> -1], g, k)
<1>1. Shape(NoState)
  BY DEF Shape, NoState
<1>2. NotesGood(NoState, {}) /\ SymbolsGood(NoState, {})
  BY DEF NotesGood, SymbolsGood, NoState
<1>3. TurnsGood(NoState, [x \in Session |-> -1])
  BY DEF TurnsGood
<1>4. LogGood(NoState, g, k)
  BY DEF LogGood, Increasing, NoState
<1> QED  BY <1>1, <1>2, <1>3, <1>4 DEF Good

\* A state good for what was told is good for less.
LEMMA GoodForLess ==
    ASSUME NEW st, NEW ns, NEW ys, NEW ts, NEW g, NEW k, Good(st, ns, ys, ts, g, k),
           NEW nx, nx \subseteq ns, NEW yx, yx \subseteq ys,
           ts \in [Session -> Int], NEW tx \in [Session -> Int],
           \A x \in Session : tx[x] < 0 \/ tx[x] <= ts[x]
    PROVE  Good(st, nx, yx, tx, g, k)
<1>1. NotesGood(st, nx) /\ SymbolsGood(st, yx)
  BY DEF Good, NotesGood, SymbolsGood
<1>2. TurnsGood(st, tx)
  <2> SUFFICES ASSUME NEW x \in Session, tx[x] >= 0
               PROVE  x \in DOMAIN st.sessions /\ st.sessions[x].turn > tx[x]
    BY DEF TurnsGood
  <2>1. tx[x] <= ts[x] /\ ts[x] >= 0 /\ tx[x] \in Int /\ ts[x] \in Int
    OBVIOUS
  <2>2. x \in DOMAIN st.sessions /\ st.sessions[x].turn > ts[x]
    BY <2>1 DEF Good, TurnsGood
  <2>3. st.sessions[x].turn \in Nat
    BY <2>2 DEF Good, Shape
  <2> QED  BY <2>1, <2>2, <2>3
<1> QED  BY <1>1, <1>2 DEF Good

-------------------------------------------------------------------------------
\* Each action keeps the invariant.

LEMMA SaveStep ==
    ASSUME IInv, NEW s \in Server, NEW saved, NEW held, NEW outcome \in Outcome,
           Save(s, saved, outcome), Holds(s, held), made' \in 0..MaxMade,
           Told(notes', symbols', turns', gone', changes'),
           file' \in Seq(Nat), Increasing(file', changes'),
           Good(saved, notes', symbols', turns', gone', changes'),
           Good(held, notes', symbols', turns', gone', changes'),
           outcome # "ok" =>
              \A st \in Live : Good(st, notes', symbols', turns', gone', changes')
    PROVE  IInv'
<1>1. /\ Live' \subseteq Live \cup {held, Written(saved)}
      /\ outcome = "ok" => Live' \subseteq {held, Written(saved)}
      /\ mem' = [z \in Server |-> mem'[z]]
  BY AfterSave DEF IInv
<1>2. Good(Written(saved), notes', symbols', turns', gone', changes')
  BY GoodWritten
<1>3. \A st \in Live' : Good(st, notes', symbols', turns', gone', changes')
  BY <1>1, <1>2
<1> QED  BY <1>1, <1>3 DEF IInv

LEMMA NoSaveStep ==
    ASSUME IInv, NEW s \in Server, NEW held,
           NoSave(s), Holds(s, held), made' \in 0..MaxMade,
           Told(notes', symbols', turns', gone', changes'),
           file' \in Seq(Nat), Increasing(file', changes'),
           Good(held, notes', symbols', turns', gone', changes'),
           \A st \in Live : Good(st, notes', symbols', turns', gone', changes')
    PROVE  IInv'
<1>1. /\ Live' \subseteq Live \cup {held}
      /\ mem' = [z \in Server |-> mem'[z]]
  BY AfterNoSave DEF IInv
<1>2. \A st \in Live' : Good(st, notes', symbols', turns', gone', changes')
  BY <1>1
<1> QED  BY <1>1, <1>2 DEF IInv

LEMMA AskStep ==
    ASSUME IInv, NEW s \in Server, Ask(s)
    PROVE  IInv'
<1>1. /\ NoSave(s) /\ Holds(s, Reacquired(s)) /\ UNCHANGED <<made, told, file, changes>>
  BY DEF Ask, Quiet
<1>2. \A st \in Live : Good(st, notes', symbols', turns', gone', changes')
  BY <1>1 DEF IInv, told
<1>3. Good(Reacquired(s), notes', symbols', turns', gone', changes')
  BY <1>2 DEF Live
<1>4. Told(notes', symbols', turns', gone', changes')
  BY <1>1 DEF IInv, told
<1> QED  BY <1>1, <1>2, <1>3, <1>4, NoSaveStep DEF IInv

LEMMA RestartStep ==
    ASSUME IInv, NEW s \in Server, Restart(s)
    PROVE  IInv'
<1>1. /\ mem' = [z \in Server |-> IF z = s THEN snapshot ELSE mem[z]]
      /\ fresh' = fresh \cup {s}
      /\ UNCHANGED <<snapshot, file, made, changes, notes, symbols, turns, gone>>
  BY DEF Restart, told, IInv
<1>2. \A z \in Server : Reacquired(z)' = IF z \in fresh' THEN mem'[z] ELSE snapshot'
  BY DEF Reacquired
<1>3. Live' \subseteq Live
  BY <1>1, <1>2 DEF Live, Reacquired
<1>4. mem' = [z \in Server |-> mem'[z]]
  BY <1>1
<1>5. Told(notes, symbols, turns, gone, changes)' /\ Increasing(file, changes)'
  BY <1>1 DEF IInv, Told, Increasing
<1> QED  BY <1>1, <1>3, <1>4, <1>5 DEF IInv

LEMMA AnnotateStep ==
    ASSUME IInv, NEW s \in Server, NEW path \in Path, NEW outcome \in Outcome,
           Annotate(s, path, outcome)
    PROVE  IInv'
<1> DEFINE cur == Reacquired(s)
           note == [id |-> cur.next_annotation + 1, path |-> path, made |-> made + 1]
           state == [cur EXCEPT !.next_annotation = @ + 1, !.annotations = @ \cup {note}]
<1>1. /\ Save(s, state, outcome) /\ Holds(s, state)
      /\ notes' = IF outcome = "ok" THEN notes \cup {note} ELSE notes
      /\ UNCHANGED <<symbols, turns, gone, file, changes>>
  BY DEF Annotate, Quiet
<1>2. made + 1 \in Made /\ made' \in 0..MaxMade
  BY RecordsAssumption DEF Annotate, Makes, IInv, Made
<1>3. Good(cur, notes, symbols, turns, gone, changes)
  BY DEF IInv, Live
<1> HIDE DEF cur
<1>4. /\ Good(state, notes, symbols, turns, gone, changes)
      /\ Good(state, notes \cup {note}, symbols, turns, gone, changes)
  BY <1>2, <1>3, GoodNote
<1> HIDE DEF note, state
<1>5. /\ Good(state, notes', symbols', turns', gone', changes')
      /\ outcome # "ok" => \A st \in Live : Good(st, notes', symbols', turns', gone', changes')
  BY <1>1, <1>4 DEF IInv
<1>6. Told(notes', symbols', turns', gone', changes')
  BY <1>1 DEF IInv, Told
<1> QED  BY <1>1, <1>2, <1>5, <1>6, SaveStep DEF IInv

LEMMA UpdateStep ==
    ASSUME IInv, NEW s \in Server, NEW id, NEW outcome \in Outcome,
           UpdateAnnotation(s, id, outcome)
    PROVE  IInv'
<1> DEFINE cur == Reacquired(s)
           fewer == {n \in notes : n.id # id}
           state == [cur EXCEPT !.annotations = Rewritten(@, id, made + 1)]
<1>1. /\ Save(s, state, outcome) /\ Holds(s, state)
      /\ notes' = IF outcome = "ok" THEN Rewritten(notes, id, made + 1) ELSE fewer
      /\ UNCHANGED <<symbols, turns, gone, file, changes>>
  BY DEF UpdateAnnotation, Quiet
<1>2. made + 1 \in Made /\ made' \in 0..MaxMade
  BY RecordsAssumption DEF UpdateAnnotation, Makes, IInv, Made
<1>3. Good(cur, notes, symbols, turns, gone, changes)
  BY DEF IInv, Live
<1> HIDE DEF cur
<1>4. /\ Good(state, Rewritten(notes, id, made + 1), symbols, turns, gone, changes)
      /\ Good(state, fewer, symbols, turns, gone, changes)
  BY <1>2, <1>3, GoodUpdate
<1>5. \A st \in Live : Good(st, fewer, symbols, turns, gone, changes)
  BY GoodForLess DEF IInv, Told
<1> HIDE DEF fewer, state
<1>6. /\ Good(state, notes', symbols', turns', gone', changes')
      /\ outcome # "ok" => \A st \in Live : Good(st, notes', symbols', turns', gone', changes')
  BY <1>1, <1>4, <1>5
<1>7. Told(notes', symbols', turns', gone', changes')
  BY <1>1 DEF IInv, Told
<1> QED  BY <1>1, <1>2, <1>6, <1>7, SaveStep DEF IInv

LEMMA DeleteStep ==
    ASSUME IInv, NEW s \in Server, NEW which, NEW outcome \in Outcome,
           DeleteAnnotation(s, which, outcome)
    PROVE  IInv'
<1> DEFINE cur == Reacquired(s)
           state == [cur EXCEPT !.annotations = Others(@, which)]
<1>1. /\ Save(s, state, outcome) /\ Holds(s, state)
      /\ notes' = Others(notes, which)
      /\ UNCHANGED <<made, symbols, turns, gone, file, changes>>
  BY DEF DeleteAnnotation, Quiet
<1>2. Good(cur, notes, symbols, turns, gone, changes)
  BY DEF IInv, Live
<1> HIDE DEF cur
<1>3. Good(state, Others(notes, which), symbols, turns, gone, changes)
  BY <1>2, GoodDelete
<1>4. \A st \in Live : Good(st, Others(notes, which), symbols, turns, gone, changes)
  BY GoodDelete DEF IInv
<1> HIDE DEF state
<1>5. /\ Good(state, notes', symbols', turns', gone', changes')
      /\ \A st \in Live : Good(st, notes', symbols', turns', gone', changes')
  BY <1>1, <1>3, <1>4
<1>6. Told(notes', symbols', turns', gone', changes')
  BY <1>1 DEF IInv, Told
<1> QED  BY <1>1, <1>5, <1>6, SaveStep DEF IInv

LEMMA RegisterStep ==
    ASSUME IInv, NEW s \in Server, NEW name \in Name, NEW agent \in Agent,
           NEW outcome \in Outcome, Register(s, name, agent, outcome)
    PROVE  IInv'
<1> DEFINE cur == Reacquired(s)
           symbol == [id |-> TakeSymbolId(cur), name |-> name, agent |-> None, made |-> made + 1]
           owned == [symbol EXCEPT !.agent = agent]
           state == [cur EXCEPT !.dynamic = @ \cup {symbol}, !.next_symbol_id = TakeSymbolId(cur) + 1]
           full == [state EXCEPT !.dynamic = (@ \ {symbol}) \cup {owned}]
           held == IF outcome = "ok" THEN full ELSE state
<1>1. /\ Save(s, state, outcome) /\ Holds(s, held)
      /\ symbols' = IF outcome = "ok" THEN symbols \cup {owned} ELSE symbols
      /\ UNCHANGED <<notes, turns, gone, file, changes>>
  BY DEF Register, Quiet
<1>2. made + 1 \in Made /\ made' \in 0..MaxMade
  BY RecordsAssumption DEF Register, Makes, IInv, Made
<1>3. Good(cur, notes, symbols, turns, gone, changes) /\ symbols \subseteq Symbol
  BY DEF IInv, Live, Told
<1> HIDE DEF cur
<1>4. /\ Good(state, notes, symbols, turns, gone, changes)
      /\ Good(state, notes, symbols \cup {owned}, turns, gone, changes)
      /\ Good(full, notes, symbols \cup {owned}, turns, gone, changes)
      /\ owned \in Symbol
  BY <1>2, <1>3, GoodRegister
<1> HIDE DEF symbol, owned, state, full
<1>5. /\ Good(state, notes', symbols', turns', gone', changes')
      /\ Good(held, notes', symbols', turns', gone', changes')
      /\ outcome # "ok" => \A st \in Live : Good(st, notes', symbols', turns', gone', changes')
  BY <1>1, <1>4 DEF IInv
<1>6. Told(notes', symbols', turns', gone', changes')
  BY <1>1, <1>4 DEF IInv, Told
<1> HIDE DEF held
<1> QED  BY <1>1, <1>2, <1>5, <1>6, SaveStep DEF IInv

LEMMA RemoveStep ==
    ASSUME IInv, NEW s \in Server, NEW names, NEW agents, RemoveDynamic(s, names, agents)
    PROVE  IInv'
<1> DEFINE cur == Reacquired(s)
           state == [cur EXCEPT !.dynamic = {d \in @ : d.name \notin names /\ d.agent \notin agents}]
<1>1. /\ Holds(s, state) /\ NoSave(s)
      /\ UNCHANGED <<made, notes, symbols, turns, gone, file, changes>>
  BY DEF RemoveDynamic, Quiet, told
<1>2. Good(cur, notes, symbols, turns, gone, changes)
  BY DEF IInv, Live
<1> HIDE DEF cur
<1>3. Good(state, notes, symbols, turns, gone, changes)
  BY <1>2, GoodRemove
<1> HIDE DEF state
<1>4. /\ Good(state, notes', symbols', turns', gone', changes')
      /\ \A st \in Live : Good(st, notes', symbols', turns', gone', changes')
  BY <1>1, <1>3 DEF IInv
<1>5. Told(notes', symbols', turns', gone', changes')
  BY <1>1 DEF IInv
<1> QED  BY <1>1, <1>4, <1>5, NoSaveStep DEF IInv

\* What rebuild_symbols, index and a failed detect have in common: they save
\* a good state, and tell nothing that they promise for later.
LEMMA SilentSaveStep ==
    ASSUME IInv, NEW s \in Server, NEW state, NEW outcome \in Outcome,
           Save(s, state, outcome), Holds(s, state),
           Good(state, notes, symbols, turns, gone, changes),
           UNCHANGED <<made, notes, symbols, turns, gone, file, changes>>
    PROVE  IInv'
<1>1. /\ Good(state, notes', symbols', turns', gone', changes')
      /\ \A st \in Live : Good(st, notes', symbols', turns', gone', changes')
  BY DEF IInv
<1>2. Told(notes', symbols', turns', gone', changes')
  BY DEF IInv
<1> QED  BY <1>1, <1>2, SaveStep DEF IInv

LEMMA RebuildStep ==
    ASSUME IInv, NEW s \in Server, NEW ids \in Nat, NEW outcome \in Outcome,
           RebuildSymbols(s, ids, outcome)
    PROVE  IInv'
<1> DEFINE cur == Reacquired(s)
           state == Indexed([cur EXCEPT !.dynamic = {}], ids)
<1>1. /\ Save(s, state, outcome) /\ Holds(s, state)
      /\ UNCHANGED <<made, notes, symbols, turns, gone, file, changes>>
  BY DEF RebuildSymbols, Quiet, told
<1>2. Good(cur, notes, symbols, turns, gone, changes) /\ symbols \subseteq Symbol
  BY DEF IInv, Live, Told
<1> HIDE DEF cur
<1>3. Good(state, notes, symbols, turns, gone, changes)
  BY <1>2, GoodRebuild
<1> HIDE DEF state
<1> QED  BY <1>1, <1>3, SilentSaveStep

LEMMA SaveKvStep ==
    ASSUME IInv, NEW s \in Server, NEW x \in Session, NEW chunks, NEW outcome \in Outcome,
           SaveKv(s, x, chunks, outcome)
    PROVE  IInv'
<1> DEFINE cur == WithSession(Reacquired(s), x)
           turn == cur.sessions[x].turn
           rows == [i \in DOMAIN chunks |-> [chunk |-> chunks[i], turn |-> turn, made |-> made + 1]]
           row == [turn |-> turn + 1, kv |-> cur.sessions[x].kv \o rows,
                   attached |-> cur.sessions[x].attached \o rows]
           state == [cur EXCEPT !.sessions[x] = row]
           tx == [turns EXCEPT ![x] = turn]
<1>1. /\ Save(s, state, outcome) /\ Holds(s, state)
      /\ turns' = IF outcome = "ok" THEN tx ELSE turns
      /\ UNCHANGED <<notes, symbols, gone, file, changes>>
  BY DEF SaveKv, Quiet
<1>2. made' \in 0..MaxMade
  BY RecordsAssumption DEF SaveKv, Makes, IInv
<1>3. /\ Good(cur, notes, symbols, turns, gone, changes) /\ x \in DOMAIN cur.sessions
      /\ turns \in [Session -> Int]
  BY GoodSession DEF IInv, Live, Told
<1> HIDE DEF cur
<1>4. turn \in Nat /\ (turns[x] >= 0 => turn > turns[x])
  BY <1>3 DEF Good, Shape, TurnsGood
<1> HIDE DEF turn, rows
<1>5. row.turn = turn + 1
  OBVIOUS
<1>6. /\ \A y \in Session : y # x => tx[y] = turns[y]
      /\ tx[x] = turn /\ tx \in [Session -> Int]
  BY <1>3, <1>4
<1> HIDE DEF row, tx
<1>8. row.turn \in Nat /\ tx[x] < row.turn /\ turns[x] < row.turn
  BY <1>3, <1>4, <1>5, <1>6
<1>7. Good(state, notes, symbols, tx, gone, changes)
  BY <1>3, <1>6, <1>8, GoodTurn
<1>9. Good(state, notes, symbols, turns, gone, changes)
  BY <1>3, <1>8, GoodTurn
<1> HIDE DEF state
<1>10. /\ Good(state, notes', symbols', turns', gone', changes')
       /\ outcome # "ok" => \A st \in Live : Good(st, notes', symbols', turns', gone', changes')
  BY <1>1, <1>7, <1>9 DEF IInv
<1>11. Told(notes', symbols', turns', gone', changes')
  BY <1>1, <1>6 DEF IInv, Told
<1> QED  BY <1>1, <1>2, <1>10, <1>11, SaveStep DEF IInv

\* Who rolls a session back is told less: only turns before the target are over.
LEMMA RollbackStep ==
    ASSUME IInv, NEW s \in Server, NEW x \in Session, NEW target \in Nat,
           NEW outcome \in Outcome, Rollback(s, x, target, outcome)
    PROVE  IInv'
<1> DEFINE cur == Reacquired(s)
           row == [turn |-> target, kv |-> cur.sessions[x].kv,
                   attached |-> UpTo(cur.sessions[x].attached, target)]
           state == [cur EXCEPT !.sessions[x] = row]
           tx == [turns EXCEPT ![x] = IF turns[x] < target THEN turns[x] ELSE target - 1]
<1>1. /\ x \in DOMAIN cur.sessions /\ Save(s, state, outcome) /\ Holds(s, state)
      /\ turns' = tx
      /\ UNCHANGED <<made, notes, symbols, gone, file, changes>>
  BY DEF Rollback, Quiet
<1>2. row.turn = target
  OBVIOUS
<1>3. /\ Good(cur, notes, symbols, turns, gone, changes)
      /\ turns \in [Session -> Int]
  BY DEF IInv, Live, Told
<1>4. /\ \A y \in Session : y # x => tx[y] = turns[y]
      /\ tx[x] < target /\ tx[x] <= turns[x] /\ tx \in [Session -> Int]
  BY <1>3
<1> HIDE DEF cur, row, tx
<1>5. Good(state, notes, symbols, tx, gone, changes)
  BY <1>1, <1>2, <1>3, <1>4, GoodTurn
<1>6. \A y \in Session : tx[y] <= turns[y]
  BY <1>3, <1>4
<1>7. \A st \in Live : Good(st, notes, symbols, tx, gone, changes)
  BY <1>3, <1>4, <1>6, GoodForLess DEF IInv
<1> HIDE DEF state
<1>8. /\ Good(state, notes', symbols', turns', gone', changes')
      /\ \A st \in Live : Good(st, notes', symbols', turns', gone', changes')
  BY <1>1, <1>5, <1>7
<1>9. Told(notes', symbols', turns', gone', changes')
  BY <1>1, <1>4 DEF IInv, Told
<1> QED  BY <1>1, <1>8, <1>9, SaveStep DEF IInv

LEMMA PruneChunksStep ==
    ASSUME IInv, NEW s \in Server, NEW x \in Session, NEW max_tokens, NEW outcome \in Outcome,
           PruneChunks(s, x, max_tokens, outcome)
    PROVE  IInv'
<1> DEFINE cur == Reacquired(s)
           rows == Fitting(cur.sessions[x].attached, max_tokens)
           state == [cur EXCEPT !.sessions[x].attached = rows]
<1>1. /\ x \in DOMAIN cur.sessions /\ Save(s, state, outcome) /\ Holds(s, state)
      /\ UNCHANGED <<made, notes, symbols, turns, gone, file, changes>>
  BY DEF PruneChunks, Quiet, told
<1>2. Good(cur, notes, symbols, turns, gone, changes)
  BY DEF IInv, Live
<1> HIDE DEF cur, rows
<1>3. Good(state, notes, symbols, turns, gone, changes)
  BY <1>1, <1>2, GoodPrunedChunks
<1> HIDE DEF state
<1> QED  BY <1>1, <1>3, SilentSaveStep

\* The file only gets rows that are later than those it has.
LEMMA FileStep ==
    ASSUME IInv, changes' = changes + 1,
           NEW appended, file' = IF appended THEN Append(file, changes + 1) ELSE file
    PROVE  file' \in Seq(Nat) /\ Increasing(file', changes + 1)
<1> DEFINE longer == Append(file, changes + 1)
<1>1. changes \in Nat /\ file \in Seq(Nat) /\ Increasing(file, changes)
  BY DEF IInv, Told
<1>2. /\ longer \in Seq(Nat) /\ DOMAIN longer = 1..(Len(file) + 1)
      /\ DOMAIN file = 1..Len(file) /\ Len(file) \in Nat
      /\ \A i \in DOMAIN file : longer[i] = file[i] /\ file[i] \in Nat
      /\ longer[Len(file) + 1] = changes + 1
  BY <1>1
<1> HIDE DEF longer
<1>3. \A i \in DOMAIN file : file[i] <= changes
  BY <1>1 DEF Increasing
<1>4. \A i \in DOMAIN longer : longer[i] <= changes + 1
  BY <1>1, <1>2, <1>3
<1>5. ASSUME NEW i \in DOMAIN longer, NEW j \in DOMAIN longer, i < j
      PROVE  longer[i] < longer[j]
  <2>1. i \in DOMAIN file
    BY <1>5, <1>2
  <2>2. CASE j = Len(file) + 1
    BY <2>1, <2>2, <1>1, <1>2, <1>3
  <2>3. CASE j # Len(file) + 1
    <3>1. j \in DOMAIN file
      BY <2>3, <1>2
    <3> QED  BY <3>1, <2>1, <1>5, <1>1, <1>2 DEF Increasing
  <2> QED  BY <2>2, <2>3
<1>6. Increasing(longer, changes + 1)
  BY <1>4, <1>5 DEF Increasing
<1>7. Increasing(file, changes + 1)
  BY <1>1, <1>2, <1>3 DEF Increasing
<1> QED  BY <1>1, <1>2, <1>6, <1>7 DEF longer

\* What a detect run leaves is good once the run is counted.
LEMMA RunCounted ==
    ASSUME IInv, NEW s \in Server, NEW state, NEW appended,
           Good(state, notes, symbols, turns, gone, changes),
           Remembered(s, state, appended), UNCHANGED <<notes, symbols, turns, gone>>
    PROVE  /\ Told(notes', symbols', turns', gone', changes')
           /\ file' \in Seq(Nat) /\ Increasing(file', changes')
           /\ Good([state EXCEPT !.log = Append(@, changes + 1)],
                   notes', symbols', turns', gone', changes')
           /\ Good(state, notes', symbols', turns', gone', changes')
           /\ \A st \in Live : Good(st, notes', symbols', turns', gone', changes')
<1>1. changes \in Nat /\ gone \subseteq 0..changes /\ changes' = changes + 1
  BY DEF IInv, Told, Remembered
<1>2. file' \in Seq(Nat) /\ Increasing(file', changes')
  BY <1>1, FileStep DEF Remembered
<1>3. /\ Good([state EXCEPT !.log = Append(@, changes + 1)],
              notes, symbols, turns, gone, changes + 1)
      /\ Good(state, notes, symbols, turns, gone, changes + 1)
  BY <1>1, GoodRemembered
<1>4. \A st \in Live : Good(st, notes, symbols, turns, gone, changes + 1)
  BY <1>1, GoodRemembered DEF IInv
<1>5. Told(notes', symbols', turns', gone', changes')
  BY <1>1 DEF IInv, Told
<1> QED  BY <1>1, <1>2, <1>3, <1>4, <1>5

LEMMA DetectNothingStep ==
    ASSUME IInv, NEW s \in Server, NEW appended, DetectNothing(s, appended)
    PROVE  IInv'
<1> DEFINE state == WithSession(Reacquired(s), Default)
           held == [state EXCEPT !.log = Append(@, changes + 1)]
<1>1. /\ Remembered(s, state, appended) /\ NoSave(s) /\ Holds(s, held)
      /\ UNCHANGED <<made, notes, symbols, turns, gone>>
  BY DEF DetectNothing, Remembered, told
<1>2. Good(state, notes, symbols, turns, gone, changes)
  BY GoodSession, RecordsAssumption DEF IInv, Live
<1> HIDE DEF state
<1>3. /\ Told(notes', symbols', turns', gone', changes')
      /\ file' \in Seq(Nat) /\ Increasing(file', changes')
      /\ Good(held, notes', symbols', turns', gone', changes')
      /\ \A st \in Live : Good(st, notes', symbols', turns', gone', changes')
  BY <1>1, <1>2, RunCounted
<1> HIDE DEF held
<1> QED  BY <1>1, <1>3, NoSaveStep DEF IInv

LEMMA DetectChangesStep ==
    ASSUME IInv, NEW s \in Server, NEW ids \in Nat, NEW appended, DetectChanges(s, ids, appended)
    PROVE  IInv'
<1> DEFINE indexed == Indexed(Reacquired(s), ids)
           state == WithSession(indexed, Default)
           held == [state EXCEPT !.log = Append(@, changes + 1)]
<1>1. /\ Remembered(s, state, appended) /\ Save(s, state, "ok") /\ Holds(s, held)
      /\ UNCHANGED <<made, notes, symbols, turns, gone>>
  BY DEF DetectChanges, Remembered, told
<1>2. Good(indexed, notes, symbols, turns, gone, changes)
  BY GoodIndexed DEF IInv, Live, Told
<1>3. Good(state, notes, symbols, turns, gone, changes)
  BY <1>2, GoodSession, RecordsAssumption
<1> HIDE DEF indexed, state
<1>4. /\ Told(notes', symbols', turns', gone', changes')
      /\ file' \in Seq(Nat) /\ Increasing(file', changes')
      /\ Good(held, notes', symbols', turns', gone', changes')
      /\ Good(state, notes', symbols', turns', gone', changes')
  BY <1>1, <1>3, RunCounted
<1>5. "ok" \in Outcome
  BY DEF Outcome
<1> HIDE DEF held
<1> QED  BY <1>1, <1>4, <1>5, SaveStep DEF IInv

LEMMA DetectFailsStep ==
    ASSUME IInv, NEW s \in Server, NEW ids \in Nat, NEW outcome \in Outcome,
           DetectFails(s, ids, outcome)
    PROVE  IInv'
<1> DEFINE indexed == Indexed(Reacquired(s), ids)
           state == WithSession(indexed, Default)
<1>1. /\ Save(s, state, outcome) /\ Holds(s, state)
      /\ UNCHANGED <<made, notes, symbols, turns, gone, file, changes>>
  BY DEF DetectFails, Quiet, told
<1>2. Good(indexed, notes, symbols, turns, gone, changes)
  BY GoodIndexed DEF IInv, Live, Told
<1>3. Good(state, notes, symbols, turns, gone, changes)
  BY <1>2, GoodSession, RecordsAssumption
<1> HIDE DEF indexed, state
<1> QED  BY <1>1, <1>3, SilentSaveStep

\* An entry that a prune drops is one that was made.
LEMMA DroppedMade ==
    ASSUME IInv, NEW st, NEW max \in Nat, Good(st, notes, symbols, turns, gone, changes)
    PROVE  Told(notes, symbols, turns, gone \cup Dropped(st.log, max), changes)
BY GoodNewest DEF IInv, Told

LEMMA PruneHistoryStep ==
    ASSUME IInv, NEW s \in Server, NEW max \in Nat, NEW outcome \in Outcome,
           PruneHistory(s, max, outcome)
    PROVE  IInv'
<1> DEFINE cur == Reacquired(s)
           state == [cur EXCEPT !.log = Newest(@, max)]
           more == gone \cup Dropped(cur.log, max)
<1>1. /\ Save(s, state, outcome) /\ Holds(s, state)
      /\ gone' = IF outcome = "ok" THEN more ELSE gone
      /\ UNCHANGED <<made, notes, symbols, turns, file, changes>>
  BY DEF PruneHistory, Quiet
<1>2. Good(cur, notes, symbols, turns, gone, changes)
  BY DEF IInv, Live
<1> HIDE DEF cur
<1>3. /\ Good(state, notes, symbols, turns, gone, changes)
      /\ Good(state, notes, symbols, turns, more, changes)
  BY <1>2, GoodNewest
<1>4. Told(notes, symbols, turns, gone, changes) /\ Told(notes, symbols, turns, more, changes)
  BY <1>2, DroppedMade DEF IInv
<1> HIDE DEF state, more
<1>5. /\ Good(state, notes', symbols', turns', gone', changes')
      /\ outcome # "ok" => \A st \in Live : Good(st, notes', symbols', turns', gone', changes')
  BY <1>1, <1>3 DEF IInv
<1>6. Told(notes', symbols', turns', gone', changes')
  BY <1>1, <1>4
<1> QED  BY <1>1, <1>5, <1>6, SaveStep DEF IInv

LEMMA IndexStep ==
    ASSUME IInv, NEW s \in Server, NEW ids \in Nat, NEW outcome \in Outcome,
           Index(s, ids, outcome)
    PROVE  IInv'
<1> DEFINE state == Indexed(Reacquired(s), ids)
<1>1. /\ Save(s, state, outcome) /\ Holds(s, state)
      /\ UNCHANGED <<made, notes, symbols, turns, gone, file, changes>>
  BY DEF Index, Quiet, told
<1>2. Good(state, notes, symbols, turns, gone, changes)
  BY GoodIndexed DEF IInv, Live, Told
<1> HIDE DEF state
<1> QED  BY <1>1, <1>2, SilentSaveStep

\* No other live state is left, however the second save ends.
LEMMA IndexAndPruneStep ==
    ASSUME IInv, NEW s \in Server, NEW ids \in Nat, NEW outcome \in Outcome,
           IndexAndPrune(s, ids, outcome)
    PROVE  IInv'
<1> DEFINE state == Indexed(Reacquired(s), ids)
           pruned == [state EXCEPT !.log = Newest(@, MaxHistory)]
           more == gone \cup Dropped(state.log, MaxHistory)
<1>1. /\ snapshot' = Written(IF outcome = "lost" THEN state ELSE pruned)
      /\ fresh' = {s} /\ Holds(s, pruned)
      /\ gone' = IF outcome = "ok" THEN more ELSE gone
      /\ UNCHANGED <<made, notes, symbols, turns, file, changes>>
  BY DEF IndexAndPrune, Quiet
<1>2. Good(state, notes, symbols, turns, gone, changes)
  BY GoodIndexed DEF IInv, Live, Told
<1> HIDE DEF state
<1>3. /\ Good(pruned, notes, symbols, turns, gone, changes)
      /\ Good(pruned, notes, symbols, turns, more, changes)
  BY <1>2, GoodNewest, RecordsAssumption
<1>4. Told(notes, symbols, turns, gone, changes) /\ Told(notes, symbols, turns, more, changes)
  BY <1>2, DroppedMade, RecordsAssumption DEF IInv
<1> HIDE DEF pruned, more
<1>5. mem' = [z \in Server |-> IF z = s THEN pruned ELSE mem[z]]
  BY <1>1 DEF Holds, IInv
<1>6. \A z \in Server : Reacquired(z)' = IF z \in fresh' THEN mem'[z] ELSE snapshot'
  BY DEF Reacquired
<1>7. Live' \subseteq {pruned, snapshot'}
  BY <1>1, <1>5, <1>6 DEF Live
<1>8. Good(pruned, notes', symbols', turns', gone', changes')
  BY <1>1, <1>3
<1>9. Good(snapshot', notes', symbols', turns', gone', changes')
  BY <1>1, <1>2, <1>8, GoodWritten
<1>10. \A st \in Live' : Good(st, notes', symbols', turns', gone', changes')
  BY <1>7, <1>8, <1>9
<1>11. Told(notes', symbols', turns', gone', changes') /\ mem' = [z \in Server |-> mem'[z]]
  BY <1>1, <1>4, <1>5
<1> QED  BY <1>1, <1>10, <1>11 DEF IInv

LEMMA ClearStep ==
    ASSUME IInv, NEW s \in Server, NEW outcome \in Outcome, Clear(s, outcome)
    PROVE  IInv'
<1> DEFINE none == [x \in Session |-> -1]
<1>1. /\ Save(s, NoState, outcome) /\ Holds(s, NoState)
      /\ notes' = {} /\ symbols' = {} /\ turns' = none
      /\ UNCHANGED <<made, gone, file, changes>>
  BY DEF Clear, Quiet
<1>2. none \in [Session -> Int] /\ \A x \in Session : none[x] < 0
  OBVIOUS
<1>3. Good(NoState, {}, {}, none, gone, changes)
  BY GoodCleared
<1> HIDE DEF none
<1>4. turns \in [Session -> Int]
  BY DEF IInv, Told
<1>5. \A st \in Live : Good(st, {}, {}, none, gone, changes)
  BY <1>2, <1>4, GoodForLess DEF IInv
<1>6. /\ Good(NoState, notes', symbols', turns', gone', changes')
      /\ \A st \in Live : Good(st, notes', symbols', turns', gone', changes')
  BY <1>1, <1>3, <1>5
<1>7. Told(notes', symbols', turns', gone', changes')
  BY <1>1, <1>2 DEF IInv, Told
<1> QED  BY <1>1, <1>6, <1>7, SaveStep DEF IInv

-------------------------------------------------------------------------------
LEMMA InitInv == Init => IInv
<1> SUFFICES ASSUME Init PROVE IInv
  OBVIOUS
<1>1. Live \subseteq {NoState}
  BY DEF Init, Live, Reacquired
<1>2. Good(NoState, notes, symbols, turns, gone, changes)
  BY GoodCleared DEF Init
<1>3. Told(notes, symbols, turns, gone, changes)
  BY DEF Init, Told
<1>4. file \in Seq(Nat) /\ Increasing(file, changes)
  BY DEF Init, Increasing
<1>5. mem = [s \in Server |-> mem[s]] /\ made \in 0..MaxMade
  BY RecordsAssumption DEF Init
<1> QED  BY <1>1, <1>2, <1>3, <1>4, <1>5 DEF IInv

LEMMA NextInv == IInv /\ [Next]_vars => IInv'
<1> SUFFICES ASSUME IInv, [Next]_vars PROVE IInv'
  OBVIOUS
<1> USE RecordsAssumption DEF Ids
<1>1. CASE UNCHANGED vars
  <2>1. Live' = Live
    BY <1>1 DEF vars, Live, Reacquired
  <2> QED  BY <1>1, <2>1 DEF vars, told, IInv, Told, Increasing
<1>2. ASSUME NEW s \in Server, General(s) PROVE IInv'
  BY <1>2, AskStep, RestartStep, ClearStep, IndexStep, IndexAndPruneStep DEF General
<1>3. ASSUME NEW s \in Server, Notes(s) PROVE IInv'
  BY <1>3, AnnotateStep, UpdateStep, DeleteStep DEF Notes
<1>4. ASSUME NEW s \in Server, Symbols(s) PROVE IInv'
  <2>1. ASSUME NEW name \in Name, NEW agent \in Agent, NEW outcome \in Outcome,
               Register(s, name, agent, outcome)
        PROVE  IInv'
    BY <2>1, RegisterStep
  <2>2. ASSUME NEW names, NEW agents, RemoveDynamic(s, names, agents) PROVE IInv'
    BY <2>2, RemoveStep
  <2>3. ASSUME NEW ids \in Ids, NEW outcome \in Outcome, RebuildSymbols(s, ids, outcome)
        PROVE  IInv'
    BY <2>3, RebuildStep
  <2> QED  BY <1>4, <2>1, <2>2, <2>3 DEF Symbols
<1>5. ASSUME NEW s \in Server, Sessions(s) PROVE IInv'
  BY <1>5, SaveKvStep, RollbackStep, PruneChunksStep DEF Sessions
<1>6. ASSUME NEW s \in Server, History(s) PROVE IInv'
  BY <1>6, DetectNothingStep, DetectChangesStep, DetectFailsStep, PruneHistoryStep DEF History
<1> QED  BY <1>1, <1>2, <1>3, <1>4, <1>5, <1>6 DEF Next

LEMMA Invariance == Spec => []IInv
BY InitInv, NextInv, PTL DEF Spec

\* An id that a create has answered stands for that annotation and no other,
\* on every server, whatever calls fail and whoever saves in between.
THEOREM NotesKept == Spec => []IdsKeepNotes
<1>1. IInv => IdsKeepNotes
  BY DEF IInv, Live, Good, NotesGood, IdsKeepNotes, View
<1> QED  BY <1>1, Invariance, PTL

\* The id of a registered symbol never stands for another one, even after
\* the symbol was removed.
THEOREM SymbolIdsStay == Spec => []IdsKeepSymbols
<1>1. IInv => IdsKeepSymbols
  BY DEF IInv, Live, Good, SymbolsGood, IdsKeepSymbols, View
<1> QED  BY <1>1, Invariance, PTL

\* On every server the next rows of a session get a later turn than any that
\* save_kv_state has answered and nobody has rolled back.
THEOREM TurnsAdvance == Spec => []TurnsGoOn
<1>1. IInv => TurnsGoOn
  BY DEF IInv, Live, Good, TurnsGood, TurnsGoOn, View
<1> QED  BY <1>1, Invariance, PTL

\* The history that a server shows, of the log or of the file, is in the
\* order of the detect runs.
THEOREM HistoryOrdered == Spec => []HistoryInOrder
<1>1. IInv => HistoryInOrder
  BY DEF IInv, Live, Good, LogGood, Increasing, HistoryInOrder, View, Shown
<1> QED  BY <1>1, Invariance, PTL

\* What an answered prune dropped comes back to the log of no server.
THEOREM PruneHolds == Spec => []PrunedStaysGone
<1>1. IInv => PrunedStaysGone
  BY DEF IInv, Live, Good, LogGood, PrunedStaysGone, View, ToSet
<1> QED  BY <1>1, Invariance, PTL
===============================================================================
