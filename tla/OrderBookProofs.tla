-------------------------- MODULE OrderBookProofs ---------------------------
(***************************************************************************)
(* The linked lists of the order book, for any prices and any number of    *)
(* orders: what each operation of OrderBook.sol does to them.              *)
(*                                                                         *)
(* A list is given by the set of its elements and two functions, and       *)
(* Linked says that they lead forwards and backwards through the set.      *)
(* First, what taking an element out of such a list or putting one in does *)
(* to it; then each assignment of the code to a level or an order, as a    *)
(* change of one of its fields; then each operation, as the sequence of    *)
(* its assignments.  The result is Kept: the book is whole, every order    *)
(* has something left, and the volume of a level is what its orders have.  *)
(***************************************************************************)
EXTENDS OrderBookSafety, Sums, TLAPS

-----------------------------------------------------------------------------
(* Lists kept in order                                                      *)

\* The element n comes next after a among those of S, or none does and n is 0.
IsNext(s, S, a, n) ==
    \/ n = 0 /\ \A j \in S : ~Better(s, a, j)
    \/ n \in S /\ Better(s, a, n) /\ \A j \in S : ~(Better(s, a, j) /\ Better(s, j, n))
IsFirst(s, S, n) ==
    \/ n = 0 /\ S = {}
    \/ n \in S /\ \A j \in S : ~Better(s, j, n)

\* f and g lead forwards and backwards through S.
Linked(s, S, f, g) == \A a \in S : IsNext(s, S, a, f[a]) /\ IsNext(Opposite(s), S, a, g[a])

\* How the links u and v of a list differ from its links f and g when x is taken out,
\* put in behind c, or put in before the first one, h
TakenOut(S, x, f, g, u, v) ==
    \A a \in S \ {x} : /\ u[a] = IF a = g[x] THEN f[x] ELSE f[a]
                       /\ v[a] = IF a = f[x] THEN g[x] ELSE g[a]
PutBehind(S, x, c, f, g, u, v) ==
    \A a \in S \cup {x} : /\ u[a] = IF a = x THEN f[c] ELSE IF a = c THEN x ELSE f[a]
                          /\ v[a] = IF a = x THEN c ELSE IF a = f[c] THEN x ELSE g[a]
PutFirst(S, x, h, f, g, u, v) ==
    \A a \in S \cup {x} : /\ u[a] = IF a = x THEN h ELSE f[a]
                          /\ v[a] = IF a = x THEN 0 ELSE IF a = h THEN x ELSE g[a]

LEMMA Order ==
    ASSUME NEW s \in Sides
    PROVE  /\ Opposite(s) \in Sides /\ Opposite(Opposite(s)) = s
           /\ \A a \in Nat : ~Better(s, a, a)
           /\ \A a, b \in Nat : a = b \/ Better(s, a, b) \/ Better(s, b, a)
           /\ \A a, b \in Nat : Better(Opposite(s), a, b) <=> Better(s, b, a)
           /\ \A a, b, c \in Nat : Better(s, a, b) /\ Better(s, b, c) => Better(s, a, c)
BY DEF Sides, Opposite, Better

IsPrev(s, S, a, n) ==
    \/ n = 0 /\ \A j \in S : ~Better(s, j, a)
    \/ n \in S /\ Better(s, n, a) /\ \A j \in S : ~(Better(s, n, j) /\ Better(s, j, a))
LEMMA NextBackwards ==
    ASSUME NEW s \in Sides, NEW S, S \subseteq Nat, NEW a \in Nat, NEW n
    PROVE  IsNext(Opposite(s), S, a, n) <=> IsPrev(s, S, a, n)
<1>1. \A j \in S : Better(Opposite(s), a, j) <=> Better(s, j, a)
  BY Order
<1>2. n \in S => \A j \in S : Better(Opposite(s), j, n) <=> Better(s, n, j)
  BY Order
<1> QED BY <1>1, <1>2 DEF IsNext, IsPrev

LEMMA Backwards ==
    ASSUME NEW s \in Sides, NEW S, NEW f, NEW g
    PROVE  Linked(s, S, f, g) <=> Linked(Opposite(s), S, g, f)
BY Order DEF Linked

\* An element is taken out.
LEMMA NextWithout ==
    ASSUME NEW s \in Sides, NEW S, S \subseteq Nat \ {0}, NEW x \in S, NEW f, NEW g,
           Linked(s, S, f, g), NEW a \in S \ {x}, NEW n, n = IF a = g[x] THEN f[x] ELSE f[a]
    PROVE  IsNext(s, S \ {x}, a, n)
<1>1. IsNext(s, S, a, f[a]) /\ IsNext(s, S, x, f[x]) /\ IsPrev(s, S, x, g[x])
  BY NextBackwards DEF Linked
<1>2. CASE a = g[x]
  <2>1. Better(s, a, x) /\ \A j \in S : ~(Better(s, j, x) /\ Better(s, a, j))
    BY <1>1, <1>2 DEF IsPrev
  <2>2. CASE f[x] = 0
    <3>1. \A j \in S : ~Better(s, x, j)
      BY <1>1, <2>2 DEF IsNext
    <3>2. \A j \in S \ {x} : ~Better(s, a, j)
      BY <2>1, <3>1, Order
    <3> QED BY <1>2, <2>2, <3>2 DEF IsNext
  <2>3. CASE f[x] # 0
    <3>1. f[x] \in S \ {x} /\ Better(s, x, f[x]) /\ \A j \in S : ~(Better(s, x, j) /\ Better(s, j, f[x]))
      BY <1>1, <2>3, Order DEF IsNext
    <3>2. Better(s, a, f[x])
      BY <2>1, <3>1, Order
    <3>3. \A j \in S \ {x} : ~(Better(s, a, j) /\ Better(s, j, f[x]))
      BY <2>1, <3>1, Order
    <3> QED BY <1>2, <3>1, <3>2, <3>3 DEF IsNext
  <2> QED BY <2>2, <2>3
<1>3. CASE a # g[x]
  <2>1. f[a] # x
    <3> SUFFICES ASSUME f[a] = x PROVE FALSE
      OBVIOUS
    <3>1. Better(s, a, x) /\ \A j \in S : ~(Better(s, a, j) /\ Better(s, j, x))
      BY <1>1 DEF IsNext
    <3>2. g[x] \in S /\ Better(s, g[x], x) /\ \A j \in S : ~(Better(s, g[x], j) /\ Better(s, j, x))
      BY <1>1, <3>1 DEF IsPrev
    <3> QED BY <1>3, <3>1, <3>2, Order
  <2> QED BY <1>1, <1>3, <2>1 DEF IsNext
<1> QED BY <1>2, <1>3

LEMMA FirstWithout ==
    ASSUME NEW s \in Sides, NEW S, S \subseteq Nat \ {0}, NEW x \in S, NEW f, NEW g, NEW h,
           Linked(s, S, f, g), IsFirst(s, S, h)
    PROVE  IsFirst(s, S \ {x}, IF g[x] = 0 THEN f[x] ELSE h)
<1>1. IsNext(s, S, x, f[x]) /\ IsPrev(s, S, x, g[x])
  BY NextBackwards DEF Linked
<1>2. CASE g[x] = 0
  <2>1. \A j \in S : ~Better(s, j, x)
    BY <1>1, <1>2 DEF IsPrev
  <2>2. CASE f[x] = 0
    <3>1. \A j \in S : ~Better(s, x, j)
      BY <1>1, <2>2 DEF IsNext
    <3>2. S \ {x} = {}
      BY <2>1, <3>1, Order
    <3> QED BY <1>2, <2>2, <3>2 DEF IsFirst
  <2>3. CASE f[x] # 0
    <3>1. f[x] \in S \ {x} /\ Better(s, x, f[x]) /\ \A j \in S : ~(Better(s, x, j) /\ Better(s, j, f[x]))
      BY <1>1, <2>3, Order DEF IsNext
    <3>2. \A j \in S \ {x} : ~Better(s, j, f[x])
      BY <2>1, <3>1, Order
    <3> QED BY <1>2, <3>1, <3>2 DEF IsFirst
  <2> QED BY <2>2, <2>3
<1>3. CASE g[x] # 0
  <2>1. g[x] \in S /\ Better(s, g[x], x)
    BY <1>1, <1>3 DEF IsPrev
  <2>2. h \in S /\ h # x /\ \A j \in S : ~Better(s, j, h)
    BY <2>1 DEF IsFirst
  <2> QED BY <1>3, <2>2 DEF IsFirst
<1> QED BY <1>2, <1>3

LEMMA LinkedWithout ==
    ASSUME NEW s \in Sides, NEW S, S \subseteq Nat \ {0}, NEW x \in S, NEW f, NEW g, NEW u, NEW v,
           Linked(s, S, f, g),
           TakenOut(S, x, f, g, u, v)
    PROVE  Linked(s, S \ {x}, u, v)
<1>1. Opposite(s) \in Sides /\ Linked(Opposite(s), S, g, f)
  BY Backwards, Order
<1>2. ASSUME NEW a \in S \ {x} PROVE IsNext(s, S \ {x}, a, u[a])
  <2>1. u[a] = IF a = g[x] THEN f[x] ELSE f[a]
    BY DEF TakenOut
  <2> QED BY <2>1, NextWithout
<1>3. ASSUME NEW a \in S \ {x} PROVE IsNext(Opposite(s), S \ {x}, a, v[a])
  <2>1. v[a] = IF a = f[x] THEN g[x] ELSE g[a]
    BY DEF TakenOut
  <2> QED BY <1>1, <2>1, NextWithout
<1> QED BY <1>2, <1>3 DEF Linked

\* An element is put in behind c, or first.
LEMMA NextWith ==
    ASSUME NEW s \in Sides, NEW S, S \subseteq Nat \ {0}, NEW x \in Nat \ {0}, x \notin S, NEW f, NEW g,
           Linked(s, S, f, g), NEW c \in S, Better(s, c, x), f[c] = 0 \/ Better(s, x, f[c])
    PROVE  /\ IsNext(s, S \cup {x}, c, x) /\ IsNext(s, S \cup {x}, x, f[c])
           /\ IsNext(Opposite(s), S \cup {x}, x, c)
           /\ f[c] # 0 => f[c] \in S /\ IsNext(Opposite(s), S \cup {x}, f[c], x)
           /\ \A a \in S \ {c} : IsNext(s, S \cup {x}, a, f[a])
           /\ \A a \in S \ {f[c]} : IsNext(Opposite(s), S \cup {x}, a, g[a])
<1>1. IsNext(s, S, c, f[c])
  BY DEF Linked
<1>2. f[c] # 0 => f[c] \in S /\ Better(s, c, f[c]) /\ \A j \in S : ~(Better(s, c, j) /\ Better(s, j, f[c]))
  BY <1>1 DEF IsNext
<1>3. \A j \in S : ~(Better(s, c, j) /\ Better(s, j, x))
  <2>1. CASE f[c] = 0
    BY <1>1, <2>1 DEF IsNext
  <2>2. CASE f[c] # 0
    BY <1>2, <2>2, Order
  <2> QED BY <2>1, <2>2
<1>4. IsNext(s, S \cup {x}, c, x) /\ IsPrev(s, S \cup {x}, x, c)
  <2>1. \A j \in S \cup {x} : ~(Better(s, c, j) /\ Better(s, j, x))
    BY <1>3, Order
  <2> QED BY <2>1 DEF IsNext, IsPrev
<1>5. IsNext(s, S \cup {x}, x, f[c])
  <2>1. CASE f[c] = 0
    <3>1. \A j \in S : ~Better(s, c, j)
      BY <1>1, <2>1 DEF IsNext
    <3>2. \A j \in S \cup {x} : ~Better(s, x, j)
      BY <3>1, Order
    <3> QED BY <2>1, <3>2 DEF IsNext
  <2>2. CASE f[c] # 0
    <3>1. \A j \in S \cup {x} : ~(Better(s, x, j) /\ Better(s, j, f[c]))
      BY <1>2, <2>2, Order
    <3> QED BY <1>2, <2>2, <3>1 DEF IsNext
  <2> QED BY <2>1, <2>2
<1>6. ASSUME f[c] # 0 PROVE IsPrev(s, S \cup {x}, f[c], x)
  <2>1. \A j \in S \cup {x} : ~(Better(s, x, j) /\ Better(s, j, f[c]))
    BY <1>2, <1>6, Order
  <2> QED BY <1>6, <2>1 DEF IsPrev
<1>7. ASSUME NEW a \in S \ {c} PROVE IsNext(s, S \cup {x}, a, f[a])
  <2>1. IsNext(s, S, a, f[a])
    BY DEF Linked
  <2>2. CASE f[a] = 0
    <3>1. \A j \in S : ~Better(s, a, j)
      BY <2>1, <2>2 DEF IsNext
    <3>2. Better(s, c, a)
      BY <3>1, Order
    <3>3. ~Better(s, a, x)
      BY <1>3, <3>2, Order
    <3> QED BY <2>2, <3>1, <3>3 DEF IsNext
  <2>3. CASE f[a] # 0
    <3>1. f[a] \in S /\ Better(s, a, f[a]) /\ \A j \in S : ~(Better(s, a, j) /\ Better(s, j, f[a]))
      BY <2>1, <2>3 DEF IsNext
    <3>2. ~(Better(s, a, x) /\ Better(s, x, f[a]))
      <4> SUFFICES ASSUME Better(s, a, x), Better(s, x, f[a]) PROVE FALSE
        OBVIOUS
      <4>1. Better(s, a, c)
        BY <1>3, Order
      <4>2. Better(s, c, f[a])
        BY <3>1, Order
      <4> QED BY <3>1, <4>1, <4>2
    <3> QED BY <3>1, <3>2 DEF IsNext
  <2> QED BY <2>2, <2>3
<1>8. ASSUME NEW a \in S \ {f[c]} PROVE IsPrev(s, S \cup {x}, a, g[a])
  <2>1. IsPrev(s, S, a, g[a])
    BY NextBackwards DEF Linked
  <2>2. CASE g[a] = 0
    <3>1. \A j \in S : ~Better(s, j, a)
      BY <2>1, <2>2 DEF IsPrev
    <3>2. ~Better(s, x, a)
      BY <3>1, Order
    <3> QED BY <2>2, <3>1, <3>2 DEF IsPrev
  <2>3. CASE g[a] # 0
    <3>1. g[a] \in S /\ Better(s, g[a], a) /\ \A j \in S : ~(Better(s, g[a], j) /\ Better(s, j, a))
      BY <2>1, <2>3 DEF IsPrev
    <3>2. ~(Better(s, g[a], x) /\ Better(s, x, a))
      <4> SUFFICES ASSUME Better(s, g[a], x), Better(s, x, a) PROVE FALSE
        OBVIOUS
      <4>1. Better(s, c, a)
        BY Order
      <4>2. c = g[a]
        BY <1>3, <3>1, <4>1, Order
      <4>3. f[c] # 0 /\ (Better(s, f[c], a) \/ f[c] = a)
        BY <1>1, <1>2, <4>1, Order DEF IsNext
      <4> QED BY <1>2, <3>1, <4>2, <4>3
    <3> QED BY <3>1, <3>2 DEF IsPrev
  <2> QED BY <2>2, <2>3
<1>9. S \cup {x} \subseteq Nat
  OBVIOUS
<1>10. /\ IsNext(Opposite(s), S \cup {x}, x, c)
       /\ f[c] # 0 => f[c] \in S /\ IsNext(Opposite(s), S \cup {x}, f[c], x)
  BY <1>2, <1>4, <1>6, <1>9, NextBackwards
<1>11. \A a \in S \ {f[c]} : IsNext(Opposite(s), S \cup {x}, a, g[a])
  BY <1>8, <1>9, NextBackwards
<1> QED BY <1>4, <1>5, <1>7, <1>10, <1>11

LEMMA NextWithFirst ==
    ASSUME NEW s \in Sides, NEW S, S \subseteq Nat \ {0}, NEW x \in Nat \ {0}, x \notin S, NEW f, NEW g,
           Linked(s, S, f, g), NEW h, IsFirst(s, S, h), h = 0 \/ Better(s, x, h)
    PROVE  /\ IsFirst(s, S \cup {x}, x) /\ IsNext(s, S \cup {x}, x, h) /\ IsNext(Opposite(s), S \cup {x}, x, 0)
           /\ h # 0 => h \in S /\ IsNext(Opposite(s), S \cup {x}, h, x)
           /\ \A a \in S : IsNext(s, S \cup {x}, a, f[a])
           /\ \A a \in S \ {h} : IsNext(Opposite(s), S \cup {x}, a, g[a])
<1>1. \A a \in S : Better(s, x, a)
  BY Order DEF IsFirst
<1>2. IsFirst(s, S \cup {x}, x) /\ IsPrev(s, S \cup {x}, x, 0)
  <2>1. \A j \in S \cup {x} : ~Better(s, j, x)
    BY <1>1, Order
  <2> QED BY <2>1 DEF IsFirst, IsPrev
<1>3. IsNext(s, S \cup {x}, x, h)
  <2>1. CASE h = 0
    BY <2>1, Order DEF IsFirst, IsNext
  <2>2. CASE h # 0
    <3>1. \A j \in S \cup {x} : ~Better(s, j, h) \/ j = x
      BY <2>2 DEF IsFirst
    <3> QED BY <1>1, <2>2, <3>1, Order DEF IsFirst, IsNext
  <2> QED BY <2>1, <2>2
<1>4. ASSUME h # 0 PROVE h \in S /\ IsPrev(s, S \cup {x}, h, x)
  <2>1. h \in S /\ Better(s, x, h) /\ \A j \in S : ~Better(s, j, h)
    BY <1>4 DEF IsFirst
  <2>2. \A j \in S \cup {x} : ~(Better(s, x, j) /\ Better(s, j, h))
    BY <2>1, Order
  <2> QED BY <2>1, <2>2 DEF IsPrev
<1>5. ASSUME NEW a \in S PROVE IsNext(s, S \cup {x}, a, f[a])
  <2>1. IsNext(s, S, a, f[a]) /\ ~Better(s, a, x)
    BY <1>1, Order DEF Linked
  <2> QED BY <2>1 DEF IsNext
<1>6. ASSUME NEW a \in S \ {h} PROVE IsPrev(s, S \cup {x}, a, g[a])
  <2>1. IsPrev(s, S, a, g[a])
    BY NextBackwards DEF Linked
  <2>2. h \in S /\ Better(s, h, a)
    BY Order DEF IsFirst
  <2>3. g[a] \in S /\ Better(s, g[a], a) /\ \A j \in S : ~(Better(s, g[a], j) /\ Better(s, j, a))
    BY <2>1, <2>2 DEF IsPrev
  <2>4. ~Better(s, g[a], x)
    BY <1>1, <2>3, Order
  <2> QED BY <2>3, <2>4 DEF IsPrev
<1>7. S \cup {x} \subseteq Nat
  OBVIOUS
<1> QED BY <1>2, <1>3, <1>4, <1>5, <1>6, <1>7, NextBackwards

LEMMA FirstWith ==
    ASSUME NEW s \in Sides, NEW S, S \subseteq Nat \ {0}, NEW x \in Nat \ {0}, NEW h,
           IsFirst(s, S, h), h # 0, Better(s, h, x)
    PROVE  IsFirst(s, S \cup {x}, h)
BY Order DEF IsFirst

LEMMA LinkedWith ==
    ASSUME NEW s \in Sides, NEW S, S \subseteq Nat \ {0}, NEW x \in Nat \ {0}, x \notin S, NEW f, NEW g,
           NEW u, NEW v,
           Linked(s, S, f, g), NEW c \in S, Better(s, c, x), f[c] = 0 \/ Better(s, x, f[c]),
           PutBehind(S, x, c, f, g, u, v)
    PROVE  Linked(s, S \cup {x}, u, v)
<1>1. /\ IsNext(s, S \cup {x}, c, x) /\ IsNext(s, S \cup {x}, x, f[c])
      /\ IsNext(Opposite(s), S \cup {x}, x, c)
      /\ f[c] # 0 => f[c] \in S /\ IsNext(Opposite(s), S \cup {x}, f[c], x)
      /\ \A a \in S \ {c} : IsNext(s, S \cup {x}, a, f[a])
      /\ \A a \in S \ {f[c]} : IsNext(Opposite(s), S \cup {x}, a, g[a])
  BY NextWith
<1>2. ASSUME NEW a \in S \cup {x} PROVE IsNext(s, S \cup {x}, a, u[a])
  <2>1. CASE a = x \/ a = c
    BY <1>1, <2>1 DEF PutBehind
  <2>2. CASE a # x /\ a # c
    BY <1>1, <2>2 DEF PutBehind
  <2> QED BY <2>1, <2>2
<1>3. ASSUME NEW a \in S \cup {x} PROVE IsNext(Opposite(s), S \cup {x}, a, v[a])
  <2>1. CASE a = x \/ a = f[c]
    BY <1>1, <2>1 DEF PutBehind
  <2>2. CASE a # x /\ a # f[c]
    BY <1>1, <2>2 DEF PutBehind
  <2> QED BY <2>1, <2>2
<1> QED BY <1>2, <1>3 DEF Linked

LEMMA LinkedWithFirst ==
    ASSUME NEW s \in Sides, NEW S, S \subseteq Nat \ {0}, NEW x \in Nat \ {0}, x \notin S, NEW f, NEW g,
           NEW u, NEW v, NEW h,
           Linked(s, S, f, g), IsFirst(s, S, h), h = 0 \/ Better(s, x, h),
           PutFirst(S, x, h, f, g, u, v)
    PROVE  Linked(s, S \cup {x}, u, v) /\ IsFirst(s, S \cup {x}, x)
<1>1. /\ IsFirst(s, S \cup {x}, x) /\ IsNext(s, S \cup {x}, x, h) /\ IsNext(Opposite(s), S \cup {x}, x, 0)
      /\ h # 0 => h \in S /\ IsNext(Opposite(s), S \cup {x}, h, x)
      /\ \A a \in S : IsNext(s, S \cup {x}, a, f[a])
      /\ \A a \in S \ {h} : IsNext(Opposite(s), S \cup {x}, a, g[a])
  BY NextWithFirst
<1>2. ASSUME NEW a \in S \cup {x} PROVE IsNext(s, S \cup {x}, a, u[a])
  <2>1. CASE a = x
    BY <1>1, <2>1 DEF PutFirst
  <2>2. CASE a # x
    BY <1>1, <2>2 DEF PutFirst
  <2> QED BY <2>1, <2>2
<1>3. ASSUME NEW a \in S \cup {x} PROVE IsNext(Opposite(s), S \cup {x}, a, v[a])
  <2>1. CASE a = x
    BY <1>1, <2>1 DEF PutFirst
  <2>2. CASE a # x /\ a = h
    BY <1>1, <2>2 DEF PutFirst
  <2>3. CASE a # x /\ a # h
    BY <1>1, <2>3 DEF PutFirst
  <2> QED BY <2>1, <2>2, <2>3
<1> QED BY <1>1, <1>2, <1>3 DEF Linked

LEMMA LinkedSame ==
    ASSUME NEW s, NEW S, NEW f, NEW g, NEW u, NEW v, Linked(s, S, f, g),
           \A a \in S : u[a] = f[a] /\ v[a] = g[a]
    PROVE  Linked(s, S, u, v)
BY DEF Linked

-----------------------------------------------------------------------------
(* The book                                                                 *)

OrderSet == [side : Sides, investor : Investors, price : Prices, amount : Nat,
             revocable : BOOLEAN, next : Nat, prev : Nat]
LevelSet == [exists : BOOLEAN, head : Nat, tail : Nat, volume : Int, next : Nat, prev : Nat]

TypedBook(b) ==
    /\ DOMAIN b = {"orders", "levels", "best"}
    /\ DOMAIN b.orders \subseteq Nat \ {0} /\ b.orders \in [DOMAIN b.orders -> OrderSet]
    /\ b.levels \in [Sides -> [Prices -> LevelSet]]
    /\ b.best \in [Sides -> Nat]

LevelsOf(b, s)    == {p \in Prices : b.levels[s][p].exists}
NextLevel(b, s)   == [p \in Prices |-> b.levels[s][p].next]
PrevLevel(b, s)   == [p \in Prices |-> b.levels[s][p].prev]
OrdersAt(b, s, p) == {id \in DOMAIN b.orders : b.orders[id].side = s /\ b.orders[id].price = p}
NextOrder(b)      == [id \in DOMAIN b.orders |-> b.orders[id].next]
PrevOrder(b)      == [id \in DOMAIN b.orders |-> b.orders[id].prev]

\* The levels of a side are linked best first, and those that do not exist are empty.
SideInv(b, s) ==
    /\ Linked(s, LevelsOf(b, s), NextLevel(b, s), PrevLevel(b, s))
    /\ IsFirst(s, LevelsOf(b, s), b.best[s])
    /\ \A p \in Prices \ LevelsOf(b, s) : b.levels[s][p] = EmptyLevel

\* The orders of a level are linked oldest first.
PlaceInv(b, s, p) ==
    /\ Linked("sell", OrdersAt(b, s, p), NextOrder(b), PrevOrder(b))
    /\ IsFirst("sell", OrdersAt(b, s, p), b.levels[s][p].head)
    /\ IsFirst("buy", OrdersAt(b, s, p), b.levels[s][p].tail)

BookInv(b) ==
    /\ TypedBook(b)
    /\ \A s \in Sides : SideInv(b, s)
    /\ \A s \in Sides, p \in Prices :
         PlaceInv(b, s, p) /\ (p \in LevelsOf(b, s) <=> OrdersAt(b, s, p) # {})

\* Book c is b with another record at one level.
Relevelled(b, s, p, l, c) ==
    /\ DOMAIN c = DOMAIN b /\ c.orders = b.orders /\ c.best = b.best
    /\ c.levels = [t \in Sides |-> [q \in Prices |-> IF t = s /\ q = p THEN l ELSE b.levels[t][q]]]

LEMMA LevelPut ==
    ASSUME NEW b, TypedBook(b), NEW s \in Sides, NEW p \in Prices, NEW l
    PROVE  Relevelled(b, s, p, l, [b EXCEPT !.levels[s][p] = l])
BY DEF TypedBook, Relevelled

LEMMA LevelTyped ==
    ASSUME NEW b, TypedBook(b), NEW s \in Sides, NEW p \in Prices, NEW l \in LevelSet, NEW c, Relevelled(b, s, p, l, c)
    PROVE  TypedBook(c)
BY DEF TypedBook, Relevelled

-----------------------------------------------------------------------------
(* Where a level belongs                                                    *)

\* A set of prices has a first one, in either direction.
LEMMA FirstExists ==
    ASSUME NEW s \in Sides, NEW T, T \subseteq Prices, T # {}
    PROVE  \E m \in T : \A c \in T : ~Better(s, c, m)
<1>1. MaxPrice \in Nat /\ Prices \subseteq Int /\ IsFiniteSet(T)
  <2>1. MaxPrice \in Nat /\ Prices = 1 .. MaxPrice
    BY OrderBookAssumption DEF Prices
  <2>2. IsFiniteSet(Prices)
    BY <2>1, FS_Interval
  <2>3. IsFiniteSet(T)
    BY <2>2, FS_Subset
  <2> QED BY <2>1, <2>3
<1>2. CASE s = "buy"
  <2>1. PICK m \in T : \A c \in T : c <= m
    BY <1>1, MaxOfSet
  <2> QED BY <1>1, <1>2, <2>1 DEF Better
<1>3. CASE s = "sell"
  <2> DEFINE D == {0 - c : c \in T}
  <2>1. D \subseteq Int /\ D # {}
    <3>1. \A c \in T : c \in Int
      BY <1>1
    <3>2. PICK t \in T : TRUE
      OBVIOUS
    <3>3. 0 - t \in D
      BY <3>2
    <3> QED BY <3>1, <3>3
  <2>2. IsFiniteSet(D)
    <3>1. \A c \in T : 0 - c \in (0 - MaxPrice) .. 0
      BY <1>1 DEF Prices
    <3>2. D \subseteq (0 - MaxPrice) .. 0
      BY <3>1
    <3>3. IsFiniteSet((0 - MaxPrice) .. 0)
      BY <1>1, FS_Interval
    <3> QED BY <3>2, <3>3, FS_Subset
  <2> HIDE DEF D
  <2>3. Max(D) \in D /\ \A d \in D : d <= Max(D)
    BY <2>1, <2>2, MaxOfSet
  <2>4. PICK m \in T : Max(D) = 0 - m
    BY <2>3 DEF D
  <2>5. \A c \in T : 0 - c <= 0 - m
    BY <2>3, <2>4 DEF D
  <2>6. \A c \in T : m <= c
    BY <1>1, <2>5
  <2> QED BY <1>1, <1>3, <2>6 DEF Better
<1> QED BY <1>2, <1>3 DEF Sides

LEMMA LastExists ==
    ASSUME NEW s \in Sides, NEW T, T \subseteq Prices, T # {}
    PROVE  \E m \in T : \A c \in T : ~Better(s, m, c)
<1>1. PICK m \in T : \A c \in T : ~Better(Opposite(s), c, m)
  BY FirstExists, Order
<1>2. Prices \subseteq Nat
  BY OrderBookAssumption DEF Prices
<1> QED BY <1>1, <1>2, Order

\* at says of every price where the walk from it ends.
Walks(b, s, p, at) ==
    at = [c \in Prices |-> LET n == b.levels[s][c].next IN IF n = 0 \/ Better(s, p, n) THEN c ELSE at[n]]

LEMMA BeforeWalks ==
    ASSUME NEW b, NEW s, NEW p, NEW w, Walks(b, s, p, w)
    PROVE  \E at : Walks(b, s, p, at) /\ Before(b, s, p) = at[b.best[s]]
<1> DEFINE at == CHOOSE x : Walks(b, s, p, x)
<1>1. Walks(b, s, p, at)
  BY Zenon
<1>2. Before(b, s, p) = at[b.best[s]]
  BY Zenon DEF Before, Walks
<1> QED BY <1>1, <1>2, Zenon

\* Level p is not yet linked, and does not come first.
Unlinked(b, s, S, p) ==
    /\ S \subseteq Prices /\ p \in Prices \ S
    /\ Linked(s, S, NextLevel(b, s), PrevLevel(b, s))
    /\ \A c \in Prices \ S : b.levels[s][c].next = 0
    /\ b.best[s] \in S /\ Better(s, b.best[s], p)

LEMMA BeforeFound ==
    ASSUME NEW b, NEW s \in Sides, NEW S, NEW p, Unlinked(b, s, S, p)
    PROVE  /\ Before(b, s, p) \in S /\ Better(s, Before(b, s, p), p)
           /\ \/ b.levels[s][Before(b, s, p)].next = 0
              \/ Better(s, p, b.levels[s][Before(b, s, p)].next)
<1> DEFINE f == [c \in Prices |-> b.levels[s][c].next]
           T == {c \in S : Better(s, c, p)}
<1>1. Prices \subseteq Nat \ {0} /\ S \subseteq Prices /\ p \in Prices \ S
  BY OrderBookAssumption DEF Prices, Unlinked
<1>2. b.best[s] \in T
  BY DEF Unlinked
<1>3. PICK last \in T : \A c \in T : ~Better(s, last, c)
  BY <1>1, <1>2, LastExists
<1>4. ASSUME NEW c \in S
      PROVE  \/ f[c] = 0 /\ \A j \in S : ~Better(s, c, j)
             \/ f[c] \in S /\ Better(s, c, f[c]) /\ \A j \in S : ~(Better(s, c, j) /\ Better(s, j, f[c]))
  <2>1. IsNext(s, S, c, NextLevel(b, s)[c])
    BY DEF Unlinked, Linked
  <2>2. NextLevel(b, s)[c] = f[c]
    BY <1>1 DEF NextLevel
  <2> QED BY <2>1, <2>2 DEF IsNext
<1>5. \A c \in Prices \ S : f[c] = 0
  BY DEF Unlinked
<1>6. \A c \in Prices : f[c] = b.levels[s][c].next
  OBVIOUS
<1> HIDE DEF f
\* In front of p the walk goes on exactly until the last level there.
<1>7. ASSUME NEW c \in T
      PROVE  IF c = last THEN f[c] = 0 \/ Better(s, p, f[c])
             ELSE f[c] # 0 /\ ~Better(s, p, f[c]) /\ f[c] \in T /\ Better(s, c, f[c])
  <2>1. f[c] # 0 => f[c] \in S /\ Better(s, c, f[c]) /\ (Better(s, p, f[c]) \/ f[c] \in T)
    BY <1>1, <1>4, Order
  <2>2. CASE c = last
    BY <1>3, <2>1, <2>2
  <2>3. CASE c # last
    <3>1. Better(s, c, last) /\ Better(s, last, p)
      BY <1>1, <1>3, <2>3, Order
    <3>2. f[c] # 0 /\ ~Better(s, last, f[c])
      BY <1>1, <1>3, <1>4, <3>1, Order
    <3>3. f[c] \in S /\ ~Better(s, p, f[c])
      BY <1>1, <1>3, <2>1, <3>1, <3>2, Order
    <3> QED BY <1>1, <2>1, <2>3, <3>2, <3>3, Order
  <2> QED BY <2>2, <2>3
<1>8. \E w : Walks(b, s, p, w)
  <2> DEFINE w == [c \in Prices |-> IF c \in T THEN last ELSE c]
             Goal(c) == IF f[c] = 0 \/ Better(s, p, f[c]) THEN c ELSE w[f[c]]
  <2>1. ASSUME NEW c \in Prices PROVE w[c] = Goal(c)
    <3>1. CASE c \in T
      <4>1. f[c] \in T => w[f[c]] = last
        BY <1>1
      <4> QED BY <1>7, <3>1, <4>1
    <3>2. CASE c \in S /\ c \notin T
      <4>1. Better(s, p, c)
        BY <1>1, <3>2, Order
      <4>2. f[c] = 0 \/ Better(s, p, f[c])
        BY <1>1, <1>4, <3>2, <4>1, Order
      <4> QED BY <3>2, <4>2
    <3>3. CASE c \notin S
      BY <1>5, <3>3
    <3> QED BY <3>1, <3>2, <3>3
  <2>2. w = [c \in Prices |-> Goal(c)]
    BY <2>1
  <2>3. w = [c \in Prices |-> IF b.levels[s][c].next = 0 \/ Better(s, p, b.levels[s][c].next)
                              THEN c ELSE w[b.levels[s][c].next]]
    BY <1>6, <2>2
  <2> HIDE DEF w
  <2> QED BY <2>3 DEF Walks
<1>9. ASSUME NEW at, Walks(b, s, p, at) PROVE \A c \in T : at[c] = last
  <2> DEFINE C == {c \in T : at[c] # last}
  <2>1. \A c \in Prices : at[c] = IF f[c] = 0 \/ Better(s, p, f[c]) THEN c ELSE at[f[c]]
    BY <1>6, <1>9 DEF Walks
  <2> SUFFICES ASSUME C # {} PROVE FALSE
    OBVIOUS
  <2>2. PICK m \in C : \A c \in C : ~Better(s, m, c)
    <3>1. C \subseteq Prices
      BY <1>1
    <3> HIDE DEF C
    <3> QED BY <3>1, LastExists
  <2>3. m # last
    BY <1>1, <1>7, <2>1, <2>2
  <2>4. f[m] \in T /\ f[m] \notin C /\ at[m] = at[f[m]]
    BY <1>1, <1>7, <2>1, <2>2, <2>3
  <2> QED BY <2>2, <2>4
<1>10. Before(b, s, p) = last
  BY <1>2, <1>8, <1>9, BeforeWalks
<1> QED BY <1>1, <1>3, <1>6, <1>7, <1>10

-----------------------------------------------------------------------------
(* A level is made                                                          *)

\* On side s book c has level p besides those of b, and everything else is as in b.
Ensured(b, s, p, c) ==
    /\ TypedBook(c) /\ c.orders = b.orders
    /\ LevelsOf(c, s) = LevelsOf(b, s) \cup {p}
    /\ \A t \in Sides \ {s} : c.levels[t] = b.levels[t] /\ c.best[t] = b.best[t]
    /\ \A q \in Prices : /\ c.levels[s][q].head = b.levels[s][q].head
                         /\ c.levels[s][q].tail = b.levels[s][q].tail
                         /\ c.levels[s][q].volume = b.levels[s][q].volume

\* Book c is b with the levels of side s linked anew.
Relinked(b, s, c) ==
    /\ TypedBook(c) /\ c.orders = b.orders
    /\ \A t \in Sides \ {s} : c.levels[t] = b.levels[t] /\ c.best[t] = b.best[t]
    /\ \A q \in Prices : /\ c.levels[s][q].exists = b.levels[s][q].exists
                         /\ c.levels[s][q].head = b.levels[s][q].head
                         /\ c.levels[s][q].tail = b.levels[s][q].tail
                         /\ c.levels[s][q].volume = b.levels[s][q].volume

LEMMA RelinkedTwice ==
    ASSUME NEW b, NEW c, NEW d, NEW s, Relinked(b, s, c), Relinked(c, s, d)
    PROVE  Relinked(b, s, d)
BY DEF Relinked

\* Book c is b with one link of a level set.
NextPut(b, s, p, n, c) ==
    /\ Relinked(b, s, c) /\ c.best = b.best
    /\ \A q \in Prices : /\ c.levels[s][q].next = IF q = p THEN n ELSE b.levels[s][q].next
                         /\ c.levels[s][q].prev = b.levels[s][q].prev
PrevPut(b, s, p, n, c) ==
    /\ Relinked(b, s, c) /\ c.best = b.best
    /\ \A q \in Prices : /\ c.levels[s][q].prev = IF q = p THEN n ELSE b.levels[s][q].prev
                         /\ c.levels[s][q].next = b.levels[s][q].next
FirstPut(b, s, p, c) ==
    /\ Relinked(b, s, c) /\ c.best[s] = p
    /\ \A q \in Prices : /\ c.levels[s][q].next = b.levels[s][q].next
                         /\ c.levels[s][q].prev = b.levels[s][q].prev

LEMMA FirstLinked ==
    ASSUME NEW b, TypedBook(b), NEW s \in Sides, NEW p \in Nat, NEW c,
           c = [b EXCEPT !.best[s] = p]
    PROVE  FirstPut(b, s, p, c)
BY DEF TypedBook, Relinked, FirstPut

LEMMA NextLinked ==
    ASSUME NEW b, TypedBook(b), NEW s \in Sides, NEW p \in Prices, NEW n \in Nat, NEW c,
           c = [b EXCEPT !.levels[s][p].next = n]
    PROVE  NextPut(b, s, p, n, c)
<1> DEFINE l == [b.levels[s][p] EXCEPT !.next = n]
<1>1. b.levels[s][p] \in LevelSet
  BY DEF TypedBook
<1>2. /\ l \in LevelSet /\ l.next = n /\ l.prev = b.levels[s][p].prev
      /\ l.exists = b.levels[s][p].exists /\ l.head = b.levels[s][p].head
      /\ l.tail = b.levels[s][p].tail /\ l.volume = b.levels[s][p].volume
  BY <1>1 DEF LevelSet
<1>3. c = [b EXCEPT !.levels[s][p] = l]
  BY DEF TypedBook
<1> HIDE DEF l
<1>4. Relevelled(b, s, p, l, c)
  BY <1>3, LevelPut
<1>5. TypedBook(c)
  BY <1>2, <1>4, LevelTyped
<1>6. c.levels = [t \in Sides |-> [q \in Prices |-> IF t = s /\ q = p THEN l ELSE b.levels[t][q]]]
  BY <1>4 DEF Relevelled
<1>7. \A t \in Sides \ {s} : c.levels[t] = b.levels[t]
  BY <1>6 DEF TypedBook
<1>8. \A q \in Prices : c.levels[s][q] = IF q = p THEN l ELSE b.levels[s][q]
  BY <1>6
<1>9. Relinked(b, s, c)
  BY <1>2, <1>4, <1>5, <1>7, <1>8 DEF Relinked, Relevelled
<1>10. \A q \in Prices : /\ c.levels[s][q].next = IF q = p THEN n ELSE b.levels[s][q].next
                        /\ c.levels[s][q].prev = b.levels[s][q].prev
  BY <1>2, <1>8
<1>11. c.best = b.best
  BY <1>4 DEF Relevelled
<1> QED BY <1>9, <1>10, <1>11 DEF NextPut

LEMMA PrevLinked ==
    ASSUME NEW b, TypedBook(b), NEW s \in Sides, NEW p \in Prices, NEW n \in Nat, NEW c,
           c = [b EXCEPT !.levels[s][p].prev = n]
    PROVE  PrevPut(b, s, p, n, c)
<1> DEFINE l == [b.levels[s][p] EXCEPT !.prev = n]
<1>1. b.levels[s][p] \in LevelSet
  BY DEF TypedBook
<1>2. /\ l \in LevelSet /\ l.prev = n /\ l.next = b.levels[s][p].next
      /\ l.exists = b.levels[s][p].exists /\ l.head = b.levels[s][p].head
      /\ l.tail = b.levels[s][p].tail /\ l.volume = b.levels[s][p].volume
  BY <1>1 DEF LevelSet
<1>3. c = [b EXCEPT !.levels[s][p] = l]
  BY DEF TypedBook
<1> HIDE DEF l
<1>4. Relevelled(b, s, p, l, c)
  BY <1>3, LevelPut
<1>5. TypedBook(c)
  BY <1>2, <1>4, LevelTyped
<1>6. c.levels = [t \in Sides |-> [q \in Prices |-> IF t = s /\ q = p THEN l ELSE b.levels[t][q]]]
  BY <1>4 DEF Relevelled
<1>7. \A t \in Sides \ {s} : c.levels[t] = b.levels[t]
  BY <1>6 DEF TypedBook
<1>8. \A q \in Prices : c.levels[s][q] = IF q = p THEN l ELSE b.levels[s][q]
  BY <1>6
<1>9. Relinked(b, s, c)
  BY <1>2, <1>4, <1>5, <1>7, <1>8 DEF Relinked, Relevelled
<1>10. \A q \in Prices : /\ c.levels[s][q].prev = IF q = p THEN n ELSE b.levels[s][q].prev
                        /\ c.levels[s][q].next = b.levels[s][q].next
  BY <1>2, <1>8
<1>11. c.best = b.best
  BY <1>4 DEF Relevelled
<1> QED BY <1>9, <1>10, <1>11 DEF PrevPut

\* Both links of level p, and one of its neighbours' links, are set.
FrontPut(b, s, p, n, c) ==
    /\ Relinked(b, s, c) /\ c.best[s] = p
    /\ \A q \in Prices : /\ c.levels[s][q].next = IF q = p THEN n ELSE b.levels[s][q].next
                         /\ c.levels[s][q].prev = IF q = n THEN p ELSE b.levels[s][q].prev
MiddlePut(b, s, p, k, n, c) ==
    /\ Relinked(b, s, c) /\ c.best = b.best
    /\ \A q \in Prices : /\ c.levels[s][q].next = IF q = k THEN p ELSE IF q = p THEN n
                                                  ELSE b.levels[s][q].next
                         /\ c.levels[s][q].prev = IF q = p THEN k ELSE b.levels[s][q].prev

LEMMA FrontLinked ==
    ASSUME NEW b, TypedBook(b), NEW s \in Sides, NEW p \in Prices, p \in Nat, NEW n \in Prices, n \in Nat, NEW c,
           c = [b EXCEPT !.best[s] = p, !.levels[s][p].next = n, !.levels[s][n].prev = p]
    PROVE  FrontPut(b, s, p, n, c)
<1> DEFINE b1 == [b EXCEPT !.best[s] = p]
           b2 == [b1 EXCEPT !.levels[s][p].next = n]
           b3 == [b2 EXCEPT !.levels[s][n].prev = p]
<1>1. c = b3
  OBVIOUS
<1>2. b3 = [b2 EXCEPT !.levels[s][n].prev = p]
  OBVIOUS
<1> HIDE DEF b3
<1>3. b2 = [b1 EXCEPT !.levels[s][p].next = n]
  OBVIOUS
<1> HIDE DEF b2
<1>4. FirstPut(b, s, p, b1)
  BY FirstLinked
<1> HIDE DEF b1
<1>5. TypedBook(b1)
  BY <1>4 DEF FirstPut, Relinked
<1>6. NextPut(b1, s, p, n, b2)
  BY <1>3, <1>5, NextLinked
<1>7. TypedBook(b2)
  BY <1>6 DEF NextPut, Relinked
<1>8. PrevPut(b2, s, n, p, b3)
  BY <1>2, <1>7, PrevLinked
<1>9. Relinked(b, s, c)
  BY <1>1, <1>4, <1>6, <1>8, RelinkedTwice DEF FirstPut, NextPut, PrevPut
<1>10. c.best[s] = p
  BY <1>1, <1>4, <1>6, <1>8 DEF FirstPut, NextPut, PrevPut
<1>11. ASSUME NEW q \in Prices
       PROVE  /\ c.levels[s][q].next = IF q = p THEN n ELSE b.levels[s][q].next
              /\ c.levels[s][q].prev = IF q = n THEN p ELSE b.levels[s][q].prev
  <2>1. b1.levels[s][q].next = b.levels[s][q].next /\ b1.levels[s][q].prev = b.levels[s][q].prev
    BY <1>4 DEF FirstPut
  <2>2. /\ b2.levels[s][q].next = IF q = p THEN n ELSE b1.levels[s][q].next
        /\ b2.levels[s][q].prev = b1.levels[s][q].prev
    BY <1>6 DEF NextPut
  <2>3. /\ c.levels[s][q].prev = IF q = n THEN p ELSE b2.levels[s][q].prev
        /\ c.levels[s][q].next = b2.levels[s][q].next
    BY <1>1, <1>8, Zenon DEF PrevPut
  <2> QED BY <2>1, <2>2, <2>3
<1> QED BY <1>9, <1>10, <1>11 DEF FrontPut

LEMMA MiddleLinked ==
    ASSUME NEW b, TypedBook(b), NEW s \in Sides, NEW p \in Prices, p \in Nat, NEW k \in Prices, k \in Nat,
           NEW n \in Nat, NEW c,
           c = [b EXCEPT !.levels[s][p].next = n, !.levels[s][p].prev = k, !.levels[s][k].next = p]
    PROVE  MiddlePut(b, s, p, k, n, c)
<1> DEFINE b1 == [b EXCEPT !.levels[s][p].next = n]
           b2 == [b1 EXCEPT !.levels[s][p].prev = k]
           b3 == [b2 EXCEPT !.levels[s][k].next = p]
<1>1. c = b3
  OBVIOUS
<1>2. b3 = [b2 EXCEPT !.levels[s][k].next = p]
  OBVIOUS
<1> HIDE DEF b3
<1>3. b2 = [b1 EXCEPT !.levels[s][p].prev = k]
  OBVIOUS
<1> HIDE DEF b2
<1>4. NextPut(b, s, p, n, b1)
  BY NextLinked
<1> HIDE DEF b1
<1>5. TypedBook(b1)
  BY <1>4 DEF NextPut, Relinked
<1>6. PrevPut(b1, s, p, k, b2)
  BY <1>3, <1>5, PrevLinked
<1>7. TypedBook(b2)
  BY <1>6 DEF PrevPut, Relinked
<1>8. NextPut(b2, s, k, p, b3)
  BY <1>2, <1>7, NextLinked
<1>9. Relinked(b, s, c)
  BY <1>1, <1>4, <1>6, <1>8, RelinkedTwice DEF NextPut, PrevPut
<1>10. c.best = b.best
  BY <1>1, <1>4, <1>6, <1>8 DEF NextPut, PrevPut
<1>11. ASSUME NEW q \in Prices
       PROVE  /\ c.levels[s][q].next = IF q = k THEN p ELSE IF q = p THEN n
                                       ELSE b.levels[s][q].next
              /\ c.levels[s][q].prev = IF q = p THEN k ELSE b.levels[s][q].prev
  <2>1. /\ b1.levels[s][q].next = IF q = p THEN n ELSE b.levels[s][q].next
        /\ b1.levels[s][q].prev = b.levels[s][q].prev
    BY <1>4 DEF NextPut
  <2>2. /\ b2.levels[s][q].prev = IF q = p THEN k ELSE b1.levels[s][q].prev
        /\ b2.levels[s][q].next = b1.levels[s][q].next
    BY <1>6 DEF PrevPut
  <2>3. /\ c.levels[s][q].next = IF q = k THEN p ELSE b2.levels[s][q].next
        /\ c.levels[s][q].prev = b2.levels[s][q].prev
    BY <1>1, <1>8 DEF NextPut
  <2> QED BY <2>1, <2>2, <2>3
<1> QED BY <1>9, <1>10, <1>11, Zenon DEF MiddlePut

\* Level p of side s is there besides the linked levels S, and not linked yet.
Inserting(b, s, S, p) ==
    /\ TypedBook(b) /\ S \subseteq Prices /\ p \in Prices \ S
    /\ Linked(s, S, NextLevel(b, s), PrevLevel(b, s))
    /\ IsFirst(s, S, b.best[s])
    /\ \A c \in Prices \ S : b.levels[s][c].next = 0 /\ b.levels[s][c].prev = 0

\* Book c is b with level p linked.
LinkedIn(b, s, S, p, c) ==
    /\ Relinked(b, s, c)
    /\ Linked(s, S \cup {p}, NextLevel(c, s), PrevLevel(c, s))
    /\ IsFirst(s, S \cup {p}, c.best[s])
    /\ \A q \in Prices \ (S \cup {p}) : c.levels[s][q].next = 0 /\ c.levels[s][q].prev = 0

LEMMA PricesAreNumbers == Prices \subseteq Nat \ {0}
BY OrderBookAssumption DEF Prices

LEMMA LinkOfLevel ==
    ASSUME NEW b, NEW s, NEW p \in Prices
    PROVE  NextLevel(b, s)[p] = b.levels[s][p].next /\ PrevLevel(b, s)[p] = b.levels[s][p].prev
BY DEF NextLevel, PrevLevel

LEMMA InsertedOnly ==
    ASSUME NEW b, NEW s \in Sides, NEW S, NEW p, Inserting(b, s, S, p), b.best[s] = 0
    PROVE  LinkedIn(b, s, S, p, InsertLevel(b, s, p))
<1> DEFINE c == InsertLevel(b, s, p)
<1>1. TypedBook(b) /\ S \subseteq Nat \ {0} /\ p \in Nat \ {0} /\ p \in Prices /\ p \notin S /\ S \subseteq Prices
      /\ Linked(s, S, NextLevel(b, s), PrevLevel(b, s)) /\ IsFirst(s, S, 0)
  BY PricesAreNumbers DEF Inserting
<1>2. c = [b EXCEPT !.best[s] = p]
  BY DEF InsertLevel
<1> HIDE DEF c
<1>3. FirstPut(b, s, p, c)
  BY <1>1, <1>2, FirstLinked
<1>4. ASSUME NEW q \in Prices
      PROVE  /\ NextLevel(c, s)[q] = NextLevel(b, s)[q] /\ PrevLevel(c, s)[q] = PrevLevel(b, s)[q]
             /\ NextLevel(b, s)[q] = b.levels[s][q].next /\ PrevLevel(b, s)[q] = b.levels[s][q].prev
  BY <1>3, LinkOfLevel DEF FirstPut
<1>5. \A q \in Prices \ S : b.levels[s][q].next = 0 /\ b.levels[s][q].prev = 0
  BY DEF Inserting
<1>6. S = {}
  BY <1>1 DEF IsFirst
<1>7. PutFirst(S, p, 0, NextLevel(b, s), PrevLevel(b, s), NextLevel(c, s), PrevLevel(c, s))
  BY <1>1, <1>4, <1>5, <1>6 DEF PutFirst
<1>8. Linked(s, S \cup {p}, NextLevel(c, s), PrevLevel(c, s)) /\ IsFirst(s, S \cup {p}, p)
  BY <1>1, <1>7, LinkedWithFirst
<1>9. \A q \in Prices \ (S \cup {p}) : c.levels[s][q].next = 0 /\ c.levels[s][q].prev = 0
  BY <1>3, <1>5 DEF FirstPut
<1> QED BY <1>3, <1>8, <1>9 DEF LinkedIn, FirstPut, c

LEMMA InsertedFirst ==
    ASSUME NEW b, NEW s \in Sides, NEW S, NEW p, Inserting(b, s, S, p), b.best[s] # 0,
           Better(s, p, b.best[s])
    PROVE  LinkedIn(b, s, S, p, InsertLevel(b, s, p))
<1> DEFINE c == InsertLevel(b, s, p)
           h == b.best[s]
<1>1. TypedBook(b) /\ S \subseteq Nat \ {0} /\ p \in Nat \ {0} /\ p \in Prices /\ p \notin S /\ S \subseteq Prices
      /\ Linked(s, S, NextLevel(b, s), PrevLevel(b, s)) /\ IsFirst(s, S, h)
  BY PricesAreNumbers DEF Inserting
<1>2. h \in S /\ h \in Prices /\ h \in Nat /\ h # p
  BY <1>1 DEF IsFirst
<1>3. c = [b EXCEPT !.best[s] = p, !.levels[s][p].next = h, !.levels[s][h].prev = p]
  BY DEF InsertLevel
<1>4. Better(s, p, h)
  OBVIOUS
<1>5. \A q \in Prices \ S : b.levels[s][q].next = 0 /\ b.levels[s][q].prev = 0
  BY DEF Inserting
<1> HIDE DEF c, h
<1>6. FrontPut(b, s, p, h, c)
  BY <1>1, <1>2, <1>3, FrontLinked, Zenon
<1>7. ASSUME NEW q \in Prices
      PROVE  /\ NextLevel(c, s)[q] = IF q = p THEN h ELSE NextLevel(b, s)[q]
             /\ PrevLevel(c, s)[q] = IF q = h THEN p ELSE PrevLevel(b, s)[q]
  <2>1. /\ c.levels[s][q].next = IF q = p THEN h ELSE b.levels[s][q].next
        /\ c.levels[s][q].prev = IF q = h THEN p ELSE b.levels[s][q].prev
    BY <1>6 DEF FrontPut
  <2> QED BY <2>1, LinkOfLevel
<1>8. PrevLevel(b, s)[p] = 0
  BY <1>1, <1>5, LinkOfLevel
<1>9. PutFirst(S, p, h, NextLevel(b, s), PrevLevel(b, s), NextLevel(c, s), PrevLevel(c, s))
  BY <1>1, <1>2, <1>7, <1>8 DEF PutFirst
<1>10. Linked(s, S \cup {p}, NextLevel(c, s), PrevLevel(c, s)) /\ IsFirst(s, S \cup {p}, p)
  BY <1>1, <1>4, <1>9, LinkedWithFirst
<1>11. ASSUME NEW q \in Prices \ (S \cup {p}) PROVE c.levels[s][q].next = 0 /\ c.levels[s][q].prev = 0
  <2>1. /\ c.levels[s][q].next = IF q = p THEN h ELSE b.levels[s][q].next
        /\ c.levels[s][q].prev = IF q = h THEN p ELSE b.levels[s][q].prev
    BY <1>6 DEF FrontPut
  <2> QED BY <1>2, <1>5, <2>1
<1> QED BY <1>6, <1>10, <1>11 DEF LinkedIn, FrontPut, c

LEMMA InsertedBehind ==
    ASSUME NEW b, NEW s \in Sides, NEW S, NEW p, Inserting(b, s, S, p), b.best[s] # 0,
           ~Better(s, p, b.best[s])
    PROVE  LinkedIn(b, s, S, p, InsertLevel(b, s, p))
<1> DEFINE c == InsertLevel(b, s, p)
           k == Before(b, s, p)
           n == b.levels[s][k].next
           mid == [b EXCEPT !.levels[s][p].next = n, !.levels[s][p].prev = k, !.levels[s][k].next = p]
<1>1. TypedBook(b) /\ S \subseteq Nat \ {0} /\ p \in Nat \ {0} /\ p \in Prices /\ p \notin S /\ S \subseteq Prices
      /\ Linked(s, S, NextLevel(b, s), PrevLevel(b, s)) /\ IsFirst(s, S, b.best[s])
  BY PricesAreNumbers DEF Inserting
<1>2. c = IF n = 0 THEN mid ELSE [mid EXCEPT !.levels[s][n].prev = p]
  BY DEF InsertLevel
<1>3. mid = [b EXCEPT !.levels[s][p].next = n, !.levels[s][p].prev = k, !.levels[s][k].next = p]
  OBVIOUS
<1>4. \A q \in Prices \ S : b.levels[s][q].next = 0 /\ b.levels[s][q].prev = 0
  BY DEF Inserting
<1>5. Unlinked(b, s, S, p)
  <2>1. b.best[s] \in S
    BY <1>1 DEF IsFirst
  <2>2. Better(s, b.best[s], p)
    BY <1>1, <2>1, Order
  <2> QED BY <1>1, <1>4, <2>1, <2>2 DEF Unlinked
<1> HIDE DEF c, mid
<1>6. k \in S /\ Better(s, k, p) /\ (n = 0 \/ Better(s, p, n))
  BY <1>5, BeforeFound
<1> HIDE DEF k
<1>7. NextLevel(b, s)[k] = n /\ k \in Prices
  BY <1>1, <1>6, LinkOfLevel
<1> HIDE DEF n
<1>8. n = 0 \/ n \in S
  BY <1>1, <1>6, <1>7 DEF Linked, IsNext
<1>9. n \in Nat /\ (n # 0 => n \in Prices /\ n # p)
  BY <1>1, <1>8
<1>10. MiddlePut(b, s, p, k, n, mid)
  BY <1>1, <1>3, <1>6, <1>7, <1>9, MiddleLinked, Zenon
<1>11. TypedBook(mid)
  BY <1>10 DEF MiddlePut, Relinked
<1>12. /\ Relinked(b, s, c) /\ c.best = b.best
       /\ \A q \in Prices : /\ c.levels[s][q].next = mid.levels[s][q].next
                            /\ c.levels[s][q].prev = IF q = n THEN p ELSE mid.levels[s][q].prev
  <2>1. CASE n = 0
    <3>1. c = mid
      BY <1>2, <2>1
    <3>2. Relinked(b, s, mid) /\ mid.best = b.best
      BY <1>10 DEF MiddlePut
    <3>3. \A q \in Prices : q # n
      BY <2>1, PricesAreNumbers
    <3> QED BY <3>1, <3>2, <3>3
  <2>2. CASE n # 0
    <3>1. PrevPut(mid, s, n, p, c)
      BY <1>1, <1>2, <1>9, <1>11, <2>2, PrevLinked
    <3>2. Relinked(b, s, c) /\ c.best = b.best
      BY <1>10, <3>1, RelinkedTwice DEF MiddlePut, PrevPut
    <3> QED BY <3>1, <3>2 DEF PrevPut
  <2> QED BY <2>1, <2>2
<1>13. ASSUME NEW q \in Prices
       PROVE  /\ c.levels[s][q].next = IF q = k THEN p ELSE IF q = p THEN n ELSE b.levels[s][q].next
              /\ c.levels[s][q].prev = IF q = n THEN p ELSE IF q = p THEN k ELSE b.levels[s][q].prev
  <2>1. /\ mid.levels[s][q].next = IF q = k THEN p ELSE IF q = p THEN n ELSE b.levels[s][q].next
        /\ mid.levels[s][q].prev = IF q = p THEN k ELSE b.levels[s][q].prev
    BY <1>10 DEF MiddlePut
  <2> QED BY <1>12, <2>1
<1>14. PutBehind(S, p, k, NextLevel(b, s), PrevLevel(b, s), NextLevel(c, s), PrevLevel(c, s))
  <2> SUFFICES ASSUME NEW a \in S \cup {p}
      PROVE  /\ NextLevel(c, s)[a] = IF a = p THEN NextLevel(b, s)[k] ELSE IF a = k THEN p ELSE NextLevel(b, s)[a]
             /\ PrevLevel(c, s)[a] = IF a = p THEN k ELSE IF a = NextLevel(b, s)[k] THEN p ELSE PrevLevel(b, s)[a]
    BY DEF PutBehind
  <2>1. /\ NextLevel(c, s)[a] = c.levels[s][a].next /\ PrevLevel(c, s)[a] = c.levels[s][a].prev
        /\ NextLevel(b, s)[a] = b.levels[s][a].next /\ PrevLevel(b, s)[a] = b.levels[s][a].prev
    BY <1>1, LinkOfLevel
  <2>2. a \in Prices /\ k # p /\ n # p
    BY <1>1, <1>6, <1>8
  <2> QED BY <1>7, <1>13, <2>1, <2>2
<1>15. Linked(s, S \cup {p}, NextLevel(c, s), PrevLevel(c, s))
  <2>1. NextLevel(b, s)[k] = 0 \/ Better(s, p, NextLevel(b, s)[k])
    BY <1>6, <1>7
  <2> QED BY <1>1, <1>6, <1>14, <2>1, LinkedWith
<1>16. IsFirst(s, S \cup {p}, c.best[s])
  BY <1>1, <1>5, <1>12, FirstWith DEF Unlinked
<1>17. ASSUME NEW q \in Prices \ (S \cup {p}) PROVE c.levels[s][q].next = 0 /\ c.levels[s][q].prev = 0
  <2>1. q # k /\ q # n /\ q # p
    BY <1>6, <1>8, PricesAreNumbers
  <2> QED BY <1>4, <1>13, <2>1
<1> QED BY <1>12, <1>15, <1>16, <1>17 DEF LinkedIn, c

LEMMA LevelInserted ==
    ASSUME NEW b, NEW s \in Sides, NEW S, NEW p, Inserting(b, s, S, p)
    PROVE  LinkedIn(b, s, S, p, InsertLevel(b, s, p))
BY InsertedOnly, InsertedFirst, InsertedBehind

LEMMA LevelEmpty ==
    ASSUME NEW l \in LevelSet, l.exists = FALSE, l.head = 0, l.tail = 0, l.volume = 0, l.next = 0, l.prev = 0
    PROVE  l = EmptyLevel
BY DEF LevelSet, EmptyLevel

LEMMA LevelEnsured ==
    ASSUME NEW b, TypedBook(b), NEW s \in Sides, NEW p \in Prices, SideInv(b, s)
    PROVE  Ensured(b, s, p, EnsureLevel(b, s, p)) /\ SideInv(EnsureLevel(b, s, p), s)
<1>1. CASE b.levels[s][p].exists
  <2>1. EnsureLevel(b, s, p) = b
    BY <1>1 DEF EnsureLevel
  <2>2. LevelsOf(b, s) = LevelsOf(b, s) \cup {p}
    BY <1>1 DEF LevelsOf
  <2> QED BY <2>1, <2>2 DEF Ensured
<1>2. CASE ~b.levels[s][p].exists
  <2> DEFINE l == [b.levels[s][p] EXCEPT !.exists = TRUE]
             d == [b EXCEPT !.levels[s][p].exists = TRUE]
             c == EnsureLevel(b, s, p)
             S == LevelsOf(b, s)
  <2>1. b.levels[s][p] \in LevelSet
    BY DEF TypedBook
  <2>2. /\ l \in LevelSet /\ l.exists = TRUE /\ l.next = b.levels[s][p].next /\ l.prev = b.levels[s][p].prev
        /\ l.head = b.levels[s][p].head /\ l.tail = b.levels[s][p].tail /\ l.volume = b.levels[s][p].volume
    BY <2>1 DEF LevelSet
  <2>3. d = [b EXCEPT !.levels[s][p] = l]
    BY DEF TypedBook
  <2>4. c = InsertLevel(d, s, p)
    BY <1>2 DEF EnsureLevel
  <2> HIDE DEF l, d, c
  <2>5. Relevelled(b, s, p, l, d)
    BY <2>3, LevelPut
  <2>6. TypedBook(d)
    BY <2>2, <2>5, LevelTyped
  <2>7. \A q \in Prices : d.levels[s][q] = IF q = p THEN l ELSE b.levels[s][q]
    BY <2>5 DEF Relevelled
  <2>8. \A t \in Sides \ {s} : d.levels[t] = b.levels[t] /\ d.best[t] = b.best[t]
    BY <2>5 DEF TypedBook, Relevelled
  <2>9. d.orders = b.orders /\ d.best = b.best
    BY <2>5 DEF Relevelled
  <2>10. LevelsOf(d, s) = S \cup {p} /\ p \notin S /\ S \subseteq Prices
    BY <1>2, <2>2, <2>7 DEF LevelsOf
  <2>11. \A q \in Prices : NextLevel(d, s)[q] = NextLevel(b, s)[q] /\ PrevLevel(d, s)[q] = PrevLevel(b, s)[q]
    BY <2>2, <2>7 DEF NextLevel, PrevLevel
  <2>12. \A q \in Prices \ S : b.levels[s][q] = EmptyLevel
    BY DEF SideInv
  <2>13. Inserting(d, s, S, p)
    <3>1. Linked(s, S, NextLevel(d, s), PrevLevel(d, s))
      <4>1. Linked(s, S, NextLevel(b, s), PrevLevel(b, s))
        BY DEF SideInv
      <4> QED BY <2>10, <2>11, <4>1, LinkedSame
    <3>2. IsFirst(s, S, d.best[s])
      BY <2>9 DEF SideInv
    <3>3. ASSUME NEW q \in Prices \ S PROVE d.levels[s][q].next = 0 /\ d.levels[s][q].prev = 0
      <4>1. b.levels[s][q].next = 0 /\ b.levels[s][q].prev = 0
        BY <2>12 DEF EmptyLevel
      <4> QED BY <2>2, <2>7, <4>1
    <3> HIDE DEF S
    <3> QED BY <2>6, <2>10, <3>1, <3>2, <3>3 DEF Inserting
  <2>14. LinkedIn(d, s, S, p, c)
    BY <2>4, <2>13, LevelInserted
  <2>15. Relinked(d, s, c)
    BY <2>14 DEF LinkedIn
  <2>16. TypedBook(c) /\ c.orders = b.orders
    BY <2>9, <2>15 DEF Relinked
  <2>17. LevelsOf(c, s) = S \cup {p}
    <3>1. \A q \in Prices : c.levels[s][q].exists = d.levels[s][q].exists
      BY <2>15 DEF Relinked
    <3> QED BY <2>10, <3>1 DEF LevelsOf
  <2>18. Ensured(b, s, p, c)
    <3>1. \A t \in Sides \ {s} : c.levels[t] = b.levels[t] /\ c.best[t] = b.best[t]
      BY <2>8, <2>15 DEF Relinked
    <3>2. ASSUME NEW q \in Prices
          PROVE  /\ c.levels[s][q].head = b.levels[s][q].head
                 /\ c.levels[s][q].tail = b.levels[s][q].tail
                 /\ c.levels[s][q].volume = b.levels[s][q].volume
      <4>1. /\ c.levels[s][q].head = d.levels[s][q].head
            /\ c.levels[s][q].tail = d.levels[s][q].tail
            /\ c.levels[s][q].volume = d.levels[s][q].volume
        BY <2>15 DEF Relinked
      <4> QED BY <2>2, <2>7, <4>1
    <3> QED BY <2>16, <2>17, <3>1, <3>2 DEF Ensured
  <2>19. ASSUME NEW q \in Prices \ LevelsOf(c, s) PROVE c.levels[s][q] = EmptyLevel
    <3>1. q \in Prices \ S /\ q # p
      BY <2>17
    <3>2. b.levels[s][q] = EmptyLevel
      BY <2>12, <3>1
    <3>3. d.levels[s][q] = EmptyLevel
      BY <2>7, <3>1, <3>2
    <3>4. c.levels[s][q] \in LevelSet
      BY <2>16 DEF TypedBook
    <3>5. /\ c.levels[s][q].exists = d.levels[s][q].exists
          /\ c.levels[s][q].head = d.levels[s][q].head
          /\ c.levels[s][q].tail = d.levels[s][q].tail
          /\ c.levels[s][q].volume = d.levels[s][q].volume
      BY <2>15 DEF Relinked
    <3>6. c.levels[s][q].next = 0 /\ c.levels[s][q].prev = 0
      BY <2>14, <3>1 DEF LinkedIn
    <3>7. /\ d.levels[s][q].exists = FALSE /\ d.levels[s][q].head = 0
          /\ d.levels[s][q].tail = 0 /\ d.levels[s][q].volume = 0
      BY <3>3 DEF EmptyLevel
    <3> QED BY <3>4, <3>5, <3>6, <3>7, LevelEmpty
  <2>20. SideInv(c, s)
    <3>1. Linked(s, S \cup {p}, NextLevel(c, s), PrevLevel(c, s)) /\ IsFirst(s, S \cup {p}, c.best[s])
      BY <2>14 DEF LinkedIn
    <3> QED BY <2>17, <2>19, <3>1 DEF SideInv
  <2> QED BY <2>18, <2>20 DEF c
<1> QED BY <1>1, <1>2

-----------------------------------------------------------------------------
(* One field of a level or of an order is set                               *)

\* Book c is b with level p of side s holding other orders.
Rewritten(b, s, p, c) ==
    /\ TypedBook(c) /\ c.orders = b.orders /\ c.best = b.best
    /\ \A t \in Sides, q \in Prices :
         /\ c.levels[t][q].exists = b.levels[t][q].exists
         /\ c.levels[t][q].next = b.levels[t][q].next
         /\ c.levels[t][q].prev = b.levels[t][q].prev
         /\ t # s \/ q # p => c.levels[t][q] = b.levels[t][q]
HeadPut(b, s, p, n, c) ==
    /\ Rewritten(b, s, p, c)
    /\ c.levels[s][p].head = n /\ c.levels[s][p].tail = b.levels[s][p].tail
    /\ c.levels[s][p].volume = b.levels[s][p].volume
TailPut(b, s, p, n, c) ==
    /\ Rewritten(b, s, p, c)
    /\ c.levels[s][p].head = b.levels[s][p].head /\ c.levels[s][p].tail = n
    /\ c.levels[s][p].volume = b.levels[s][p].volume
VolumePut(b, s, p, n, c) ==
    /\ Rewritten(b, s, p, c)
    /\ c.levels[s][p].head = b.levels[s][p].head /\ c.levels[s][p].tail = b.levels[s][p].tail
    /\ c.levels[s][p].volume = n

SameLinks(l, m) == l.exists = m.exists /\ l.next = m.next /\ l.prev = m.prev

LEMMA LevelWritten ==
    ASSUME NEW b, TypedBook(b), NEW s \in Sides, NEW p \in Prices, NEW l \in LevelSet,
           SameLinks(l, b.levels[s][p]), NEW c, Relevelled(b, s, p, l, c)
    PROVE  Rewritten(b, s, p, c)
<1>1. Relevelled(b, s, p, l, c)
  OBVIOUS
<1>2. TypedBook(c)
  BY <1>1, LevelTyped
<1>3. \A t \in Sides, q \in Prices : c.levels[t][q] = IF t = s /\ q = p THEN l ELSE b.levels[t][q]
  BY <1>1 DEF Relevelled
<1>4. c.orders = b.orders /\ c.best = b.best
  BY <1>1 DEF Relevelled
<1> QED BY <1>2, <1>3, <1>4 DEF Rewritten, SameLinks

LEMMA HeadWritten ==
    ASSUME NEW b, TypedBook(b), NEW s \in Sides, NEW p \in Prices, NEW n \in Nat, NEW c,
           c = [b EXCEPT !.levels[s][p].head = n]
    PROVE  HeadPut(b, s, p, n, c)
<1> DEFINE l == [b.levels[s][p] EXCEPT !.head = n]
<1>1. b.levels[s][p] \in LevelSet
  BY DEF TypedBook
<1>2. /\ l \in LevelSet /\ l.next = b.levels[s][p].next /\ l.prev = b.levels[s][p].prev
      /\ l.exists = b.levels[s][p].exists /\ l.head = n
      /\ l.tail = b.levels[s][p].tail /\ l.volume = b.levels[s][p].volume
  BY <1>1 DEF LevelSet
<1>3. c = [b EXCEPT !.levels[s][p] = l]
  BY DEF TypedBook
<1> HIDE DEF l
<1>4. Relevelled(b, s, p, l, c)
  BY <1>3, LevelPut
<1>5. SameLinks(l, b.levels[s][p])
  BY <1>2 DEF SameLinks
<1>6. l \in LevelSet
  BY <1>2
<1>7. Rewritten(b, s, p, c)
  BY <1>4, <1>5, <1>6, LevelWritten
<1>8. c.levels[s][p] = l
  BY <1>4 DEF Relevelled
<1> QED BY <1>2, <1>7, <1>8 DEF HeadPut

LEMMA TailWritten ==
    ASSUME NEW b, TypedBook(b), NEW s \in Sides, NEW p \in Prices, NEW n \in Nat, NEW c,
           c = [b EXCEPT !.levels[s][p].tail = n]
    PROVE  TailPut(b, s, p, n, c)
<1> DEFINE l == [b.levels[s][p] EXCEPT !.tail = n]
<1>1. b.levels[s][p] \in LevelSet
  BY DEF TypedBook
<1>2. /\ l \in LevelSet /\ l.next = b.levels[s][p].next /\ l.prev = b.levels[s][p].prev
      /\ l.exists = b.levels[s][p].exists /\ l.head = b.levels[s][p].head
      /\ l.tail = n /\ l.volume = b.levels[s][p].volume
  BY <1>1 DEF LevelSet
<1>3. c = [b EXCEPT !.levels[s][p] = l]
  BY DEF TypedBook
<1> HIDE DEF l
<1>4. Relevelled(b, s, p, l, c)
  BY <1>3, LevelPut
<1>5. SameLinks(l, b.levels[s][p])
  BY <1>2 DEF SameLinks
<1>6. l \in LevelSet
  BY <1>2
<1>7. Rewritten(b, s, p, c)
  BY <1>4, <1>5, <1>6, LevelWritten
<1>8. c.levels[s][p] = l
  BY <1>4 DEF Relevelled
<1> QED BY <1>2, <1>7, <1>8 DEF TailPut

LEMMA VolumeWritten ==
    ASSUME NEW b, TypedBook(b), NEW s \in Sides, NEW p \in Prices, NEW n \in Int, NEW c,
           c = [b EXCEPT !.levels[s][p].volume = n]
    PROVE  VolumePut(b, s, p, n, c)
<1> DEFINE l == [b.levels[s][p] EXCEPT !.volume = n]
<1>1. b.levels[s][p] \in LevelSet
  BY DEF TypedBook
<1>2. /\ l \in LevelSet /\ l.next = b.levels[s][p].next /\ l.prev = b.levels[s][p].prev
      /\ l.exists = b.levels[s][p].exists /\ l.head = b.levels[s][p].head
      /\ l.tail = b.levels[s][p].tail /\ l.volume = n
  BY <1>1 DEF LevelSet
<1>3. c = [b EXCEPT !.levels[s][p] = l]
  BY DEF TypedBook
<1> HIDE DEF l
<1>4. Relevelled(b, s, p, l, c)
  BY <1>3, LevelPut
<1>5. SameLinks(l, b.levels[s][p])
  BY <1>2 DEF SameLinks
<1>6. l \in LevelSet
  BY <1>2
<1>7. Rewritten(b, s, p, c)
  BY <1>4, <1>5, <1>6, LevelWritten
<1>8. c.levels[s][p] = l
  BY <1>4 DEF Relevelled
<1> QED BY <1>2, <1>7, <1>8 DEF VolumePut

\* Book c is b with the orders linked anew.
Reordered(b, c) ==
    /\ TypedBook(c) /\ c.levels = b.levels /\ c.best = b.best
    /\ DOMAIN c.orders = DOMAIN b.orders
    /\ \A j \in DOMAIN b.orders :
         /\ c.orders[j].side = b.orders[j].side /\ c.orders[j].investor = b.orders[j].investor
         /\ c.orders[j].price = b.orders[j].price /\ c.orders[j].amount = b.orders[j].amount
         /\ c.orders[j].revocable = b.orders[j].revocable
OrderNextPut(b, k, n, c) ==
    /\ Reordered(b, c)
    /\ \A j \in DOMAIN b.orders : /\ c.orders[j].next = IF j = k THEN n ELSE b.orders[j].next
                                  /\ c.orders[j].prev = b.orders[j].prev
OrderPrevPut(b, k, n, c) ==
    /\ Reordered(b, c)
    /\ \A j \in DOMAIN b.orders : /\ c.orders[j].prev = IF j = k THEN n ELSE b.orders[j].prev
                                  /\ c.orders[j].next = b.orders[j].next

\* Book c is b with another record for one order.
Rebooked(b, k, o, c) ==
    /\ DOMAIN c = DOMAIN b /\ c.levels = b.levels /\ c.best = b.best
    /\ c.orders = [j \in DOMAIN b.orders |-> IF j = k THEN o ELSE b.orders[j]]

LEMMA OrderPut ==
    ASSUME NEW b, TypedBook(b), NEW k \in DOMAIN b.orders, NEW o
    PROVE  Rebooked(b, k, o, [b EXCEPT !.orders[k] = o])
BY DEF TypedBook, Rebooked

LEMMA OrderTyped ==
    ASSUME NEW b, TypedBook(b), NEW k \in DOMAIN b.orders, NEW o \in OrderSet, NEW c, Rebooked(b, k, o, c)
    PROVE  TypedBook(c) /\ DOMAIN c.orders = DOMAIN b.orders
BY DEF TypedBook, Rebooked

LEMMA OrderNextWritten ==
    ASSUME NEW b, TypedBook(b), NEW k \in DOMAIN b.orders, NEW n \in Nat, NEW c,
           c = [b EXCEPT !.orders[k].next = n]
    PROVE  OrderNextPut(b, k, n, c)
<1> DEFINE o == [b.orders[k] EXCEPT !.next = n]
<1>1. b.orders[k] \in OrderSet
  BY DEF TypedBook
<1>2. /\ o \in OrderSet /\ o.next = n /\ o.prev = b.orders[k].prev /\ o.side = b.orders[k].side
      /\ o.investor = b.orders[k].investor /\ o.price = b.orders[k].price
      /\ o.amount = b.orders[k].amount /\ o.revocable = b.orders[k].revocable
  BY <1>1 DEF OrderSet
<1>3. c = [b EXCEPT !.orders[k] = o]
  BY DEF TypedBook
<1> HIDE DEF o
<1>4. Rebooked(b, k, o, c)
  BY <1>3, OrderPut
<1>5. TypedBook(c) /\ DOMAIN c.orders = DOMAIN b.orders
  BY <1>2, <1>4, OrderTyped
<1>6. c.levels = b.levels /\ c.best = b.best
      /\ \A j \in DOMAIN b.orders : c.orders[j] = IF j = k THEN o ELSE b.orders[j]
  BY <1>4 DEF Rebooked
<1>7. Reordered(b, c)
  BY <1>2, <1>5, <1>6 DEF Reordered
<1>8. \A j \in DOMAIN b.orders : /\ c.orders[j].next = IF j = k THEN n ELSE b.orders[j].next
                                 /\ c.orders[j].prev = b.orders[j].prev
  BY <1>2, <1>6
<1> QED BY <1>7, <1>8 DEF OrderNextPut

LEMMA OrderPrevWritten ==
    ASSUME NEW b, TypedBook(b), NEW k \in DOMAIN b.orders, NEW n \in Nat, NEW c,
           c = [b EXCEPT !.orders[k].prev = n]
    PROVE  OrderPrevPut(b, k, n, c)
<1> DEFINE o == [b.orders[k] EXCEPT !.prev = n]
<1>1. b.orders[k] \in OrderSet
  BY DEF TypedBook
<1>2. /\ o \in OrderSet /\ o.prev = n /\ o.next = b.orders[k].next /\ o.side = b.orders[k].side
      /\ o.investor = b.orders[k].investor /\ o.price = b.orders[k].price
      /\ o.amount = b.orders[k].amount /\ o.revocable = b.orders[k].revocable
  BY <1>1 DEF OrderSet
<1>3. c = [b EXCEPT !.orders[k] = o]
  BY DEF TypedBook
<1> HIDE DEF o
<1>4. Rebooked(b, k, o, c)
  BY <1>3, OrderPut
<1>5. TypedBook(c) /\ DOMAIN c.orders = DOMAIN b.orders
  BY <1>2, <1>4, OrderTyped
<1>6. c.levels = b.levels /\ c.best = b.best
      /\ \A j \in DOMAIN b.orders : c.orders[j] = IF j = k THEN o ELSE b.orders[j]
  BY <1>4 DEF Rebooked
<1>7. Reordered(b, c)
  BY <1>2, <1>5, <1>6 DEF Reordered
<1>8. \A j \in DOMAIN b.orders : /\ c.orders[j].prev = IF j = k THEN n ELSE b.orders[j].prev
                                 /\ c.orders[j].next = b.orders[j].next
  BY <1>2, <1>6
<1> QED BY <1>7, <1>8 DEF OrderPrevPut

-----------------------------------------------------------------------------
(* An order is appended                                                     *)

LEMMA SideSame ==
    ASSUME NEW b, NEW c, NEW s, c.levels[s] = b.levels[s], c.best[s] = b.best[s], SideInv(b, s)
    PROVE  SideInv(c, s) /\ LevelsOf(c, s) = LevelsOf(b, s)
<1>1. LevelsOf(c, s) = LevelsOf(b, s)
  BY DEF LevelsOf
<1>2. NextLevel(c, s) = NextLevel(b, s) /\ PrevLevel(c, s) = PrevLevel(b, s)
  BY DEF NextLevel, PrevLevel
<1> QED BY <1>1, <1>2 DEF SideInv

LEMMA SideRewritten ==
    ASSUME NEW b, NEW c, NEW s \in Sides, NEW p \in Prices, Rewritten(b, s, p, c), p \in LevelsOf(b, s),
           NEW t \in Sides, SideInv(b, t)
    PROVE  SideInv(c, t) /\ LevelsOf(c, t) = LevelsOf(b, t)
<1>1. \A q \in Prices : /\ c.levels[t][q].exists = b.levels[t][q].exists
                        /\ c.levels[t][q].next = b.levels[t][q].next
                        /\ c.levels[t][q].prev = b.levels[t][q].prev
                        /\ t # s \/ q # p => c.levels[t][q] = b.levels[t][q]
  BY DEF Rewritten
<1>2. LevelsOf(c, t) = LevelsOf(b, t)
  BY <1>1 DEF LevelsOf
<1>3. NextLevel(c, t) = NextLevel(b, t) /\ PrevLevel(c, t) = PrevLevel(b, t)
  BY <1>1 DEF NextLevel, PrevLevel
<1>4. ASSUME NEW q \in Prices \ LevelsOf(b, t) PROVE c.levels[t][q] = EmptyLevel
  <2>1. t # s \/ q # p
    OBVIOUS
  <2>2. c.levels[t][q] = b.levels[t][q]
    BY <1>1, <2>1
  <2> QED BY <2>2 DEF SideInv
<1>5. c.best = b.best
  BY DEF Rewritten
<1> QED BY <1>2, <1>3, <1>4, <1>5 DEF SideInv

\* Orders are the same but for their links.
SameEntry(o, u) == /\ o.side = u.side /\ o.investor = u.investor /\ o.price = u.price
                   /\ o.amount = u.amount /\ o.revocable = u.revocable

\* Book c is b with the unlinked order o stored as id.
Added(b, id, o, c) ==
    /\ TypedBook(c) /\ c.levels = b.levels /\ c.best = b.best
    /\ DOMAIN c.orders = DOMAIN b.orders \cup {id} /\ id \notin DOMAIN b.orders
    /\ \A j \in DOMAIN b.orders : c.orders[j] = b.orders[j]
    /\ c.orders[id] = o

LEMMA OrderAdded ==
    ASSUME NEW b, TypedBook(b), NEW id \in Nat \ {0}, id \notin DOMAIN b.orders, NEW o \in OrderSet, NEW c,
           c = [b EXCEPT !.orders = Stored(@, id, o)]
    PROVE  Added(b, id, o, c)
<1> DEFINE u == Stored(b.orders, id, o)
<1>1. /\ DOMAIN u = DOMAIN b.orders \cup {id}
      /\ u = [j \in DOMAIN u |-> u[j]]
      /\ \A j \in DOMAIN b.orders : u[j] = b.orders[j]
      /\ u[id] = o
  BY DEF Stored
<1>2. c = [b EXCEPT !.orders = u]
  OBVIOUS
<1> HIDE DEF u
<1>3. DOMAIN b = {"orders", "levels", "best"}
  BY DEF TypedBook
<1>4. DOMAIN c = {"orders", "levels", "best"} /\ c.orders = u /\ c.levels = b.levels /\ c.best = b.best
  BY <1>2, <1>3
<1>5. b.orders \in [DOMAIN b.orders -> OrderSet] /\ DOMAIN b.orders \subseteq Nat \ {0}
  BY DEF TypedBook
<1>6. \A j \in DOMAIN u : u[j] \in OrderSet
  BY <1>1, <1>5
<1>7. u \in [DOMAIN u -> OrderSet] /\ DOMAIN u \subseteq Nat \ {0}
  BY <1>1, <1>5, <1>6
<1>8. TypedBook(c)
  BY <1>4, <1>7 DEF TypedBook
<1> QED BY <1>1, <1>4, <1>8 DEF Added

\* Book c is b with order o, stored as id, at the tail of its level.
RestedLevels(b, id, o, c) ==
    /\ TypedBook(c)
    /\ \A t \in Sides : SideInv(c, t)
    /\ LevelsOf(c, o.side) = LevelsOf(b, o.side) \cup {o.price}
    /\ \A t \in Sides \ {o.side} : LevelsOf(c, t) = LevelsOf(b, t)
    /\ \A t \in Sides, q \in Prices : t # o.side \/ q # o.price =>
         /\ c.levels[t][q].head = b.levels[t][q].head
         /\ c.levels[t][q].tail = b.levels[t][q].tail
         /\ c.levels[t][q].volume = b.levels[t][q].volume
    /\ c.levels[o.side][o.price].tail = id
    /\ c.levels[o.side][o.price].head = IF b.levels[o.side][o.price].tail = 0 THEN id
                                        ELSE b.levels[o.side][o.price].head
    /\ c.levels[o.side][o.price].volume = b.levels[o.side][o.price].volume + o.amount
RestedOrders(b, id, o, c) ==
    /\ DOMAIN c.orders = DOMAIN b.orders \cup {id}
    /\ \A j \in DOMAIN b.orders :
         /\ SameEntry(c.orders[j], b.orders[j])
         /\ c.orders[j].next = IF j = b.levels[o.side][o.price].tail THEN id ELSE b.orders[j].next
         /\ c.orders[j].prev = b.orders[j].prev
    /\ SameEntry(c.orders[id], o)
    /\ c.orders[id].next = 0 /\ c.orders[id].prev = b.levels[o.side][o.price].tail

\* The order o may be stored as id.
Storable(b, id, o) ==
    /\ BookInv(b) /\ id \in Nat \ {0} /\ (\A j \in DOMAIN b.orders : j < id)
    /\ o \in OrderSet /\ o.next = 0 /\ o.prev = 0

\* The level of the order has been made, and the order is its tail but for the links
\* between the order and the tail of old.
Placed(b, id, o, c) ==
    /\ TypedBook(c)
    /\ \A t \in Sides : SideInv(c, t)
    /\ LevelsOf(c, o.side) = LevelsOf(b, o.side) \cup {o.price}
    /\ \A t \in Sides \ {o.side} : LevelsOf(c, t) = LevelsOf(b, t)
    /\ \A t \in Sides, q \in Prices : t # o.side \/ q # o.price =>
         /\ c.levels[t][q].head = b.levels[t][q].head
         /\ c.levels[t][q].tail = b.levels[t][q].tail
         /\ c.levels[t][q].volume = b.levels[t][q].volume
    /\ c.levels[o.side][o.price].tail = id
    /\ c.levels[o.side][o.price].head = b.levels[o.side][o.price].head
    /\ c.levels[o.side][o.price].volume = b.levels[o.side][o.price].volume + o.amount
    /\ DOMAIN c.orders = DOMAIN b.orders \cup {id} /\ id \notin DOMAIN b.orders
    /\ \A j \in DOMAIN b.orders : c.orders[j] = b.orders[j]
    /\ c.orders[id] = o

Made(b, id, o, made) == made = EnsureLevel([b EXCEPT !.orders = Stored(@, id, o)], o.side, o.price)
PlacedIn(made, id, o, c) == c = [made EXCEPT !.levels[o.side][o.price].tail = id,
                                             !.levels[o.side][o.price].volume = @ + o.amount]

LEMMA OrderPlaced ==
    ASSUME NEW b, NEW id, NEW o, Storable(b, id, o), NEW made, NEW c,
           Made(b, id, o, made), PlacedIn(made, id, o, c)
    PROVE  Placed(b, id, o, c) /\ made.levels[o.side][o.price].tail = b.levels[o.side][o.price].tail
<1> DEFINE s == o.side
           p == o.price
           b1 == [b EXCEPT !.orders = Stored(@, id, o)]
           m1 == [made EXCEPT !.levels[s][p].tail = id]
           v == made.levels[s][p].volume + o.amount
           m2 == [m1 EXCEPT !.levels[s][p].volume = v]
<1>1. c = m2
  BY DEF PlacedIn
<1>2. made = EnsureLevel(b1, s, p)
  BY DEF Made
<1>3. s \in Sides /\ p \in Prices /\ o.amount \in Nat /\ id \in Nat \ {0} /\ id \notin DOMAIN b.orders /\ o \in OrderSet
  BY DEF Storable, OrderSet, BookInv, TypedBook
<1>4. TypedBook(b) /\ \A t \in Sides : SideInv(b, t)
  BY DEF Storable, BookInv
<1>5. Added(b, id, o, b1)
  BY <1>3, <1>4, OrderAdded
<1> HIDE DEF b1, m2
<1>6. m2 = [m1 EXCEPT !.levels[s][p].volume = v]
  BY DEF m2
<1>7. m1 = [made EXCEPT !.levels[s][p].tail = id]
  OBVIOUS
<1> HIDE DEF m1, s, p
<1>8. \A t \in Sides : SideInv(b1, t) /\ LevelsOf(b1, t) = LevelsOf(b, t)
  BY <1>4, <1>5, SideSame DEF Added
<1>9. TypedBook(b1) /\ b1.levels = b.levels /\ b1.best = b.best
  BY <1>5 DEF Added
<1>10. Ensured(b1, s, p, made) /\ SideInv(made, s)
  BY <1>2, <1>3, <1>8, <1>9, LevelEnsured
<1>11. TypedBook(made)
  BY <1>10 DEF Ensured
<1>12. \A t \in Sides : SideInv(made, t) /\ (t # s => LevelsOf(made, t) = LevelsOf(b, t))
  <2> SUFFICES ASSUME NEW t \in Sides, t # s PROVE SideInv(made, t) /\ LevelsOf(made, t) = LevelsOf(b, t)
    BY <1>10
  <2>1. made.levels[t] = b1.levels[t] /\ made.best[t] = b1.best[t]
    BY <1>10 DEF Ensured
  <2> QED BY <1>8, <2>1, SideSame
<1>13. LevelsOf(made, s) = LevelsOf(b, s) \cup {p}
  BY <1>3, <1>8, <1>10 DEF Ensured
<1>14. TailPut(made, s, p, id, m1)
  BY <1>3, <1>7, <1>11, TailWritten
<1>15. Rewritten(made, s, p, m1) /\ TypedBook(m1)
  BY <1>14 DEF TailPut, Rewritten
<1>16. v \in Int
  <2>1. made.levels[s][p] \in LevelSet
    BY <1>3, <1>11 DEF TypedBook
  <2>2. made.levels[s][p].volume \in Int
    BY <2>1 DEF LevelSet
  <2> QED BY <1>3, <2>2
<1> HIDE DEF v
<1>17. VolumePut(m1, s, p, v, m2)
  BY <1>3, <1>6, <1>15, <1>16, VolumeWritten
<1>18. Rewritten(m1, s, p, m2) /\ TypedBook(m2)
  BY <1>17 DEF VolumePut, Rewritten
<1>19. \A t \in Sides : SideInv(m2, t) /\ LevelsOf(m2, t) = LevelsOf(made, t)
  BY <1>3, <1>12, <1>13, <1>15, <1>18, SideRewritten
<1>20. m2.orders = b1.orders
  BY <1>10, <1>15, <1>18 DEF Ensured, Rewritten
<1>21. ASSUME NEW t \in Sides, NEW q \in Prices
       PROVE  /\ made.levels[t][q].head = b.levels[t][q].head
              /\ made.levels[t][q].tail = b.levels[t][q].tail
              /\ made.levels[t][q].volume = b.levels[t][q].volume
  BY <1>9, <1>10, <1>21 DEF Ensured
<1>22. ASSUME NEW t \in Sides, NEW q \in Prices, t # s \/ q # p
       PROVE  m2.levels[t][q] = made.levels[t][q]
  <2>1. m1.levels[t][q] = made.levels[t][q]
    BY <1>15, <1>22 DEF Rewritten
  <2>2. m2.levels[t][q] = m1.levels[t][q]
    BY <1>18, <1>22 DEF Rewritten
  <2> QED BY <2>1, <2>2
<1>23. /\ m2.levels[s][p].tail = id
       /\ m2.levels[s][p].head = made.levels[s][p].head
       /\ m2.levels[s][p].volume = made.levels[s][p].volume + o.amount
  BY <1>14, <1>17 DEF TailPut, VolumePut, v
<1>24. /\ m2.levels[s][p].head = b.levels[s][p].head
       /\ m2.levels[s][p].volume = b.levels[s][p].volume + o.amount
       /\ made.levels[s][p].tail = b.levels[s][p].tail
  BY <1>3, <1>21, <1>23
<1>25. \A t \in Sides, q \in Prices : t # s \/ q # p =>
         /\ m2.levels[t][q].head = b.levels[t][q].head
         /\ m2.levels[t][q].tail = b.levels[t][q].tail
         /\ m2.levels[t][q].volume = b.levels[t][q].volume
  <2> SUFFICES ASSUME NEW t \in Sides, NEW q \in Prices, t # s \/ q # p
               PROVE  /\ m2.levels[t][q].head = b.levels[t][q].head
                      /\ m2.levels[t][q].tail = b.levels[t][q].tail
                      /\ m2.levels[t][q].volume = b.levels[t][q].volume
    OBVIOUS
  <2>1. m2.levels[t][q] = made.levels[t][q]
    BY <1>22
  <2> QED BY <1>21, <2>1
<1>26. /\ DOMAIN m2.orders = DOMAIN b.orders \cup {id} /\ id \notin DOMAIN b.orders
       /\ \A j \in DOMAIN b.orders : m2.orders[j] = b.orders[j]
       /\ m2.orders[id] = o
  BY <1>5, <1>20 DEF Added
<1>27. /\ LevelsOf(m2, s) = LevelsOf(b, s) \cup {p}
       /\ \A t \in Sides \ {s} : LevelsOf(m2, t) = LevelsOf(b, t)
  BY <1>3, <1>12, <1>13, <1>19
<1>28. Placed(b, id, o, m2)
  BY <1>18, <1>19, <1>23, <1>24, <1>25, <1>26, <1>27, Zenon DEF Placed, s, p
<1> QED BY <1>1, <1>24, <1>28 DEF s, p

LEMMA OrderRested ==
    ASSUME NEW b, NEW id, NEW o, Storable(b, id, o)
    PROVE  RestedLevels(b, id, o, RestOrder(b, id, o)) /\ RestedOrders(b, id, o, RestOrder(b, id, o))
<1> DEFINE s == o.side
           p == o.price
           made == EnsureLevel([b EXCEPT !.orders = Stored(@, id, o)], s, p)
           tail == made.levels[s][p].tail
           m == [made EXCEPT !.levels[s][p].tail = id, !.levels[s][p].volume = @ + o.amount]
           m1 == [m EXCEPT !.orders[tail].next = id]
           c == RestOrder(b, id, o)
<1>1. c = IF tail = 0 THEN [m EXCEPT !.levels[s][p].head = id]
          ELSE [m EXCEPT !.orders[tail].next = id, !.orders[id].prev = tail]
  BY DEF RestOrder
<1>2. [m EXCEPT !.orders[tail].next = id, !.orders[id].prev = tail] = [m1 EXCEPT !.orders[id].prev = tail]
  <2> HIDE DEF m, tail
  <2> QED OBVIOUS
<1>3. m1 = [m EXCEPT !.orders[tail].next = id]
  OBVIOUS
<1> HIDE DEF m1, c
<1>4. PlacedIn(made, id, o, m) /\ Made(b, id, o, made)
  BY DEF PlacedIn, Made
<1> HIDE DEF m
<1>5. Placed(b, id, o, m) /\ tail = b.levels[s][p].tail
  <2> HIDE DEF made
  <2> QED BY <1>4, OrderPlaced
<1> HIDE DEF made, tail
<1>6. s \in Sides /\ p \in Prices /\ id \in Nat \ {0} /\ o \in OrderSet /\ o.next = 0 /\ o.prev = 0
  BY DEF Storable, OrderSet
<1> HIDE DEF s, p
<1>7. /\ TypedBook(m)
      /\ \A t \in Sides : SideInv(m, t)
      /\ LevelsOf(m, s) = LevelsOf(b, s) \cup {p}
      /\ \A t \in Sides \ {s} : LevelsOf(m, t) = LevelsOf(b, t)
      /\ \A t \in Sides, q \in Prices : t # s \/ q # p =>
           /\ m.levels[t][q].head = b.levels[t][q].head
           /\ m.levels[t][q].tail = b.levels[t][q].tail
           /\ m.levels[t][q].volume = b.levels[t][q].volume
      /\ m.levels[s][p].tail = id
      /\ m.levels[s][p].head = b.levels[s][p].head
      /\ m.levels[s][p].volume = b.levels[s][p].volume + o.amount
  BY <1>5 DEF Placed, s, p
<1>8. /\ DOMAIN m.orders = DOMAIN b.orders \cup {id} /\ id \notin DOMAIN b.orders
      /\ \A j \in DOMAIN b.orders : m.orders[j] = b.orders[j]
      /\ m.orders[id] = o
  BY <1>5 DEF Placed
<1>9. 0 \notin DOMAIN b.orders
  BY DEF Storable, BookInv, TypedBook
<1>10. CASE tail = 0
  <2>1. c = [m EXCEPT !.levels[s][p].head = id]
    BY <1>1, <1>10
  <2>2. HeadPut(m, s, p, id, c)
    BY <1>6, <1>7, <2>1, HeadWritten
  <2>3. Rewritten(m, s, p, c)
    BY <2>2 DEF HeadPut
  <2>4. \A t \in Sides : SideInv(c, t) /\ LevelsOf(c, t) = LevelsOf(m, t)
    BY <1>6, <1>7, <2>3, SideRewritten
  <2>5. TypedBook(c) /\ c.orders = m.orders
    BY <2>3 DEF Rewritten
  <2>6. \A t \in Sides, q \in Prices : t # s \/ q # p => c.levels[t][q] = m.levels[t][q]
    BY <2>3 DEF Rewritten
  <2>7. c.levels[s][p].head = id /\ c.levels[s][p].tail = id /\ c.levels[s][p].volume = m.levels[s][p].volume
    BY <1>7, <2>2 DEF HeadPut
  <2>8. \A t \in Sides, q \in Prices : t # s \/ q # p =>
           /\ c.levels[t][q].head = b.levels[t][q].head
           /\ c.levels[t][q].tail = b.levels[t][q].tail
           /\ c.levels[t][q].volume = b.levels[t][q].volume
    BY <1>7, <2>6
  <2>9. /\ LevelsOf(c, s) = LevelsOf(b, s) \cup {p}
        /\ \A t \in Sides \ {s} : LevelsOf(c, t) = LevelsOf(b, t)
    BY <1>6, <1>7, <2>4
  <2>10. c.levels[s][p].head = IF b.levels[s][p].tail = 0 THEN id ELSE b.levels[s][p].head
    BY <1>5, <1>10, <2>7
  <2>11. c.levels[s][p].volume = b.levels[s][p].volume + o.amount
    BY <1>7, <2>7
  <2>12. RestedLevels(b, id, o, c)
    BY <2>4, <2>5, <2>7, <2>8, <2>9, <2>10, <2>11, Zenon DEF RestedLevels, s, p
  <2>13. ASSUME NEW j \in DOMAIN b.orders
         PROVE  /\ SameEntry(c.orders[j], b.orders[j])
                /\ c.orders[j].next = IF j = tail THEN id ELSE b.orders[j].next
                /\ c.orders[j].prev = b.orders[j].prev
    <3>1. c.orders[j] = b.orders[j] /\ j # tail
      BY <1>8, <1>9, <1>10, <2>5
    <3> QED BY <3>1 DEF SameEntry
  <2>14. SameEntry(c.orders[id], o) /\ c.orders[id].next = 0 /\ c.orders[id].prev = tail
    BY <1>6, <1>8, <1>10, <2>5 DEF SameEntry
  <2>15. RestedOrders(b, id, o, c)
    BY <1>5, <1>8, <2>5, <2>13, <2>14 DEF RestedOrders, s, p
  <2> QED BY <2>12, <2>15 DEF c
<1>11. CASE tail # 0
  <2>1. tail \in DOMAIN b.orders
    <3>1. IsFirst("buy", OrdersAt(b, s, p), tail)
      BY <1>5, <1>6 DEF Storable, BookInv, PlaceInv
    <3> QED BY <1>11, <3>1 DEF IsFirst, OrdersAt
  <2>2. tail \in Nat /\ tail \in DOMAIN m.orders /\ id \in DOMAIN m.orders /\ id \in Nat
    BY <1>6, <1>8, <2>1 DEF Storable, BookInv, TypedBook
  <2>3. c = [m1 EXCEPT !.orders[id].prev = tail]
    BY <1>1, <1>2, <1>11
  <2>4. OrderNextPut(m, tail, id, m1)
    BY <1>3, <1>7, <2>2, OrderNextWritten
  <2>5. Reordered(m, m1) /\ TypedBook(m1) /\ id \in DOMAIN m1.orders
    BY <2>2, <2>4 DEF OrderNextPut, Reordered
  <2>6. OrderPrevPut(m1, id, tail, c)
    BY <2>2, <2>3, <2>5, OrderPrevWritten
  <2>7. Reordered(m1, c) /\ TypedBook(c)
    BY <2>6 DEF OrderPrevPut, Reordered
  <2>8. c.levels = m.levels /\ c.best = m.best /\ DOMAIN c.orders = DOMAIN m.orders
    BY <2>5, <2>7 DEF Reordered
  <2>9. \A t \in Sides : SideInv(c, t) /\ LevelsOf(c, t) = LevelsOf(m, t)
    BY <1>7, <2>8, SideSame
  <2>10. /\ LevelsOf(c, s) = LevelsOf(b, s) \cup {p}
         /\ \A t \in Sides \ {s} : LevelsOf(c, t) = LevelsOf(b, t)
    BY <1>6, <1>7, <2>9
  <2>11. c.levels[s][p].head = IF b.levels[s][p].tail = 0 THEN id ELSE b.levels[s][p].head
    BY <1>5, <1>7, <1>11, <2>8
  <2>12. RestedLevels(b, id, o, c)
    BY <1>7, <2>7, <2>8, <2>9, <2>10, <2>11 DEF RestedLevels, s, p
  <2>13. ASSUME NEW j \in DOMAIN m.orders
         PROVE  /\ SameEntry(c.orders[j], m.orders[j])
                /\ c.orders[j].next = IF j = tail THEN id ELSE m.orders[j].next
                /\ c.orders[j].prev = IF j = id THEN tail ELSE m.orders[j].prev
    <3>1. j \in DOMAIN m1.orders
      BY <2>5 DEF Reordered
    <3>2. SameEntry(m1.orders[j], m.orders[j]) /\ SameEntry(c.orders[j], m1.orders[j])
      BY <2>5, <2>7, <3>1 DEF Reordered, SameEntry
    <3>3. /\ m1.orders[j].next = IF j = tail THEN id ELSE m.orders[j].next
          /\ m1.orders[j].prev = m.orders[j].prev
      BY <2>4 DEF OrderNextPut
    <3>4. /\ c.orders[j].prev = IF j = id THEN tail ELSE m1.orders[j].prev
          /\ c.orders[j].next = m1.orders[j].next
      BY <2>6, <3>1 DEF OrderPrevPut
    <3>5. SameEntry(c.orders[j], m.orders[j])
      BY <3>2 DEF SameEntry
    <3> QED BY <3>3, <3>4, <3>5
  <2>14. ASSUME NEW j \in DOMAIN b.orders
         PROVE  /\ SameEntry(c.orders[j], b.orders[j])
                /\ c.orders[j].next = IF j = tail THEN id ELSE b.orders[j].next
                /\ c.orders[j].prev = b.orders[j].prev
    <3>1. j # id /\ j \in DOMAIN m.orders /\ m.orders[j] = b.orders[j]
      BY <1>8
    <3> QED BY <2>13, <3>1
  <2>15. SameEntry(c.orders[id], o) /\ c.orders[id].next = 0 /\ c.orders[id].prev = tail
    <3>1. id # tail
      BY <1>8, <2>1
    <3> QED BY <1>6, <1>8, <2>2, <2>13, <3>1
  <2>16. RestedOrders(b, id, o, c)
    BY <1>5, <1>8, <2>8, <2>14, <2>15 DEF RestedOrders, s, p
  <2> QED BY <2>12, <2>16 DEF c
<1> QED BY <1>10, <1>11

\* The orders that a place holds, and their links, are the same in book c.
SamePlace(b, c, s, p) ==
    /\ OrdersAt(c, s, p) = OrdersAt(b, s, p)
    /\ \A j \in OrdersAt(b, s, p) : /\ NextOrder(c)[j] = NextOrder(b)[j]
                                    /\ PrevOrder(c)[j] = PrevOrder(b)[j]
    /\ c.levels[s][p].head = b.levels[s][p].head /\ c.levels[s][p].tail = b.levels[s][p].tail

LEMMA PlaceSame ==
    ASSUME NEW b, NEW c, NEW s, NEW p, PlaceInv(b, s, p), SamePlace(b, c, s, p)
    PROVE  PlaceInv(c, s, p)
<1>1. Linked("sell", OrdersAt(b, s, p), NextOrder(b), PrevOrder(b))
  BY DEF PlaceInv
<1>2. Linked("sell", OrdersAt(b, s, p), NextOrder(c), PrevOrder(c))
  BY <1>1, LinkedSame DEF SamePlace
<1> QED BY <1>2 DEF PlaceInv, SamePlace

LEMMA LinkOfOrder ==
    ASSUME NEW b, NEW j \in DOMAIN b.orders
    PROVE  NextOrder(b)[j] = b.orders[j].next /\ PrevOrder(b)[j] = b.orders[j].prev
BY DEF NextOrder, PrevOrder

LEMMA IdsAreNumbers ==
    ASSUME NEW b, TypedBook(b), NEW s, NEW p
    PROVE  OrdersAt(b, s, p) \subseteq Nat \ {0} /\ OrdersAt(b, s, p) \subseteq DOMAIN b.orders
BY DEF TypedBook, OrdersAt

LEMMA BookRested ==
    ASSUME NEW b, NEW id, NEW o, Storable(b, id, o)
    PROVE  BookInv(RestOrder(b, id, o))
<1> DEFINE c == RestOrder(b, id, o)
           s == o.side
           p == o.price
           S == OrdersAt(b, s, p)
           tail == b.levels[s][p].tail
           head == b.levels[s][p].head
<1>1. RestedLevels(b, id, o, c) /\ RestedOrders(b, id, o, c)
  BY OrderRested
<1> HIDE DEF c
<1>2. /\ s \in Sides /\ p \in Prices /\ id \in Nat \ {0} /\ id \notin DOMAIN b.orders /\ TypedBook(b)
      /\ \A j \in DOMAIN b.orders : j < id
  BY DEF Storable, OrderSet, BookInv, TypedBook
<1>3. PlaceInv(b, s, p)
  BY <1>2 DEF Storable, BookInv
<1>4. S \subseteq Nat \ {0} /\ S \subseteq DOMAIN b.orders /\ id \notin S
  BY <1>2, IdsAreNumbers
<1> HIDE DEF s, p
<1>5. /\ TypedBook(c)
      /\ \A t \in Sides : SideInv(c, t)
      /\ LevelsOf(c, s) = LevelsOf(b, s) \cup {p}
      /\ \A t \in Sides \ {s} : LevelsOf(c, t) = LevelsOf(b, t)
      /\ \A t \in Sides, q \in Prices : t # s \/ q # p =>
           /\ c.levels[t][q].head = b.levels[t][q].head
           /\ c.levels[t][q].tail = b.levels[t][q].tail
      /\ c.levels[s][p].tail = id
      /\ c.levels[s][p].head = IF tail = 0 THEN id ELSE head
  BY <1>1 DEF RestedLevels, s, p
<1>6. DOMAIN c.orders = DOMAIN b.orders \cup {id}
  BY <1>1 DEF RestedOrders
<1>7. ASSUME NEW j \in DOMAIN b.orders
      PROVE  /\ c.orders[j].side = b.orders[j].side /\ c.orders[j].price = b.orders[j].price
             /\ NextOrder(c)[j] = IF j = tail THEN id ELSE NextOrder(b)[j]
             /\ PrevOrder(c)[j] = PrevOrder(b)[j]
  <2>1. j \in DOMAIN c.orders
    BY <1>6
  <2>2. /\ SameEntry(c.orders[j], b.orders[j])
        /\ c.orders[j].next = IF j = tail THEN id ELSE b.orders[j].next
        /\ c.orders[j].prev = b.orders[j].prev
    BY <1>1 DEF RestedOrders, s, p
  <2> QED BY <2>1, <2>2, LinkOfOrder DEF SameEntry
<1>8. c.orders[id].side = s /\ c.orders[id].price = p /\ NextOrder(c)[id] = 0 /\ PrevOrder(c)[id] = tail
  <2>1. id \in DOMAIN c.orders
    BY <1>6
  <2>2. SameEntry(c.orders[id], o) /\ c.orders[id].next = 0 /\ c.orders[id].prev = tail
    BY <1>1 DEF RestedOrders, s, p
  <2> QED BY <2>1, <2>2, LinkOfOrder DEF SameEntry, s, p
<1>9. ASSUME NEW t \in Sides, NEW q \in Prices
      PROVE  /\ t = s /\ q = p => OrdersAt(c, t, q) = OrdersAt(b, t, q) \cup {id}
             /\ t # s \/ q # p => OrdersAt(c, t, q) = OrdersAt(b, t, q)
  BY <1>6, <1>7, <1>8 DEF OrdersAt
<1>10. (tail = 0 /\ S = {}) \/ tail \in S
  BY <1>3 DEF PlaceInv, IsFirst
<1>11. ASSUME NEW t \in Sides, NEW q \in Prices, t # s \/ q # p
       PROVE  PlaceInv(c, t, q)
  <2>1. PlaceInv(b, t, q)
    BY DEF Storable, BookInv
  <2>2. OrdersAt(c, t, q) = OrdersAt(b, t, q)
    BY <1>9, <1>11
  <2>3. ASSUME NEW j \in OrdersAt(b, t, q)
        PROVE  NextOrder(c)[j] = NextOrder(b)[j] /\ PrevOrder(c)[j] = PrevOrder(b)[j]
    <3>1. j \in DOMAIN b.orders /\ j # 0
      BY <1>2, IdsAreNumbers
    <3>2. j # tail
      BY <1>10, <1>11, <3>1 DEF OrdersAt
    <3> QED BY <1>7, <3>1, <3>2
  <2> QED BY <1>5, <1>11, <2>1, <2>2, <2>3, PlaceSame DEF SamePlace
<1>12. PlaceInv(c, s, p)
  <2> DEFINE f == NextOrder(b)
             g == PrevOrder(b)
             u == NextOrder(c)
             v == PrevOrder(c)
  <2>1. OrdersAt(c, s, p) = S \cup {id}
    BY <1>2, <1>9
  <2>2. Linked("sell", S, f, g) /\ IsFirst("sell", S, head) /\ IsFirst("buy", S, tail)
    BY <1>3 DEF PlaceInv
  <2>3. /\ \A j \in S : u[j] = (IF j = tail THEN id ELSE f[j]) /\ v[j] = g[j]
        /\ u[id] = 0 /\ v[id] = tail
    BY <1>4, <1>7, <1>8
  <2> HIDE DEF f, g, u, v, S, tail, head
  <2>4. PutFirst(S, id, tail, g, f, v, u)
    BY <1>4, <2>3 DEF PutFirst
  <2>5. \A j \in S : Better("buy", id, j) /\ Better("sell", j, id)
    BY <1>2, <1>4 DEF Better
  <2>6. "buy" \in Sides /\ "sell" \in Sides /\ Opposite("buy") = "sell" /\ Opposite("sell") = "buy"
    BY DEF Sides, Opposite
  <2>7. Linked("buy", S, g, f)
    BY <2>2, <2>6, Backwards
  <2>8. Linked("buy", S \cup {id}, v, u) /\ IsFirst("buy", S \cup {id}, id)
    <3>1. tail = 0 \/ Better("buy", id, tail)
      BY <1>10, <2>5
    <3> QED BY <1>2, <1>4, <2>2, <2>4, <2>6, <2>7, <3>1, LinkedWithFirst
  <2>9. Linked("sell", S \cup {id}, u, v)
    BY <2>6, <2>8, Backwards
  <2>10. IsFirst("sell", S \cup {id}, IF tail = 0 THEN id ELSE head)
    <3>1. CASE tail = 0
      <4>1. S = {} /\ ~Better("sell", id, id)
        BY <1>2, <1>4, <1>10, <3>1, Order, <2>6
      <4> QED BY <3>1, <4>1 DEF IsFirst
    <3>2. CASE tail # 0
      <4>1. head \in S /\ head # 0
        BY <1>4, <1>10, <2>2, <3>2 DEF IsFirst
      <4>2. IsFirst("sell", S \cup {id}, head)
        BY <1>2, <1>4, <2>2, <2>5, <2>6, <4>1, FirstWith
      <4> QED BY <3>2, <4>2
    <3> QED BY <3>1, <3>2
  <2>11. c.levels[s][p].head = IF tail = 0 THEN id ELSE head
    BY <1>5
  <2> QED BY <1>5, <2>1, <2>8, <2>9, <2>10, <2>11 DEF PlaceInv, u, v
<1>13. ASSUME NEW t \in Sides, NEW q \in Prices PROVE q \in LevelsOf(c, t) <=> OrdersAt(c, t, q) # {}
  <2>1. q \in LevelsOf(b, t) <=> OrdersAt(b, t, q) # {}
    BY DEF Storable, BookInv
  <2>2. CASE t = s /\ q = p
    BY <1>5, <1>9, <2>2, Zenon
  <2>3. CASE ~(t = s /\ q = p)
    <3>1. OrdersAt(c, t, q) = OrdersAt(b, t, q)
      BY <1>9, <2>3
    <3>2. q \in LevelsOf(c, t) <=> q \in LevelsOf(b, t)
      BY <1>5, <2>3
    <3> QED BY <2>1, <3>1, <3>2
  <2> QED BY <2>2, <2>3
<1> QED BY <1>5, <1>11, <1>12, <1>13 DEF BookInv, c

-----------------------------------------------------------------------------
(* A level is removed                                                       *)

\* Book c is b without level p of side s.
Emptied(b, s, p, c) ==
    /\ TypedBook(c) /\ c.orders = b.orders
    /\ \A t \in Sides \ {s} : c.levels[t] = b.levels[t] /\ c.best[t] = b.best[t]
    /\ LevelsOf(c, s) = LevelsOf(b, s) \ {p}
    /\ \A q \in Prices \ {p} : /\ c.levels[s][q].head = b.levels[s][q].head
                               /\ c.levels[s][q].tail = b.levels[s][q].tail
                               /\ c.levels[s][q].volume = b.levels[s][q].volume
    /\ c.levels[s][p] = EmptyLevel

LEMMA LevelRemoved ==
    ASSUME NEW b, TypedBook(b), NEW s \in Sides, NEW p \in Prices, SideInv(b, s), p \in LevelsOf(b, s)
    PROVE  Emptied(b, s, p, RemoveLevel(b, s, p)) /\ SideInv(RemoveLevel(b, s, p), s)
<1> DEFINE S == LevelsOf(b, s)
           before == b.levels[s][p].prev
           after == b.levels[s][p].next
           gone == [b EXCEPT !.levels[s][p] = EmptyLevel]
           front == IF before = 0 THEN [gone EXCEPT !.best[s] = after]
                                  ELSE [gone EXCEPT !.levels[s][before].next = after]
           c == RemoveLevel(b, s, p)
<1>1. c = IF after = 0 THEN front ELSE [front EXCEPT !.levels[s][after].prev = before]
  BY Zenon DEF RemoveLevel
<1> HIDE DEF c
<1>2. front = IF before = 0 THEN [gone EXCEPT !.best[s] = after]
                            ELSE [gone EXCEPT !.levels[s][before].next = after]
  OBVIOUS
<1> HIDE DEF front
<1>3. Relevelled(b, s, p, EmptyLevel, gone)
  BY LevelPut
<1> HIDE DEF gone
<1>4. EmptyLevel \in LevelSet /\ EmptyLevel.next = 0 /\ EmptyLevel.prev = 0 /\ EmptyLevel.exists = FALSE
  BY DEF EmptyLevel, LevelSet
<1>5. TypedBook(gone)
  BY <1>3, <1>4, LevelTyped
<1>6. gone.orders = b.orders /\ gone.best = b.best
  BY <1>3 DEF Relevelled
<1>7. \A q \in Prices : gone.levels[s][q] = IF q = p THEN EmptyLevel ELSE b.levels[s][q]
  BY <1>3 DEF Relevelled
<1>8. \A t \in Sides \ {s} : gone.levels[t] = b.levels[t] /\ gone.best[t] = b.best[t]
  BY <1>3 DEF TypedBook, Relevelled
<1>9. S \subseteq Nat \ {0} /\ S \subseteq Prices /\ p \in S
  BY PricesAreNumbers DEF LevelsOf
<1>10. Linked(s, S, NextLevel(b, s), PrevLevel(b, s)) /\ IsFirst(s, S, b.best[s])
       /\ \A q \in Prices \ S : b.levels[s][q] = EmptyLevel
  BY DEF SideInv
<1>11. NextLevel(b, s)[p] = after /\ PrevLevel(b, s)[p] = before
  BY LinkOfLevel
<1>12. (after = 0 \/ (after \in S /\ after # p)) /\ (before = 0 \/ (before \in S /\ before # p))
  <2>1. IsNext(s, S, p, after) /\ IsNext(Opposite(s), S, p, before)
    BY <1>9, <1>10, <1>11 DEF Linked
  <2>2. after \in S => after # p
    <3>1. after \in S /\ after = p => FALSE
      <4> SUFFICES ASSUME after \in S, after = p PROVE FALSE
        OBVIOUS
      <4>1. after # 0 /\ Better(s, p, after)
        BY <1>9, <2>1 DEF IsNext
      <4> QED BY <1>9, <4>1, Order
    <3> QED BY <3>1
  <2>3. before \in S => before # p
    <3> SUFFICES ASSUME before \in S, before = p PROVE FALSE
      OBVIOUS
    <3>1. before # 0 /\ Better(Opposite(s), p, before)
      BY <1>9, <2>1 DEF IsNext
    <3> QED BY <1>9, <3>1, Order
  <2> QED BY <2>1, <2>2, <2>3 DEF IsNext
<1> HIDE DEF after, before, S
<1>13. after \in Nat /\ before \in Nat /\ 0 \notin Prices
  <2>1. after \in Nat /\ before \in Nat
    <3>1. \A x \in S : x \in Nat
      BY <1>9
    <3>2. 0 \in Nat
      OBVIOUS
    <3> QED BY <1>12, <3>1, <3>2, Zenon
  <2>2. 0 \notin Prices
    BY PricesAreNumbers
  <2> QED BY <2>1, <2>2
<1>14. /\ Relinked(gone, s, front)
       /\ front.best[s] = IF before = 0 THEN after ELSE b.best[s]
       /\ \A q \in Prices : /\ front.levels[s][q].next = IF q = before THEN after ELSE gone.levels[s][q].next
                            /\ front.levels[s][q].prev = gone.levels[s][q].prev
  <2>1. CASE before = 0
    <3>1. front = [gone EXCEPT !.best[s] = after]
      BY <1>2, <2>1
    <3>2. FirstPut(gone, s, after, front)
      BY <1>5, <1>13, <3>1, FirstLinked
    <3>3. \A q \in Prices : q # before
      BY <1>13, <2>1
    <3> QED BY <2>1, <3>2, <3>3 DEF FirstPut
  <2>2. CASE before # 0
    <3>1. front = [gone EXCEPT !.levels[s][before].next = after] /\ before \in Prices
      BY <1>2, <1>9, <1>12, <2>2
    <3>2. NextPut(gone, s, before, after, front)
      BY <1>5, <1>13, <3>1, NextLinked
    <3>3. front.best[s] = b.best[s]
      BY <1>6, <3>2 DEF NextPut
    <3> QED BY <2>2, <3>2, <3>3 DEF NextPut
  <2> QED BY <2>1, <2>2
<1>15. TypedBook(front)
  BY <1>14 DEF Relinked
<1>16. /\ Relinked(gone, s, c)
       /\ c.best[s] = IF before = 0 THEN after ELSE b.best[s]
       /\ \A q \in Prices : /\ c.levels[s][q].next = front.levels[s][q].next
                            /\ c.levels[s][q].prev = IF q = after THEN before ELSE front.levels[s][q].prev
  <2>1. CASE after = 0
    <3>1. c = front
      BY <1>1, <2>1
    <3>2. \A q \in Prices : q # after
      BY <1>13, <2>1
    <3> QED BY <1>14, <3>1, <3>2
  <2>2. CASE after # 0
    <3>1. c = [front EXCEPT !.levels[s][after].prev = before] /\ after \in Prices
      BY <1>1, <1>9, <1>12, <2>2
    <3>2. PrevPut(front, s, after, before, c)
      BY <1>13, <1>15, <3>1, PrevLinked
    <3>3. Relinked(front, s, c) /\ c.best = front.best
      BY <3>2 DEF PrevPut
    <3>4. Relinked(gone, s, c)
      BY <1>14, <3>3, RelinkedTwice
    <3>5. c.best[s] = IF before = 0 THEN after ELSE b.best[s]
      BY <1>14, <3>3
    <3> QED BY <3>2, <3>4, <3>5 DEF PrevPut
  <2> QED BY <2>1, <2>2
<1>17. ASSUME NEW q \in Prices
       PROVE  /\ c.levels[s][q].next = IF q = before THEN after ELSE gone.levels[s][q].next
              /\ c.levels[s][q].prev = IF q = after THEN before ELSE gone.levels[s][q].prev
  <2>1. /\ front.levels[s][q].next = IF q = before THEN after ELSE gone.levels[s][q].next
        /\ front.levels[s][q].prev = gone.levels[s][q].prev
    BY <1>14
  <2>2. /\ c.levels[s][q].next = front.levels[s][q].next
        /\ c.levels[s][q].prev = IF q = after THEN before ELSE front.levels[s][q].prev
    BY <1>16
  <2> QED BY <2>1, <2>2
<1>18. /\ TypedBook(c) /\ c.orders = b.orders
       /\ \A t \in Sides \ {s} : c.levels[t] = b.levels[t] /\ c.best[t] = b.best[t]
       /\ \A q \in Prices : /\ c.levels[s][q].exists = gone.levels[s][q].exists
                            /\ c.levels[s][q].head = gone.levels[s][q].head
                            /\ c.levels[s][q].tail = gone.levels[s][q].tail
                            /\ c.levels[s][q].volume = gone.levels[s][q].volume
  BY <1>6, <1>8, <1>16 DEF Relinked
<1>19. LevelsOf(c, s) = S \ {p}
  <2>1. \A q \in Prices : c.levels[s][q].exists = IF q = p THEN FALSE ELSE b.levels[s][q].exists
    BY <1>4, <1>7, <1>18
  <2> QED BY <2>1 DEF LevelsOf, S
<1>20. ASSUME NEW q \in Prices \ (S \ {p}) PROVE c.levels[s][q] = EmptyLevel
  <2>1. gone.levels[s][q] = EmptyLevel
    BY <1>7, <1>10
  <2>2. q # before /\ q # after
    BY <1>12, <1>13
  <2>3. c.levels[s][q] \in LevelSet
    BY <1>18 DEF TypedBook
  <2>4. c.levels[s][q].next = gone.levels[s][q].next /\ c.levels[s][q].prev = gone.levels[s][q].prev
    BY <1>17, <2>2
  <2>5. /\ gone.levels[s][q].exists = FALSE /\ gone.levels[s][q].head = 0
        /\ gone.levels[s][q].tail = 0 /\ gone.levels[s][q].volume = 0
        /\ gone.levels[s][q].next = 0 /\ gone.levels[s][q].prev = 0
    BY <2>1 DEF EmptyLevel
  <2> QED BY <1>18, <2>3, <2>4, <2>5, LevelEmpty
<1>21. Emptied(b, s, p, c)
  <2>1. ASSUME NEW q \in Prices \ {p}
        PROVE  /\ c.levels[s][q].head = b.levels[s][q].head
               /\ c.levels[s][q].tail = b.levels[s][q].tail
               /\ c.levels[s][q].volume = b.levels[s][q].volume
    BY <1>7, <1>18
  <2> QED BY <1>18, <1>19, <1>20, <2>1 DEF Emptied, S
<1>22. SideInv(c, s)
  <2>1. ASSUME NEW a \in S \ {p}
        PROVE  /\ NextLevel(c, s)[a] = IF a = PrevLevel(b, s)[p] THEN NextLevel(b, s)[p] ELSE NextLevel(b, s)[a]
               /\ PrevLevel(c, s)[a] = IF a = NextLevel(b, s)[p] THEN PrevLevel(b, s)[p] ELSE PrevLevel(b, s)[a]
    <3>1. a \in Prices /\ a # p
      BY <1>9
    <3>2. gone.levels[s][a] = b.levels[s][a]
      BY <1>7, <3>1
    <3>3. /\ NextLevel(c, s)[a] = c.levels[s][a].next /\ PrevLevel(c, s)[a] = c.levels[s][a].prev
          /\ NextLevel(b, s)[a] = b.levels[s][a].next /\ PrevLevel(b, s)[a] = b.levels[s][a].prev
      BY <3>1, LinkOfLevel
    <3>4. /\ c.levels[s][a].next = IF a = before THEN after ELSE b.levels[s][a].next
          /\ c.levels[s][a].prev = IF a = after THEN before ELSE b.levels[s][a].prev
      BY <1>17, <3>1, <3>2
    <3> QED BY <1>11, <3>3, <3>4
  <2>2. TakenOut(S, p, NextLevel(b, s), PrevLevel(b, s), NextLevel(c, s), PrevLevel(c, s))
    BY <2>1 DEF TakenOut
  <2>3. Linked(s, S \ {p}, NextLevel(c, s), PrevLevel(c, s))
    BY <1>9, <1>10, <2>2, LinkedWithout
  <2>4. IsFirst(s, S \ {p}, IF before = 0 THEN after ELSE b.best[s])
    BY <1>9, <1>10, <1>11, FirstWithout
  <2> QED BY <1>16, <1>19, <1>20, <2>3, <2>4 DEF SideInv
<1> QED BY <1>21, <1>22 DEF c

-----------------------------------------------------------------------------
(* An order is removed                                                      *)

\* The volume that is left of a level when an order leaves it
VolumeWithout(b, id) ==
    LET o == b.orders[id]  v == b.levels[o.side][o.price].volume IN IF v >= o.amount THEN v - o.amount ELSE 0

\* Book c is b without order id; its level is still there.
TakenLevels(b, id, c) ==
    LET o == b.orders[id]  s == o.side  p == o.price IN
    /\ \A t \in Sides : SideInv(c, t) /\ LevelsOf(c, t) = LevelsOf(b, t)
    /\ \A t \in Sides, q \in Prices : t # s \/ q # p => c.levels[t][q] = b.levels[t][q]
    /\ c.levels[s][p].head = IF o.prev = 0 THEN o.next ELSE b.levels[s][p].head
    /\ c.levels[s][p].tail = IF o.next = 0 THEN o.prev ELSE b.levels[s][p].tail
    /\ c.levels[s][p].volume = VolumeWithout(b, id)
TakenOrders(b, id, c) ==
    \A j \in DOMAIN b.orders \ {id} :
         /\ SameEntry(c.orders[j], b.orders[j])
         /\ c.orders[j].next = IF j = b.orders[id].prev THEN b.orders[id].next ELSE b.orders[j].next
         /\ c.orders[j].prev = IF j = b.orders[id].next THEN b.orders[id].prev ELSE b.orders[j].prev
Taken(b, id, c) ==
    /\ TypedBook(c) /\ TakenLevels(b, id, c) /\ TakenOrders(b, id, c)

\* Order id is in the level of its price, and what it is linked to too.
Present(b, id) == BookInv(b) /\ id \in DOMAIN b.orders

LEMMA OrderPresent ==
    ASSUME NEW b, NEW id, Present(b, id), NEW o, o = b.orders[id]
    PROVE  /\ o.side \in Sides /\ o.price \in Prices /\ o \in OrderSet /\ id \in Nat \ {0}
           /\ o.next = 0 \/ o.next \in OrdersAt(b, o.side, o.price) \ {id}
           /\ o.prev = 0 \/ o.prev \in OrdersAt(b, o.side, o.price) \ {id}
           /\ o.next \in Nat /\ o.prev \in Nat
           /\ o.price \in LevelsOf(b, o.side)
           /\ id \in OrdersAt(b, o.side, o.price)
<1> DEFINE S == OrdersAt(b, o.side, o.price)
<1>1. TypedBook(b) /\ id \in DOMAIN b.orders
  BY DEF Present, BookInv
<1>2. o \in OrderSet /\ id \in Nat \ {0}
  BY <1>1 DEF TypedBook
<1>3. o.side \in Sides /\ o.price \in Prices /\ o.next \in Nat /\ o.prev \in Nat
  BY <1>2 DEF OrderSet
<1>4. id \in S
  BY <1>1 DEF OrdersAt
<1>5. PlaceInv(b, o.side, o.price) /\ (o.price \in LevelsOf(b, o.side) <=> S # {})
  BY <1>3 DEF Present, BookInv
<1>6. S \subseteq Nat \ {0}
  BY <1>1, IdsAreNumbers
<1>7. NextOrder(b)[id] = o.next /\ PrevOrder(b)[id] = o.prev
  BY <1>1, LinkOfOrder
<1> HIDE DEF S
<1>8. IsNext("sell", S, id, o.next) /\ IsNext("buy", S, id, o.prev)
  BY <1>4, <1>5, <1>7, Zenon DEF PlaceInv, Linked, Opposite, S
<1>9. o.next = 0 \/ o.next \in S \ {id}
  BY <1>4, <1>6, <1>8 DEF IsNext, Better
<1>10. o.prev = 0 \/ o.prev \in S \ {id}
  BY <1>4, <1>6, <1>8 DEF IsNext, Better
<1>11. o.price \in LevelsOf(b, o.side)
  BY <1>4, <1>5 DEF S
<1> QED BY <1>2, <1>3, <1>4, <1>9, <1>10, <1>11 DEF S

\* The order leaves the volume of its level.
LessVolume(b, id, c) ==
    LET o == b.orders[id] IN
    c = [b EXCEPT !.levels[o.side][o.price].volume = IF @ >= o.amount THEN @ - o.amount ELSE 0]
\* The one before it, or the head, is linked to the one after it.
FrontOf(b, id, less, c) ==
    LET o == b.orders[id] IN
    c = IF o.prev = 0 THEN [less EXCEPT !.levels[o.side][o.price].head = o.next]
                      ELSE [less EXCEPT !.orders[o.prev].next = o.next]
\* The one after it, or the tail, is linked to the one before it.
BackOf(b, id, front, c) ==
    LET o == b.orders[id] IN
    c = IF o.next = 0 THEN [front EXCEPT !.levels[o.side][o.price].tail = o.prev]
                      ELSE [front EXCEPT !.orders[o.next].prev = o.prev]

\* What stays the same in book c while the order is unlinked
Relinking(b, s, p, c) ==
    /\ TypedBook(c) /\ DOMAIN c.orders = DOMAIN b.orders
    /\ \A t \in Sides : SideInv(c, t) /\ LevelsOf(c, t) = LevelsOf(b, t)
    /\ \A t \in Sides, q \in Prices : t # s \/ q # p => c.levels[t][q] = b.levels[t][q]
    /\ \A j \in DOMAIN b.orders : SameEntry(c.orders[j], b.orders[j])

LEMMA RelinkingTwice ==
    ASSUME NEW b, NEW c, NEW d, NEW s, NEW p, Relinking(b, s, p, c), Relinking(c, s, p, d)
    PROVE  Relinking(b, s, p, d)
<1>1. \A t \in Sides : LevelsOf(d, t) = LevelsOf(b, t)
  BY DEF Relinking
<1>2. \A t \in Sides, q \in Prices : t # s \/ q # p => d.levels[t][q] = b.levels[t][q]
  BY DEF Relinking
<1>3. \A j \in DOMAIN b.orders : SameEntry(d.orders[j], b.orders[j])
  BY DEF Relinking, SameEntry
<1> QED BY <1>1, <1>2, <1>3 DEF Relinking

LEMMA RewrittenRelinks ==
    ASSUME NEW b, NEW c, NEW s \in Sides, NEW p \in Prices, Rewritten(b, s, p, c), p \in LevelsOf(b, s),
           \A t \in Sides : SideInv(b, t)
    PROVE  Relinking(b, s, p, c)
<1>1. \A t \in Sides : SideInv(c, t) /\ LevelsOf(c, t) = LevelsOf(b, t)
  BY SideRewritten
<1>2. \A t \in Sides, q \in Prices : t # s \/ q # p => c.levels[t][q] = b.levels[t][q]
  BY DEF Rewritten
<1>3. c.orders = b.orders /\ TypedBook(c)
  BY DEF Rewritten
<1> QED BY <1>1, <1>2, <1>3 DEF Relinking, SameEntry

LEMMA ReorderedRelinks ==
    ASSUME NEW b, NEW c, NEW s \in Sides, NEW p \in Prices, Reordered(b, c), \A t \in Sides : SideInv(b, t)
    PROVE  Relinking(b, s, p, c)
<1>1. \A t \in Sides : SideInv(c, t) /\ LevelsOf(c, t) = LevelsOf(b, t)
  BY SideSame DEF Reordered
<1>2. \A j \in DOMAIN b.orders : SameEntry(c.orders[j], b.orders[j])
  BY DEF Reordered, SameEntry
<1> QED BY <1>1, <1>2 DEF Relinking, Reordered

\* Only the volume has changed.
VolumePart(b, id, c) ==
    LET o == b.orders[id]  s == o.side  p == o.price IN
    /\ Relinking(b, s, p, c) /\ c.orders = b.orders
    /\ c.levels[s][p].head = b.levels[s][p].head
    /\ c.levels[s][p].tail = b.levels[s][p].tail
    /\ c.levels[s][p].volume = VolumeWithout(b, id)

LEMMA VolumeLess ==
    ASSUME NEW b, NEW id, Present(b, id), NEW c, LessVolume(b, id, c)
    PROVE  VolumePart(b, id, c)
<1> DEFINE n == VolumeWithout(b, id)
           o == b.orders[id]
           s == o.side
           p == o.price
<1>1. /\ s \in Sides /\ p \in Prices /\ o \in OrderSet /\ p \in LevelsOf(b, s) /\ TypedBook(b)
      /\ \A t \in Sides : SideInv(b, t)
  BY OrderPresent DEF Present, BookInv
<1>2. o.amount \in Nat /\ b.levels[s][p].volume \in Int
  <2>1. b.levels[s][p] \in LevelSet
    BY <1>1 DEF TypedBook
  <2> QED BY <1>1, <2>1 DEF OrderSet, LevelSet
<1>3. n \in Int
  BY <1>2 DEF VolumeWithout
<1>4. c = [b EXCEPT !.levels[s][p].volume = n]
  BY Zenon DEF LessVolume, VolumeWithout
<1> HIDE DEF n, o, s, p
<1>5. VolumePut(b, s, p, n, c)
  BY <1>1, <1>3, <1>4, VolumeWritten
<1>6. Rewritten(b, s, p, c)
  BY <1>5 DEF VolumePut
<1>7. Relinking(b, s, p, c)
  BY <1>1, <1>6, RewrittenRelinks
<1> QED BY <1>5, <1>6, <1>7, Zenon DEF VolumePart, VolumePut, Rewritten, n, o, s, p

\* What unlinking the front of an order does to the head of its level and to the links
FrontPart(b, id, c) ==
    LET o == b.orders[id]  s == o.side  p == o.price IN
    /\ Relinking(b, s, p, c)
    /\ c.levels[s][p].head = IF o.prev = 0 THEN o.next ELSE b.levels[s][p].head
    /\ c.levels[s][p].tail = b.levels[s][p].tail
    /\ \A j \in DOMAIN b.orders : /\ c.orders[j].next = IF j = o.prev THEN o.next ELSE b.orders[j].next
                                  /\ c.orders[j].prev = b.orders[j].prev

LEMMA FrontTaken ==
    ASSUME NEW b, NEW id, Present(b, id), NEW o, o = b.orders[id], NEW less, LessVolume(b, id, less),
           NEW c, FrontOf(b, id, less, c)
    PROVE  FrontPart(b, id, c) /\ c.levels[o.side][o.price].volume = VolumeWithout(b, id)
<1> DEFINE s == o.side
           p == o.price
<1>1. /\ s \in Sides /\ p \in Prices /\ p \in LevelsOf(b, s) /\ TypedBook(b)
      /\ o.next \in Nat /\ (o.prev = 0 \/ o.prev \in DOMAIN b.orders)
  <2>1. OrdersAt(b, s, p) \subseteq DOMAIN b.orders
    BY DEF OrdersAt
  <2> QED BY <2>1, OrderPresent DEF Present, BookInv
<1>2. 0 \notin DOMAIN b.orders
  BY <1>1 DEF TypedBook
<1>3. /\ Relinking(b, s, p, less) /\ less.orders = b.orders
      /\ less.levels[s][p].head = b.levels[s][p].head
      /\ less.levels[s][p].tail = b.levels[s][p].tail
      /\ less.levels[s][p].volume = VolumeWithout(b, id)
  BY VolumeLess DEF VolumePart
<1>4. TypedBook(less) /\ (\A t \in Sides : SideInv(less, t)) /\ p \in LevelsOf(less, s)
  BY <1>1, <1>3, Zenon DEF Relinking
<1>5. c = IF o.prev = 0 THEN [less EXCEPT !.levels[s][p].head = o.next]
                        ELSE [less EXCEPT !.orders[o.prev].next = o.next]
  BY Zenon DEF FrontOf
<1> HIDE DEF s, p
<1>6. CASE o.prev = 0
  <2>1. c = [less EXCEPT !.levels[s][p].head = o.next]
    BY <1>5, <1>6
  <2>2. HeadPut(less, s, p, o.next, c)
    BY <1>1, <1>4, <2>1, HeadWritten
  <2>3. Rewritten(less, s, p, c)
    BY <2>2 DEF HeadPut
  <2>4. Relinking(less, s, p, c)
    BY <1>1, <1>4, <2>3, RewrittenRelinks
  <2>5. Relinking(b, s, p, c)
    BY <1>3, <2>4, RelinkingTwice
  <2>6. c.orders = b.orders
    BY <1>3, <2>3 DEF Rewritten
  <2>7. \A j \in DOMAIN b.orders : j # o.prev
    BY <1>2, <1>6
  <2>8. /\ c.levels[s][p].head = o.next
        /\ c.levels[s][p].tail = b.levels[s][p].tail
        /\ c.levels[s][p].volume = VolumeWithout(b, id)
    BY <1>3, <2>2 DEF HeadPut
  <2> QED BY <1>6, <2>5, <2>6, <2>7, <2>8, Zenon DEF FrontPart, s, p
<1>7. CASE o.prev # 0
  <2>1. c = [less EXCEPT !.orders[o.prev].next = o.next] /\ o.prev \in DOMAIN less.orders
    BY <1>1, <1>3, <1>5, <1>7
  <2>2. OrderNextPut(less, o.prev, o.next, c)
    BY <1>1, <1>4, <2>1, OrderNextWritten
  <2>3. Reordered(less, c)
    BY <2>2 DEF OrderNextPut
  <2>4. Relinking(less, s, p, c)
    BY <1>1, <1>4, <2>3, ReorderedRelinks
  <2>5. Relinking(b, s, p, c)
    BY <1>3, <2>4, RelinkingTwice
  <2>6. c.levels = less.levels
    BY <2>3 DEF Reordered
  <2>7. \A j \in DOMAIN b.orders : /\ c.orders[j].next = IF j = o.prev THEN o.next ELSE b.orders[j].next
                                   /\ c.orders[j].prev = b.orders[j].prev
    BY <1>3, <2>2 DEF OrderNextPut
  <2> QED BY <1>3, <1>7, <2>5, <2>6, <2>7, Zenon DEF FrontPart, s, p
<1> QED BY <1>6, <1>7

\* The order is unlinked, and still stored.
LinksTaken(b, id, c) ==
    LET o == b.orders[id]  s == o.side  p == o.price IN
    /\ Relinking(b, s, p, c)
    /\ c.levels[s][p].head = IF o.prev = 0 THEN o.next ELSE b.levels[s][p].head
    /\ c.levels[s][p].tail = IF o.next = 0 THEN o.prev ELSE b.levels[s][p].tail
    /\ c.levels[s][p].volume = VolumeWithout(b, id)
    /\ \A j \in DOMAIN b.orders : /\ c.orders[j].next = IF j = o.prev THEN o.next ELSE b.orders[j].next
                                  /\ c.orders[j].prev = IF j = o.next THEN o.prev ELSE b.orders[j].prev

LEMMA BackTaken ==
    ASSUME NEW b, NEW id, Present(b, id), NEW less, LessVolume(b, id, less),
           NEW front, FrontOf(b, id, less, front), NEW c, BackOf(b, id, front, c)
    PROVE  LinksTaken(b, id, c)
<1> DEFINE o == b.orders[id]
           s == o.side
           p == o.price
<1>1. /\ s \in Sides /\ p \in Prices /\ p \in LevelsOf(b, s) /\ TypedBook(b)
      /\ o.prev \in Nat /\ (o.next = 0 \/ o.next \in DOMAIN b.orders)
  <2>1. OrdersAt(b, s, p) \subseteq DOMAIN b.orders
    BY DEF OrdersAt
  <2> QED BY <2>1, OrderPresent DEF Present, BookInv
<1>2. 0 \notin DOMAIN b.orders
  BY <1>1 DEF TypedBook
<1>3. FrontPart(b, id, front) /\ front.levels[s][p].volume = VolumeWithout(b, id)
  BY FrontTaken
<1>4. /\ Relinking(b, s, p, front)
      /\ front.levels[s][p].head = IF o.prev = 0 THEN o.next ELSE b.levels[s][p].head
      /\ front.levels[s][p].tail = b.levels[s][p].tail
      /\ \A j \in DOMAIN b.orders : /\ front.orders[j].next = IF j = o.prev THEN o.next ELSE b.orders[j].next
                                    /\ front.orders[j].prev = b.orders[j].prev
  BY <1>3, Zenon DEF FrontPart
<1>5. TypedBook(front) /\ (\A t \in Sides : SideInv(front, t)) /\ p \in LevelsOf(front, s)
      /\ DOMAIN front.orders = DOMAIN b.orders
  BY <1>1, <1>4, Zenon DEF Relinking
<1>6. c = IF o.next = 0 THEN [front EXCEPT !.levels[s][p].tail = o.prev]
                        ELSE [front EXCEPT !.orders[o.next].prev = o.prev]
  BY Zenon DEF BackOf
<1> HIDE DEF o, s, p
<1>7. CASE o.next = 0
  <2>1. c = [front EXCEPT !.levels[s][p].tail = o.prev]
    BY <1>6, <1>7
  <2>2. TailPut(front, s, p, o.prev, c)
    BY <1>1, <1>5, <2>1, TailWritten
  <2>3. Rewritten(front, s, p, c)
    BY <2>2 DEF TailPut
  <2>4. Relinking(front, s, p, c)
    BY <1>1, <1>5, <2>3, RewrittenRelinks
  <2>5. Relinking(b, s, p, c)
    BY <1>4, <2>4, RelinkingTwice
  <2>6. c.orders = front.orders
    BY <2>3 DEF Rewritten
  <2>7. \A j \in DOMAIN b.orders : j # o.next
    BY <1>2, <1>7
  <2>8. \A j \in DOMAIN b.orders : /\ c.orders[j].next = IF j = o.prev THEN o.next ELSE b.orders[j].next
                                   /\ c.orders[j].prev = IF j = o.next THEN o.prev ELSE b.orders[j].prev
    BY <1>4, <2>6, <2>7
  <2>9. /\ c.levels[s][p].head = IF o.prev = 0 THEN o.next ELSE b.levels[s][p].head
        /\ c.levels[s][p].tail = IF o.next = 0 THEN o.prev ELSE b.levels[s][p].tail
        /\ c.levels[s][p].volume = VolumeWithout(b, id)
    BY <1>3, <1>4, <1>7, <2>2 DEF TailPut
  <2> QED BY <2>5, <2>8, <2>9, Zenon DEF LinksTaken, o, s, p
<1>8. CASE o.next # 0
  <2>1. c = [front EXCEPT !.orders[o.next].prev = o.prev] /\ o.next \in DOMAIN front.orders
    BY <1>1, <1>5, <1>6, <1>8
  <2>2. OrderPrevPut(front, o.next, o.prev, c)
    BY <1>1, <1>5, <2>1, OrderPrevWritten
  <2>3. Reordered(front, c)
    BY <2>2 DEF OrderPrevPut
  <2>4. Relinking(front, s, p, c)
    BY <1>1, <1>5, <2>3, ReorderedRelinks
  <2>5. Relinking(b, s, p, c)
    BY <1>4, <2>4, RelinkingTwice
  <2>6. c.levels = front.levels
    BY <2>3 DEF Reordered
  <2>7. ASSUME NEW j \in DOMAIN b.orders
        PROVE  /\ c.orders[j].next = IF j = o.prev THEN o.next ELSE b.orders[j].next
               /\ c.orders[j].prev = IF j = o.next THEN o.prev ELSE b.orders[j].prev
    <3>1. /\ c.orders[j].prev = IF j = o.next THEN o.prev ELSE front.orders[j].prev
          /\ c.orders[j].next = front.orders[j].next
      BY <1>5, <2>2 DEF OrderPrevPut
    <3> QED BY <1>4, <3>1
  <2>8. /\ c.levels[s][p].head = IF o.prev = 0 THEN o.next ELSE b.levels[s][p].head
        /\ c.levels[s][p].tail = IF o.next = 0 THEN o.prev ELSE b.levels[s][p].tail
        /\ c.levels[s][p].volume = VolumeWithout(b, id)
    BY <1>3, <1>4, <1>8, <2>6
  <2> QED BY <2>5, <2>7, <2>8, Zenon DEF LinksTaken, o, s, p
<1> QED BY <1>7, <1>8

LEMMA OrderDeleted ==
    ASSUME NEW b, NEW id, id \in DOMAIN b.orders, NEW d, LinksTaken(b, id, d), NEW c,
           c = [d EXCEPT !.orders = Restrict(@, DOMAIN @ \ {id})]
    PROVE  Taken(b, id, c) /\ DOMAIN c.orders = DOMAIN b.orders \ {id}
<1> DEFINE o == b.orders[id]
           s == o.side
           p == o.price
           u == Restrict(d.orders, DOMAIN d.orders \ {id})
<1>1. DOMAIN u = DOMAIN d.orders \ {id} /\ \A j \in DOMAIN u : u[j] = d.orders[j]
  BY DEF Restrict
<1>2. u = [j \in DOMAIN u |-> u[j]]
  BY DEF Restrict
<1>3. c = [d EXCEPT !.orders = u]
  OBVIOUS
<1> HIDE DEF u
<1>4. Relinking(b, s, p, d) /\ TypedBook(d) /\ DOMAIN d.orders = DOMAIN b.orders
  BY Zenon DEF LinksTaken, Relinking
<1>5. DOMAIN d = {"orders", "levels", "best"}
  BY <1>4 DEF TypedBook
<1>6. DOMAIN c = {"orders", "levels", "best"} /\ c.orders = u /\ c.levels = d.levels /\ c.best = d.best
  BY <1>3, <1>5
<1>7. d.orders \in [DOMAIN d.orders -> OrderSet] /\ DOMAIN d.orders \subseteq Nat \ {0}
  BY <1>4 DEF TypedBook
<1>8. \A j \in DOMAIN u : u[j] \in OrderSet
  BY <1>1, <1>7
<1>9. u \in [DOMAIN u -> OrderSet] /\ DOMAIN u \subseteq Nat \ {0}
  BY <1>1, <1>2, <1>7, <1>8
<1>10. TypedBook(c)
  BY <1>4, <1>6, <1>9 DEF TypedBook
<1>11. DOMAIN c.orders = DOMAIN b.orders \ {id}
  BY <1>1, <1>4, <1>6
<1>12. \A j \in DOMAIN b.orders \ {id} : c.orders[j] = d.orders[j]
  BY <1>1, <1>4, <1>6
<1>13. TakenLevels(b, id, c)
  <2>1. \A t \in Sides : SideInv(c, t) /\ LevelsOf(c, t) = LevelsOf(d, t)
    BY <1>4, <1>6, SideSame DEF Relinking
  <2>2. \A t \in Sides : LevelsOf(d, t) = LevelsOf(b, t)
    BY <1>4 DEF Relinking
  <2>3. \A t \in Sides, q \in Prices : t # s \/ q # p => c.levels[t][q] = b.levels[t][q]
    BY <1>4, <1>6 DEF Relinking
  <2>4. /\ c.levels[s][p].head = IF o.prev = 0 THEN o.next ELSE b.levels[s][p].head
        /\ c.levels[s][p].tail = IF o.next = 0 THEN o.prev ELSE b.levels[s][p].tail
        /\ c.levels[s][p].volume = VolumeWithout(b, id)
    BY <1>6, Zenon DEF LinksTaken
  <2> QED BY <2>1, <2>2, <2>3, <2>4, Zenon DEF TakenLevels
<1>14. TakenOrders(b, id, c)
  <2>1. ASSUME NEW j \in DOMAIN b.orders \ {id}
        PROVE  /\ SameEntry(c.orders[j], b.orders[j])
               /\ c.orders[j].next = IF j = o.prev THEN o.next ELSE b.orders[j].next
               /\ c.orders[j].prev = IF j = o.next THEN o.prev ELSE b.orders[j].prev
    <3>1. c.orders[j] = d.orders[j]
      BY <1>12
    <3>2. SameEntry(d.orders[j], b.orders[j])
      BY <1>4 DEF Relinking
    <3>3. /\ d.orders[j].next = IF j = o.prev THEN o.next ELSE b.orders[j].next
          /\ d.orders[j].prev = IF j = o.next THEN o.prev ELSE b.orders[j].prev
      BY Zenon DEF LinksTaken
    <3> QED BY <3>1, <3>2, <3>3
  <2> QED BY <2>1 DEF TakenOrders
<1> QED BY <1>10, <1>11, <1>13, <1>14 DEF Taken

\* Book c is b without order id, and without its level if the order was alone there.
Removed(b, id, c) ==
    LET o == b.orders[id] IN
    /\ BookInv(c)
    /\ DOMAIN c.orders = DOMAIN b.orders \ {id} /\ TakenOrders(b, id, c)
    /\ \A t \in Sides, q \in Prices :
         t # o.side \/ q # o.price => c.levels[t][q].volume = b.levels[t][q].volume
    /\ c.levels[o.side][o.price].volume = 0 \/ c.levels[o.side][o.price].volume = VolumeWithout(b, id)
    /\ OrdersAt(c, o.side, o.price) # {} => c.levels[o.side][o.price].volume = VolumeWithout(b, id)
    /\ OrdersAt(c, o.side, o.price) = {} => c.levels[o.side][o.price].volume = 0

\* The orders are in order again once one of them has been unlinked.
LEMMA PlacesTaken ==
    ASSUME NEW b, NEW id, Present(b, id), NEW c, Taken(b, id, c), DOMAIN c.orders = DOMAIN b.orders \ {id}
    PROVE  \A t \in Sides, q \in Prices : PlaceInv(c, t, q) /\ OrdersAt(c, t, q) = OrdersAt(b, t, q) \ {id}
<1> DEFINE o == b.orders[id]
           s == o.side
           p == o.price
           S == OrdersAt(b, s, p)
           f == NextOrder(b)
           g == PrevOrder(b)
           u == NextOrder(c)
           v == PrevOrder(c)
<1>1. /\ s \in Sides /\ p \in Prices /\ id \in S /\ TypedBook(b) /\ id \in DOMAIN b.orders
      /\ (o.next = 0 \/ o.next \in S \ {id}) /\ (o.prev = 0 \/ o.prev \in S \ {id})
  BY OrderPresent DEF Present, BookInv
<1>2. S \subseteq Nat \ {0} /\ S \subseteq DOMAIN b.orders
  BY <1>1, IdsAreNumbers
<1>3. f[id] = o.next /\ g[id] = o.prev
  BY <1>1, LinkOfOrder
<1>4. ASSUME NEW j \in DOMAIN b.orders \ {id}
      PROVE  /\ c.orders[j].side = b.orders[j].side /\ c.orders[j].price = b.orders[j].price
             /\ u[j] = IF j = o.prev THEN o.next ELSE f[j]
             /\ v[j] = IF j = o.next THEN o.prev ELSE g[j]
  <2>1. /\ SameEntry(c.orders[j], b.orders[j])
        /\ c.orders[j].next = IF j = o.prev THEN o.next ELSE b.orders[j].next
        /\ c.orders[j].prev = IF j = o.next THEN o.prev ELSE b.orders[j].prev
    BY DEF Taken, TakenOrders
  <2>2. u[j] = c.orders[j].next /\ v[j] = c.orders[j].prev
    BY LinkOfOrder
  <2>3. f[j] = b.orders[j].next /\ g[j] = b.orders[j].prev
    BY LinkOfOrder
  <2> HIDE DEF u, v, f, g, o
  <2> QED BY <2>1, <2>2, <2>3 DEF SameEntry
<1>5. /\ \A t \in Sides, q \in Prices : t # s \/ q # p => c.levels[t][q] = b.levels[t][q]
      /\ c.levels[s][p].head = IF o.prev = 0 THEN o.next ELSE b.levels[s][p].head
      /\ c.levels[s][p].tail = IF o.next = 0 THEN o.prev ELSE b.levels[s][p].tail
  BY Zenon DEF Taken, TakenLevels
<1> HIDE DEF f, g, u, v
<1>6. ASSUME NEW t \in Sides, NEW q \in Prices
      PROVE  OrdersAt(c, t, q) = OrdersAt(b, t, q) \ {id}
  BY <1>4 DEF OrdersAt
<1>7. ASSUME NEW t \in Sides, NEW q \in Prices PROVE PlaceInv(b, t, q)
  BY DEF Present, BookInv
<1>8. ASSUME NEW t \in Sides, NEW q \in Prices, t # s \/ q # p PROVE PlaceInv(c, t, q)
  <2>1. id \notin OrdersAt(b, t, q)
    BY <1>8 DEF OrdersAt
  <2>2. OrdersAt(c, t, q) = OrdersAt(b, t, q)
    BY <1>6, <2>1
  <2>3. ASSUME NEW j \in OrdersAt(b, t, q) PROVE u[j] = f[j] /\ v[j] = g[j]
    <3>1. j \in DOMAIN b.orders \ {id} /\ j # 0 /\ j \notin S
      BY <1>1, <1>8, <2>1 DEF OrdersAt, TypedBook
    <3>2. j # o.prev /\ j # o.next
      BY <1>1, <3>1
    <3> QED BY <1>4, <3>1, <3>2
  <2>4. c.levels[t][q] = b.levels[t][q]
    BY <1>5, <1>8
  <2>5. SamePlace(b, c, t, q)
    BY <2>2, <2>3, <2>4 DEF SamePlace, u, v, f, g
  <2> QED BY <1>7, <2>5, PlaceSame
<1> HIDE DEF o, s, p, S
<1>9. PlaceInv(c, s, p)
  <2>1. OrdersAt(c, s, p) = S \ {id}
    BY <1>1, <1>6 DEF S
  <2>2. Linked("sell", S, f, g) /\ IsFirst("sell", S, b.levels[s][p].head) /\ IsFirst("buy", S, b.levels[s][p].tail)
    BY <1>1, <1>7 DEF PlaceInv, S, f, g
  <2>3. "buy" \in Sides /\ "sell" \in Sides /\ Opposite("buy") = "sell" /\ Opposite("sell") = "buy"
    BY DEF Sides, Opposite
  <2>4. Linked("buy", S, g, f)
    BY <2>2, <2>3, Backwards
  <2>5. TakenOut(S, id, f, g, u, v)
    <3>1. ASSUME NEW a \in S \ {id}
          PROVE  /\ u[a] = IF a = g[id] THEN f[id] ELSE f[a]
                 /\ v[a] = IF a = f[id] THEN g[id] ELSE g[a]
      <4>1. a \in DOMAIN b.orders \ {id}
        BY <1>2
      <4>2. /\ u[a] = IF a = o.prev THEN o.next ELSE f[a]
            /\ v[a] = IF a = o.next THEN o.prev ELSE g[a]
        BY <1>4, <4>1
      <4> QED BY <1>3, <4>2
    <3> QED BY <3>1 DEF TakenOut
  <2>6. Linked("sell", S \ {id}, u, v)
    BY <1>1, <1>2, <2>2, <2>3, <2>5, LinkedWithout
  <2>7. IsFirst("sell", S \ {id}, IF g[id] = 0 THEN f[id] ELSE b.levels[s][p].head)
    BY <1>1, <1>2, <2>2, <2>3, FirstWithout
  <2>8. IsFirst("buy", S \ {id}, IF f[id] = 0 THEN g[id] ELSE b.levels[s][p].tail)
    BY <1>1, <1>2, <2>2, <2>3, <2>4, FirstWithout
  <2>9. IsFirst("sell", S \ {id}, c.levels[s][p].head)
    <3>1. c.levels[s][p].head = IF g[id] = 0 THEN f[id] ELSE b.levels[s][p].head
      BY <1>3, <1>5
    <3> QED BY <2>7, <3>1
  <2>10. IsFirst("buy", S \ {id}, c.levels[s][p].tail)
    <3>1. c.levels[s][p].tail = IF f[id] = 0 THEN g[id] ELSE b.levels[s][p].tail
      BY <1>3, <1>5
    <3> QED BY <2>8, <3>1
  <2> QED BY <2>1, <2>6, <2>9, <2>10 DEF PlaceInv, u, v
<1>10. ASSUME NEW t \in Sides, NEW q \in Prices PROVE PlaceInv(c, t, q)
  <2>1. CASE t = s /\ q = p
    BY <1>9, <2>1
  <2>2. CASE t # s \/ q # p
    BY <1>8, <2>2
  <2> QED BY <2>1, <2>2
<1> QED BY <1>6, <1>10

LEMMA OrderRemoved ==
    ASSUME NEW b, NEW id, Present(b, id)
    PROVE  Removed(b, id, RemoveOrder(b, id))
<1> DEFINE o == b.orders[id]
           s == o.side
           p == o.price
           less == [b EXCEPT !.levels[s][p].volume = IF @ >= o.amount THEN @ - o.amount ELSE 0]
           front == IF o.prev = 0 THEN [less EXCEPT !.levels[s][p].head = o.next]
                                  ELSE [less EXCEPT !.orders[o.prev].next = o.next]
           back == IF o.next = 0 THEN [front EXCEPT !.levels[s][p].tail = o.prev]
                                 ELSE [front EXCEPT !.orders[o.next].prev = o.prev]
           out == [back EXCEPT !.orders = Restrict(@, DOMAIN @ \ {id})]
           c == RemoveOrder(b, id)
<1>1. c = IF out.levels[s][p].head = 0 THEN RemoveLevel(out, s, p) ELSE out
  BY Zenon DEF RemoveOrder
<1> HIDE DEF c
<1>2. out = [back EXCEPT !.orders = Restrict(@, DOMAIN @ \ {id})]
  OBVIOUS
<1> HIDE DEF out
<1>3. BackOf(b, id, front, back)
  BY DEF BackOf
<1> HIDE DEF back
<1>4. FrontOf(b, id, less, front)
  BY DEF FrontOf
<1> HIDE DEF front
<1>5. LessVolume(b, id, less)
  BY DEF LessVolume
<1> HIDE DEF less
<1>6. LinksTaken(b, id, back)
  BY <1>3, <1>4, <1>5, BackTaken
<1>7. id \in DOMAIN b.orders
  BY DEF Present
<1>8. Taken(b, id, out) /\ DOMAIN out.orders = DOMAIN b.orders \ {id}
  BY <1>2, <1>6, <1>7, OrderDeleted
<1>9. \A t \in Sides, q \in Prices : PlaceInv(out, t, q) /\ OrdersAt(out, t, q) = OrdersAt(b, t, q) \ {id}
  BY <1>8, PlacesTaken
<1>10. s \in Sides /\ p \in Prices /\ p \in LevelsOf(b, s)
  BY OrderPresent
<1>11. /\ TypedBook(out) /\ TakenOrders(b, id, out)
       /\ \A t \in Sides : SideInv(out, t) /\ LevelsOf(out, t) = LevelsOf(b, t)
       /\ \A t \in Sides, q \in Prices : t # s \/ q # p => out.levels[t][q] = b.levels[t][q]
       /\ out.levels[s][p].volume = VolumeWithout(b, id)
  BY <1>8, Zenon DEF Taken, TakenLevels
<1>12. ASSUME NEW t \in Sides, NEW q \in Prices, t # s \/ q # p
       PROVE  q \in LevelsOf(b, t) <=> OrdersAt(out, t, q) # {}
  <2>1. id \notin OrdersAt(b, t, q)
    BY <1>12 DEF OrdersAt
  <2>2. q \in LevelsOf(b, t) <=> OrdersAt(b, t, q) # {}
    BY DEF Present, BookInv
  <2> QED BY <1>9, <2>1, <2>2
<1>13. OrdersAt(out, s, p) = {} <=> out.levels[s][p].head = 0
  <2>1. IsFirst("sell", OrdersAt(out, s, p), out.levels[s][p].head)
    BY <1>9, <1>10 DEF PlaceInv
  <2>2. 0 \notin OrdersAt(out, s, p)
    BY <1>11 DEF OrdersAt, TypedBook
  <2> QED BY <2>1, <2>2, Zenon DEF IsFirst
<1> HIDE DEF o, s, p
<1>14. CASE out.levels[s][p].head = 0
  <2>1. c = RemoveLevel(out, s, p)
    BY <1>1, <1>14
  <2>2. Emptied(out, s, p, c) /\ SideInv(c, s)
    BY <1>10, <1>11, <2>1, LevelRemoved
  <2>3. /\ TypedBook(c) /\ c.orders = out.orders
        /\ \A t \in Sides \ {s} : c.levels[t] = out.levels[t] /\ c.best[t] = out.best[t]
        /\ LevelsOf(c, s) = LevelsOf(out, s) \ {p}
        /\ \A q \in Prices \ {p} : /\ c.levels[s][q].head = out.levels[s][q].head
                                   /\ c.levels[s][q].tail = out.levels[s][q].tail
                                   /\ c.levels[s][q].volume = out.levels[s][q].volume
        /\ c.levels[s][p] = EmptyLevel
    BY <2>2 DEF Emptied
  <2>4. ASSUME NEW t \in Sides PROVE SideInv(c, t) /\ (t # s => LevelsOf(c, t) = LevelsOf(b, t))
    <3>1. CASE t = s
      BY <2>2, <3>1
    <3>2. CASE t # s
      BY <1>11, <2>3, <3>2, SideSame
    <3> QED BY <3>1, <3>2
  <2>5. ASSUME NEW t \in Sides, NEW q \in Prices
        PROVE  OrdersAt(c, t, q) = OrdersAt(out, t, q)
    BY <2>3 DEF OrdersAt
  <2>6. OrdersAt(c, s, p) = {}
    BY <1>10, <1>13, <1>14, <2>5
  <2>7. NextOrder(c) = NextOrder(out) /\ PrevOrder(c) = PrevOrder(out)
    BY <2>3 DEF NextOrder, PrevOrder
  <2>8. ASSUME NEW t \in Sides, NEW q \in Prices PROVE PlaceInv(c, t, q)
    <3>1. CASE t = s /\ q = p
      <4>1. c.levels[s][p].head = 0 /\ c.levels[s][p].tail = 0
        BY <2>3 DEF EmptyLevel
      <4> QED BY <2>6, <3>1, <4>1 DEF PlaceInv, Linked, IsFirst
    <3>2. CASE t # s \/ q # p
      <4>1. c.levels[t][q].head = out.levels[t][q].head /\ c.levels[t][q].tail = out.levels[t][q].tail
        BY <2>3, <3>2
      <4>2. SamePlace(out, c, t, q)
        BY <2>5, <2>7, <4>1 DEF SamePlace
      <4> QED BY <1>9, <4>2, PlaceSame
    <3> QED BY <3>1, <3>2
  <2>9. ASSUME NEW t \in Sides, NEW q \in Prices PROVE q \in LevelsOf(c, t) <=> OrdersAt(c, t, q) # {}
    <3>1. CASE t = s /\ q = p
      BY <2>3, <2>6, <3>1
    <3>2. CASE t # s \/ q # p
      <4>1. q \in LevelsOf(c, t) <=> q \in LevelsOf(b, t)
        BY <1>11, <2>3, <2>4, <3>2
      <4> QED BY <1>12, <2>5, <3>2, <4>1
    <3> QED BY <3>1, <3>2
  <2>10. BookInv(c)
    BY <2>3, <2>4, <2>8, <2>9 DEF BookInv
  <2>11. DOMAIN c.orders = DOMAIN b.orders \ {id} /\ TakenOrders(b, id, c)
    BY <1>8, <1>11, <2>3 DEF TakenOrders
  <2>12. ASSUME NEW t \in Sides, NEW q \in Prices, t # s \/ q # p
         PROVE  c.levels[t][q].volume = b.levels[t][q].volume
    BY <1>11, <2>3, <2>12
  <2>13. c.levels[s][p].volume = 0
    BY <2>3 DEF EmptyLevel
  <2> QED BY <2>6, <2>10, <2>11, <2>12, <2>13 DEF Removed, c, o, s, p
<1>15. CASE out.levels[s][p].head # 0
  <2>1. c = out
    BY <1>1, <1>15
  <2>2. ASSUME NEW t \in Sides, NEW q \in Prices PROVE q \in LevelsOf(out, t) <=> OrdersAt(out, t, q) # {}
    <3>1. CASE t = s /\ q = p
      BY <1>10, <1>11, <1>13, <1>15, <3>1
    <3>2. CASE t # s \/ q # p
      BY <1>11, <1>12, <3>2
    <3> QED BY <3>1, <3>2
  <2>3. BookInv(out)
    BY <1>9, <1>11, <2>2 DEF BookInv
  <2>4. OrdersAt(out, s, p) # {}
    BY <1>13, <1>15
  <2> QED BY <1>8, <1>11, <2>1, <2>3, <2>4, Zenon DEF Removed, c, o, s, p
<1> QED BY <1>14, <1>15

-----------------------------------------------------------------------------
(* An order is filled                                                       *)

\* Book c is b with v units taken off order id and off its level.
Less(b, id, v, c) ==
    LET o == b.orders[id] IN
    /\ BookInv(c) /\ DOMAIN c.orders = DOMAIN b.orders
    /\ \A j \in DOMAIN b.orders :
         /\ c.orders[j].side = b.orders[j].side /\ c.orders[j].investor = b.orders[j].investor
         /\ c.orders[j].price = b.orders[j].price /\ c.orders[j].revocable = b.orders[j].revocable
         /\ c.orders[j].amount = IF j = id THEN o.amount - v ELSE b.orders[j].amount
         /\ c.orders[j].next = b.orders[j].next /\ c.orders[j].prev = b.orders[j].prev
    /\ \A t \in Sides, q \in Prices :
         t # o.side \/ q # o.price => c.levels[t][q].volume = b.levels[t][q].volume
    /\ c.levels[o.side][o.price].volume = b.levels[o.side][o.price].volume - v

FilledBy(b, id, v, c) ==
    LET o == b.orders[id] IN
    c = [b EXCEPT !.orders[id].amount = @ - v, !.levels[o.side][o.price].volume = @ - v]

LEMMA OrderLess ==
    ASSUME NEW b, NEW id, Present(b, id), NEW v \in Nat, v <= b.orders[id].amount, NEW c, FilledBy(b, id, v, c)
    PROVE  Less(b, id, v, c)
<1> DEFINE o == b.orders[id]
           s == o.side
           p == o.price
           n == o.amount - v
           w == b.levels[s][p].volume - v
           u == [o EXCEPT !.amount = n]
           m == [b EXCEPT !.orders[id] = u]
<1>1. /\ s \in Sides /\ p \in Prices /\ p \in LevelsOf(b, s) /\ TypedBook(b) /\ o \in OrderSet
      /\ id \in DOMAIN b.orders /\ \A t \in Sides : SideInv(b, t)
  BY OrderPresent DEF Present, BookInv
<1>2. n \in Nat /\ o.amount \in Nat
  BY <1>1 DEF OrderSet
<1>3. u \in OrderSet /\ u.amount = n /\ u.side = o.side /\ u.investor = o.investor /\ u.price = o.price
      /\ u.revocable = o.revocable /\ u.next = o.next /\ u.prev = o.prev
  BY <1>1, <1>2 DEF OrderSet
<1>4. c = [m EXCEPT !.levels[s][p].volume = w]
  <2>1. c = [[b EXCEPT !.orders[id].amount = n] EXCEPT !.levels[s][p].volume = w]
    BY DEF FilledBy
  <2>2. m = [b EXCEPT !.orders[id].amount = n]
    BY <1>1 DEF TypedBook
  <2> HIDE DEF m, n, w
  <2> QED BY <2>1, <2>2
<1> HIDE DEF u
<1>5. Rebooked(b, id, u, m)
  BY <1>1, OrderPut
<1> HIDE DEF m
<1>6. TypedBook(m) /\ DOMAIN m.orders = DOMAIN b.orders
  BY <1>1, <1>3, <1>5, OrderTyped
<1>7. /\ m.levels = b.levels /\ m.best = b.best
      /\ \A j \in DOMAIN b.orders : m.orders[j] = IF j = id THEN u ELSE b.orders[j]
  BY <1>5 DEF Rebooked
<1>8. w \in Int
  <2>1. b.levels[s][p] \in LevelSet
    BY <1>1 DEF TypedBook
  <2>2. b.levels[s][p].volume \in Int
    BY <2>1 DEF LevelSet
  <2> QED BY <2>2
<1> HIDE DEF o, s, p, n, w
<1>9. VolumePut(m, s, p, w, c)
  BY <1>1, <1>4, <1>6, <1>8, VolumeWritten
<1>10. Rewritten(m, s, p, c)
  BY <1>9 DEF VolumePut
<1>11. TypedBook(c) /\ c.orders = m.orders
  BY <1>10 DEF Rewritten
<1>12. \A t \in Sides : SideInv(m, t) /\ LevelsOf(m, t) = LevelsOf(b, t)
  BY <1>1, <1>7, SideSame
<1>13. \A t \in Sides : SideInv(c, t) /\ LevelsOf(c, t) = LevelsOf(b, t)
  BY <1>1, <1>10, <1>12, SideRewritten
<1>14. ASSUME NEW j \in DOMAIN b.orders
       PROVE  /\ c.orders[j].side = b.orders[j].side /\ c.orders[j].investor = b.orders[j].investor
              /\ c.orders[j].price = b.orders[j].price /\ c.orders[j].revocable = b.orders[j].revocable
              /\ c.orders[j].amount = IF j = id THEN n ELSE b.orders[j].amount
              /\ c.orders[j].next = b.orders[j].next /\ c.orders[j].prev = b.orders[j].prev
  <2>1. c.orders[j] = IF j = id THEN u ELSE b.orders[j]
    BY <1>7, <1>11
  <2> QED BY <1>3, <2>1 DEF o
<1>15. ASSUME NEW t \in Sides, NEW q \in Prices
       PROVE  /\ c.levels[t][q].head = b.levels[t][q].head /\ c.levels[t][q].tail = b.levels[t][q].tail
              /\ t # s \/ q # p => c.levels[t][q].volume = b.levels[t][q].volume
  <2>1. CASE t = s /\ q = p
    BY <1>7, <1>9, <2>1 DEF VolumePut
  <2>2. CASE t # s \/ q # p
    BY <1>7, <1>10, <2>2 DEF Rewritten
  <2> QED BY <2>1, <2>2
<1>16. c.levels[s][p].volume = w
  BY <1>9 DEF VolumePut
<1>17. ASSUME NEW t \in Sides, NEW q \in Prices
       PROVE  PlaceInv(c, t, q) /\ (q \in LevelsOf(c, t) <=> OrdersAt(c, t, q) # {})
  <2>1. PlaceInv(b, t, q) /\ (q \in LevelsOf(b, t) <=> OrdersAt(b, t, q) # {})
    BY DEF Present, BookInv
  <2>2. DOMAIN c.orders = DOMAIN b.orders
    BY <1>6, <1>11
  <2>3. OrdersAt(c, t, q) = OrdersAt(b, t, q)
    BY <1>14, <2>2 DEF OrdersAt
  <2>4. NextOrder(c) = NextOrder(b) /\ PrevOrder(c) = PrevOrder(b)
    BY <1>14, <2>2 DEF NextOrder, PrevOrder
  <2>5. SamePlace(b, c, t, q)
    BY <1>15, <2>3, <2>4 DEF SamePlace
  <2>6. PlaceInv(c, t, q)
    BY <2>1, <2>5, PlaceSame
  <2> QED BY <1>13, <2>1, <2>3, <2>6
<1>18. BookInv(c)
  BY <1>11, <1>13, <1>17 DEF BookInv
<1>19. DOMAIN c.orders = DOMAIN b.orders
  BY <1>6, <1>11
<1> QED BY <1>14, <1>15, <1>16, <1>18, <1>19, Zenon DEF Less, o, s, p, n, w

\* What filling an order leaves
Filled(b, id, v, c) ==
    \/ v = b.orders[id].amount /\ \E less : Less(b, id, v, less) /\ Removed(less, id, c)
    \/ v # b.orders[id].amount /\ Less(b, id, v, c)

LEMMA OrderFilled ==
    ASSUME NEW b, NEW id, Present(b, id), NEW v \in Nat, v <= b.orders[id].amount
    PROVE  Filled(b, id, v, FillOrder(b, id, v))
<1> DEFINE o == b.orders[id]
           less == [b EXCEPT !.orders[id].amount = @ - v, !.levels[o.side][o.price].volume = @ - v]
           c == FillOrder(b, id, v)
<1>1. c = IF o.amount = v THEN RemoveOrder(less, id) ELSE less
  BY DEF FillOrder
<1>2. FilledBy(b, id, v, less)
  BY DEF FilledBy
<1> HIDE DEF c, less
<1>3. Less(b, id, v, less)
  BY <1>2, OrderLess
<1>4. Present(less, id)
  BY <1>3 DEF Less, Present
<1>5. CASE o.amount = v
  <2>1. Removed(less, id, c)
    BY <1>1, <1>4, <1>5, OrderRemoved
  <2> QED BY <1>3, <1>5, <2>1 DEF Filled, c
<1>6. CASE o.amount # v
  BY <1>1, <1>3, <1>6 DEF Filled, c
<1> QED BY <1>5, <1>6

-----------------------------------------------------------------------------
(* Books whose orders have numbers up to n and something left to trade      *)

\* The volume of a level is what its orders have left.
Amounts(b) == [id \in DOMAIN b.orders |-> b.orders[id].amount]
VolumeAt(b, s, p) == SumFunctionOnSet(Amounts(b), OrdersAt(b, s, p))
VolumesHold(b) == \A s \in Sides, p \in Prices : b.levels[s][p].volume = VolumeAt(b, s, p)

Kept(b, n) == /\ BookInv(b) /\ DOMAIN b.orders \subseteq 1 .. n
              /\ \A j \in DOMAIN b.orders : b.orders[j].amount > 0
              /\ VolumesHold(b)

\* The same, but that order id may have nothing left
KeptBut(b, n, id) == /\ BookInv(b) /\ DOMAIN b.orders \subseteq 1 .. n
                     /\ \A j \in DOMAIN b.orders \ {id} : b.orders[j].amount > 0
                     /\ VolumesHold(b)

Fresh(o) == o \in OrderSet /\ o.amount > 0 /\ o.next = 0 /\ o.prev = 0

LEMMA AmountsAt ==
    ASSUME NEW b, TypedBook(b), NEW n \in Nat, DOMAIN b.orders \subseteq 1 .. n, NEW s, NEW p
    PROVE  /\ IsFiniteSet(OrdersAt(b, s, p))
           /\ \A j \in OrdersAt(b, s, p) : Amounts(b)[j] = b.orders[j].amount /\ Amounts(b)[j] \in Nat
<1>1. IsFiniteSet(1 .. n) /\ OrdersAt(b, s, p) \subseteq 1 .. n
  BY FS_Interval DEF OrdersAt
<1>2. \A j \in DOMAIN b.orders : b.orders[j] \in OrderSet
  BY DEF TypedBook
<1>3. \A j \in DOMAIN b.orders : b.orders[j].amount \in Nat
  BY <1>2 DEF OrderSet
<1> QED BY <1>1, <1>3, FS_Subset DEF Amounts, OrdersAt

\* Books b and c have the same orders at a place, with the same amounts.
AsBefore(b, c, s, p) ==
    /\ OrdersAt(c, s, p) = OrdersAt(b, s, p)
    /\ \A j \in OrdersAt(b, s, p) : c.orders[j].amount = b.orders[j].amount
\* The orders of c are some of those of b, by the same investors at the same places.
SomeOf(b, c) ==
    /\ DOMAIN c.orders \subseteq DOMAIN b.orders
    /\ \A j \in DOMAIN c.orders : /\ c.orders[j].investor = b.orders[j].investor
                                  /\ c.orders[j].side = b.orders[j].side /\ c.orders[j].price = b.orders[j].price
\* The orders of c are those of b but for id.
Without(b, c, id) == \A t, q : OrdersAt(c, t, q) = OrdersAt(b, t, q) \ {id}

LEMMA VolumeSame ==
    ASSUME NEW b, NEW c, NEW n \in Nat, TypedBook(b), DOMAIN b.orders \subseteq 1 .. n,
           NEW s, NEW p, AsBefore(b, c, s, p)
    PROVE  VolumeAt(c, s, p) = VolumeAt(b, s, p)
<1> DEFINE S == OrdersAt(b, s, p)
<1>1. IsFiniteSet(S) /\ \A j \in S : Amounts(b)[j] = b.orders[j].amount
  BY AmountsAt
<1>2. \A j \in S : Amounts(c)[j] = c.orders[j].amount
  <2>1. S \subseteq DOMAIN c.orders
    BY DEF OrdersAt, AsBefore
  <2> QED BY <2>1 DEF Amounts
<1>3. \A j \in S : Amounts(c)[j] = Amounts(b)[j]
  BY <1>1, <1>2 DEF AsBefore
<1> HIDE DEF S
<1>4. SumFunctionOnSet(Amounts(c), S) = SumFunctionOnSet(Amounts(b), S)
  BY <1>1, <1>3, SumSame
<1> QED BY <1>4 DEF VolumeAt, S, AsBefore

LEMMA VolumesRested ==
    ASSUME NEW b, NEW n \in Nat, Kept(b, n), NEW id \in Nat, id > n, NEW o, Fresh(o), NEW c,
           RestedLevels(b, id, o, c), RestedOrders(b, id, o, c)
    PROVE  VolumesHold(c)
<1> DEFINE s == o.side
           p == o.price
           S == OrdersAt(b, s, p)
<1>1. /\ TypedBook(b) /\ TypedBook(c) /\ DOMAIN b.orders \subseteq 1 .. n /\ id \notin DOMAIN b.orders
      /\ DOMAIN c.orders = DOMAIN b.orders \cup {id} /\ s \in Sides /\ p \in Prices /\ o.amount \in Nat
  BY DEF Kept, BookInv, RestedLevels, RestedOrders, Fresh, OrderSet
<1>2. DOMAIN c.orders \subseteq 1 .. id
  BY <1>1
<1>3. /\ \A j \in DOMAIN b.orders : SameEntry(c.orders[j], b.orders[j])
      /\ SameEntry(c.orders[id], o)
  BY DEF RestedOrders
<1>4. /\ \A j \in DOMAIN b.orders : /\ c.orders[j].side = b.orders[j].side /\ c.orders[j].price = b.orders[j].price
                                    /\ c.orders[j].amount = b.orders[j].amount
      /\ c.orders[id].side = s /\ c.orders[id].price = p /\ c.orders[id].amount = o.amount
  BY <1>3 DEF SameEntry
<1>5. ASSUME NEW t \in Sides, NEW q \in Prices, t # s \/ q # p PROVE c.levels[t][q].volume = VolumeAt(c, t, q)
  <2>1. c.levels[t][q].volume = b.levels[t][q].volume
    BY <1>5 DEF RestedLevels
  <2>2. OrdersAt(c, t, q) = OrdersAt(b, t, q)
    BY <1>1, <1>4, <1>5 DEF OrdersAt
  <2>3. \A j \in OrdersAt(b, t, q) : c.orders[j].amount = b.orders[j].amount
    BY <1>4 DEF OrdersAt
  <2>4. TypedBook(b) /\ DOMAIN b.orders \subseteq 1 .. n
    BY <1>1
  <2>5. AsBefore(b, c, t, q)
    BY <2>2, <2>3 DEF AsBefore
  <2>6. VolumeAt(c, t, q) = VolumeAt(b, t, q)
    BY <2>4, <2>5, VolumeSame
  <2> QED BY <2>1, <2>6 DEF Kept, VolumesHold
<1>6. c.levels[s][p].volume = VolumeAt(c, s, p)
  <2>1. c.levels[s][p].volume = b.levels[s][p].volume + o.amount
    BY DEF RestedLevels
  <2>2. b.levels[s][p].volume = SumFunctionOnSet(Amounts(b), S)
    BY <1>1 DEF Kept, VolumesHold, VolumeAt
  <2>3. OrdersAt(c, s, p) = S \cup {id} /\ id \notin S
    BY <1>1, <1>4 DEF OrdersAt
  <2>4. IsFiniteSet(S) /\ \A j \in S : Amounts(b)[j] = b.orders[j].amount /\ Amounts(b)[j] \in Nat
    BY <1>1, AmountsAt
  <2>5. /\ IsFiniteSet(S \cup {id})
        /\ \A j \in S \cup {id} : Amounts(c)[j] = c.orders[j].amount /\ Amounts(c)[j] \in Nat
    <3>1. /\ IsFiniteSet(OrdersAt(c, s, p))
          /\ \A j \in OrdersAt(c, s, p) : Amounts(c)[j] = c.orders[j].amount /\ Amounts(c)[j] \in Nat
      BY <1>1, <1>2, AmountsAt
    <3> QED BY <2>3, <3>1
  <2>6. \A j \in S : Amounts(c)[j] = Amounts(b)[j]
    BY <1>4, <2>4, <2>5 DEF OrdersAt
  <2>7. Amounts(c)[id] = o.amount
    BY <1>4, <2>5
  <2> HIDE DEF S
  <2> DEFINE T == S \cup {id}
  <2>8. T \ {id} = S /\ id \in T
    BY <2>3
  <2>9. \A j \in T : Amounts(c)[j] \in Int
    BY <2>5
  <2>10. IsFiniteSet(T)
    BY <2>5
  <2> HIDE DEF T
  <2>11. SumFunctionOnSet(Amounts(c), T) = Amounts(c)[id] + SumFunctionOnSet(Amounts(c), S)
    BY <2>8, <2>9, <2>10, SumRemove
  <2>12. SumFunctionOnSet(Amounts(c), S) = SumFunctionOnSet(Amounts(b), S)
    BY <2>4, <2>6, SumSame
  <2>13. SumFunctionOnSet(Amounts(b), S) \in Int
    BY <2>4, SumInt
  <2>14. VolumeAt(c, s, p) = SumFunctionOnSet(Amounts(c), T)
    BY <2>3 DEF VolumeAt, T
  <2> QED BY <1>1, <2>1, <2>2, <2>7, <2>11, <2>12, <2>13, <2>14
<1> QED BY <1>5, <1>6 DEF VolumesHold

LEMMA VolumesRemoved ==
    ASSUME NEW b, NEW n \in Nat, NEW id \in DOMAIN b.orders, KeptBut(b, n, id), NEW c, Removed(b, id, c),
           Without(b, c, id)
    PROVE  VolumesHold(c)
<1> DEFINE o == b.orders[id]
           s == o.side
           p == o.price
           S == OrdersAt(b, s, p)
<1>1. TypedBook(b) /\ DOMAIN b.orders \subseteq 1 .. n /\ DOMAIN c.orders = DOMAIN b.orders \ {id}
  BY DEF KeptBut, BookInv, Removed
<1>2. o \in OrderSet
  BY <1>1 DEF TypedBook
<1>3. s \in Sides /\ p \in Prices /\ o.amount \in Nat
  BY <1>2 DEF OrderSet
<1>4. \A j \in DOMAIN c.orders : SameEntry(c.orders[j], b.orders[j])
  BY <1>1 DEF Removed, TakenOrders
<1>5. \A j \in DOMAIN c.orders : c.orders[j].amount = b.orders[j].amount
  BY <1>4 DEF SameEntry
<1>6. ASSUME NEW t \in Sides, NEW q \in Prices, t # s \/ q # p PROVE c.levels[t][q].volume = VolumeAt(c, t, q)
  <2>1. c.levels[t][q].volume = b.levels[t][q].volume
    BY <1>6 DEF Removed
  <2>2. id \notin OrdersAt(b, t, q)
    BY <1>6 DEF OrdersAt
  <2>3. OrdersAt(c, t, q) = OrdersAt(b, t, q)
    BY <2>2 DEF Without
  <2>4. \A j \in OrdersAt(b, t, q) : c.orders[j].amount = b.orders[j].amount
    BY <1>1, <1>5, <2>2 DEF OrdersAt
  <2>5. VolumeAt(c, t, q) = VolumeAt(b, t, q)
    BY <1>1, <2>3, <2>4, VolumeSame DEF AsBefore
  <2> QED BY <2>1, <2>5 DEF KeptBut, VolumesHold
<1>7. c.levels[s][p].volume = VolumeAt(c, s, p)
  <2>1. b.levels[s][p].volume = SumFunctionOnSet(Amounts(b), S)
    BY <1>3 DEF KeptBut, VolumesHold, VolumeAt
  <2>2. id \in S /\ OrdersAt(c, s, p) = S \ {id}
    BY DEF OrdersAt, Without
  <2>3. IsFiniteSet(S) /\ \A j \in S : Amounts(b)[j] = b.orders[j].amount /\ Amounts(b)[j] \in Nat
    BY <1>1, AmountsAt
  <2>4. \A j \in S \ {id} : Amounts(c)[j] = Amounts(b)[j]
    BY <1>1, <1>5, <2>3 DEF Amounts, OrdersAt
  <2> HIDE DEF S
  <2> DEFINE T == S \ {id}
  <2>5. IsFiniteSet(T) /\ \A j \in T : Amounts(b)[j] \in Nat /\ Amounts(c)[j] = Amounts(b)[j]
    BY <2>3, <2>4, FS_RemoveElement
  <2>6. SumFunctionOnSet(Amounts(b), S) = Amounts(b)[id] + SumFunctionOnSet(Amounts(b), T)
    <3>1. \A j \in S : Amounts(b)[j] \in Int
      BY <2>3
    <3> QED BY <2>2, <2>3, <3>1, SumRemove
  <2> HIDE DEF T
  <2>7. SumFunctionOnSet(Amounts(b), T) \in Nat
    BY <2>5, SumNat
  <2>8. SumFunctionOnSet(Amounts(c), T) = SumFunctionOnSet(Amounts(b), T)
    BY <2>5, SumSame
  <2>9. Amounts(b)[id] = o.amount
    BY <2>2, <2>3
  <2>10. VolumeWithout(b, id) = SumFunctionOnSet(Amounts(b), T)
    <3> DEFINE x == b.levels[s][p].volume
    <3>1. x = o.amount + SumFunctionOnSet(Amounts(b), T)
      BY <2>1, <2>6, <2>9
    <3>2. VolumeWithout(b, id) = IF x >= o.amount THEN x - o.amount ELSE 0
      BY DEF VolumeWithout
    <3> HIDE DEF x
    <3> QED BY <1>3, <2>7, <3>1, <3>2
  <2>11. VolumeAt(c, s, p) = SumFunctionOnSet(Amounts(c), T)
    BY <2>2 DEF VolumeAt, T
  <2>12. CASE T = {}
    <3>1. c.levels[s][p].volume = 0
      BY <2>2, <2>12 DEF Removed, T
    <3>2. SumFunctionOnSet(Amounts(c), T) = 0
      BY <2>12, SumEmpty
    <3> QED BY <2>11, <3>1, <3>2
  <2>13. CASE T # {}
    <3>1. c.levels[s][p].volume = VolumeWithout(b, id)
      BY <2>2, <2>13 DEF Removed, T
    <3> QED BY <2>8, <2>10, <2>11, <3>1
  <2> QED BY <2>12, <2>13
<1> QED BY <1>6, <1>7 DEF VolumesHold

LEMMA VolumesLess ==
    ASSUME NEW b, NEW n \in Nat, Kept(b, n), NEW id \in DOMAIN b.orders, NEW v \in Nat, v <= b.orders[id].amount,
           NEW c, Less(b, id, v, c), \A t, q : OrdersAt(c, t, q) = OrdersAt(b, t, q)
    PROVE  VolumesHold(c)
<1> DEFINE o == b.orders[id]
           s == o.side
           p == o.price
           S == OrdersAt(b, s, p)
<1>1. TypedBook(b) /\ DOMAIN b.orders \subseteq 1 .. n /\ DOMAIN c.orders = DOMAIN b.orders /\ TypedBook(c)
  BY DEF Kept, BookInv, Less
<1>2. o \in OrderSet
  BY <1>1 DEF TypedBook
<1>3. s \in Sides /\ p \in Prices /\ o.amount \in Nat
  BY <1>2 DEF OrderSet
<1>4. \A j \in DOMAIN b.orders \ {id} : c.orders[j].amount = b.orders[j].amount
  BY DEF Less
<1>5. c.orders[id].amount = o.amount - v
  BY DEF Less
<1>6. ASSUME NEW t \in Sides, NEW q \in Prices, t # s \/ q # p PROVE c.levels[t][q].volume = VolumeAt(c, t, q)
  <2>1. c.levels[t][q].volume = b.levels[t][q].volume
    BY <1>6 DEF Less
  <2>2. id \notin OrdersAt(b, t, q)
    BY <1>6 DEF OrdersAt
  <2>3. \A j \in OrdersAt(b, t, q) : c.orders[j].amount = b.orders[j].amount
    BY <1>4, <2>2 DEF OrdersAt
  <2>4. VolumeAt(c, t, q) = VolumeAt(b, t, q)
    BY <1>1, <2>3, VolumeSame DEF AsBefore
  <2> QED BY <2>1, <2>4 DEF Kept, VolumesHold
<1>7. c.levels[s][p].volume = VolumeAt(c, s, p)
  <2>1. b.levels[s][p].volume = SumFunctionOnSet(Amounts(b), S)
    BY <1>3 DEF Kept, VolumesHold, VolumeAt
  <2>2. id \in S /\ OrdersAt(c, s, p) = S
    BY DEF OrdersAt
  <2>3. IsFiniteSet(S) /\ \A j \in S : Amounts(b)[j] = b.orders[j].amount /\ Amounts(b)[j] \in Nat
    BY <1>1, AmountsAt
  <2>4. \A j \in S : Amounts(c)[j] = c.orders[j].amount /\ Amounts(c)[j] \in Nat
    BY <1>1, <2>2, AmountsAt
  <2>5. \A j \in S \ {id} : Amounts(c)[j] = Amounts(b)[j]
    BY <1>4, <2>3, <2>4 DEF OrdersAt
  <2>6. Amounts(b)[id] = o.amount /\ Amounts(c)[id] = o.amount - v
    BY <1>5, <2>2, <2>3, <2>4
  <2>7. c.levels[s][p].volume = b.levels[s][p].volume - v
    BY Zenon DEF Less
  <2> HIDE DEF S
  <2>8. ChangedAt(Amounts(b), Amounts(c), S, id)
    BY <2>2, <2>3, <2>4, <2>5 DEF ChangedAt
  <2>9. SumFunctionOnSet(Amounts(c), S) = SumFunctionOnSet(Amounts(b), S) - Amounts(b)[id] + Amounts(c)[id]
    BY <2>8, SumChange
  <2>10. SumFunctionOnSet(Amounts(b), S) \in Int
    <3>1. \A j \in S : Amounts(b)[j] \in Int
      BY <2>3
    <3> QED BY <2>3, <3>1, SumInt
  <2>11. VolumeAt(c, s, p) = SumFunctionOnSet(Amounts(c), S)
    BY <2>2 DEF VolumeAt
  <2> QED BY <1>3, <2>1, <2>6, <2>7, <2>9, <2>10, <2>11
<1> QED BY <1>6, <1>7 DEF VolumesHold

LEMMA KeptRested ==
    ASSUME NEW b, NEW n \in Nat, Kept(b, n), NEW id \in Nat, id > n, NEW o, Fresh(o)
    PROVE  /\ Kept(RestOrder(b, id, o), id)
           /\ DOMAIN RestOrder(b, id, o).orders = DOMAIN b.orders \cup {id}
<1> DEFINE c == RestOrder(b, id, o)
<1>1. Storable(b, id, o)
  <2>1. id \in Nat \ {0} /\ \A j \in DOMAIN b.orders : j < id
    BY DEF Kept
  <2> QED BY <2>1 DEF Storable, Kept, Fresh
<1>2. BookInv(c)
  BY <1>1, BookRested
<1>3. RestedLevels(b, id, o, c) /\ RestedOrders(b, id, o, c)
  BY <1>1, OrderRested
<1> HIDE DEF c
<1>4. DOMAIN c.orders = DOMAIN b.orders \cup {id}
  BY <1>3 DEF RestedOrders
<1>5. DOMAIN c.orders \subseteq 1 .. id
  BY <1>4 DEF Kept
<1>6. ASSUME NEW j \in DOMAIN c.orders PROVE c.orders[j].amount > 0
  <2>1. CASE j = id
    <3>1. SameEntry(c.orders[id], o)
      BY <1>3 DEF RestedOrders
    <3> QED BY <2>1, <3>1 DEF SameEntry, Fresh
  <2>2. CASE j # id
    <3>1. j \in DOMAIN b.orders
      BY <1>4, <2>2
    <3>2. SameEntry(c.orders[j], b.orders[j])
      BY <1>3, <3>1 DEF RestedOrders
    <3> QED BY <3>1, <3>2 DEF SameEntry, Kept
  <2> QED BY <2>1, <2>2
<1>7. VolumesHold(c)
  BY <1>3, VolumesRested
<1> QED BY <1>2, <1>4, <1>5, <1>6, <1>7 DEF Kept, c

LEMMA NewOrderFresh ==
    ASSUME NEW s \in Sides, NEW i \in Investors, NEW p \in Prices, NEW a \in Nat \ {0}, NEW r \in BOOLEAN
    PROVE  Fresh(NewOrder(s, i, p, a, r))
<1> DEFINE o == NewOrder(s, i, p, a, r)
<1>1. o = [side |-> s, investor |-> i, price |-> p, amount |-> a, revocable |-> r, next |-> 0, prev |-> 0]
  BY DEF NewOrder
<1> HIDE DEF o
<1>2. o \in OrderSet /\ o.amount = a /\ o.next = 0 /\ o.prev = 0
  BY <1>1 DEF OrderSet
<1>3. Fresh(o)
  BY <1>2 DEF Fresh
<1> QED BY <1>3 DEF o

\* What a removed order leaves is the same but for the links.
LEMMA KeptRemoved ==
    ASSUME NEW b, NEW n \in Nat, NEW id \in DOMAIN b.orders, KeptBut(b, n, id), NEW c, Removed(b, id, c)
    PROVE  Kept(c, n) /\ Without(b, c, id) /\ SomeOf(b, c)
<1>1. BookInv(c) /\ DOMAIN c.orders = DOMAIN b.orders \ {id}
  BY DEF Removed
<1>2. \A j \in DOMAIN c.orders : SameEntry(c.orders[j], b.orders[j])
  BY <1>1 DEF Removed, TakenOrders
<1>3. \A j \in DOMAIN c.orders : c.orders[j].amount > 0
  BY <1>1, <1>2 DEF KeptBut, SameEntry
<1>4. Without(b, c, id)
  BY <1>1, <1>2 DEF OrdersAt, SameEntry, Without
<1>5. VolumesHold(c)
  BY <1>4, VolumesRemoved
<1>6. Kept(c, n)
  BY <1>1, <1>3, <1>5 DEF Kept, KeptBut
<1>7. SomeOf(b, c)
  BY <1>1, <1>2 DEF SomeOf, SameEntry
<1> QED BY <1>4, <1>6, <1>7

LEMMA KeptFilled ==
    ASSUME NEW b, NEW n \in Nat, Kept(b, n), NEW id \in DOMAIN b.orders, NEW v \in Nat, v <= b.orders[id].amount,
           NEW c, c = FillOrder(b, id, v)
    PROVE  /\ Kept(c, n)
           /\ SomeOf(b, c) /\ (v = b.orders[id].amount => id \notin DOMAIN c.orders)
           /\ \A t, q : OrdersAt(b, t, q) \ {id} \subseteq OrdersAt(c, t, q)
<1>1. Present(b, id)
  BY DEF Present, Kept
<1>2. Filled(b, id, v, c)
  BY <1>1, OrderFilled
<1>3. b.orders[id].amount \in Nat
  BY <1>1, OrderPresent DEF OrderSet
<1>4. ASSUME NEW less, Less(b, id, v, less)
      PROVE  /\ BookInv(less) /\ DOMAIN less.orders \subseteq 1 .. n /\ DOMAIN less.orders = DOMAIN b.orders
             /\ \A j \in DOMAIN less.orders \ {id} : less.orders[j].amount > 0
             /\ less.orders[id].amount = b.orders[id].amount - v
             /\ \A t, q : OrdersAt(less, t, q) = OrdersAt(b, t, q)
             /\ VolumesHold(less) /\ SomeOf(b, less)
  <2>1. BookInv(less) /\ DOMAIN less.orders = DOMAIN b.orders
    BY <1>4, Zenon DEF Less
  <2>2. \A j \in DOMAIN b.orders :
          /\ less.orders[j].side = b.orders[j].side /\ less.orders[j].price = b.orders[j].price
          /\ less.orders[j].amount = IF j = id THEN b.orders[id].amount - v ELSE b.orders[j].amount
    BY <1>4 DEF Less
  <2>3. \A j \in DOMAIN less.orders \ {id} : less.orders[j].amount > 0
    BY <2>1, <2>2 DEF Kept
  <2>4. ASSUME NEW t, NEW q PROVE OrdersAt(less, t, q) = OrdersAt(b, t, q)
    BY <2>1, <2>2 DEF OrdersAt
  <2>5. less.orders[id].amount = b.orders[id].amount - v
    BY <2>2
  <2>6. VolumesHold(less)
    BY <1>4, <2>4, VolumesLess
  <2>7. SomeOf(b, less)
    BY <1>4, Zenon DEF SomeOf, Less
  <2> QED BY <2>1, <2>3, <2>4, <2>5, <2>6, <2>7 DEF Kept
<1>5. CASE v = b.orders[id].amount
  <2>1. PICK less : Less(b, id, v, less) /\ Removed(less, id, c)
    BY <1>2, <1>5 DEF Filled
  <2>2. Kept(c, n) /\ Without(less, c, id) /\ SomeOf(less, c)
    <3>1. KeptBut(less, n, id)
      BY <1>4, <2>1 DEF KeptBut
    <3>2. id \in DOMAIN less.orders
      BY <1>4, <2>1
    <3>3. Removed(less, id, c)
      BY <2>1
    <3> QED BY <3>1, <3>2, <3>3, KeptRemoved
  <2>3. SomeOf(b, less)
    BY <1>4, <2>1
  <2>4. SomeOf(b, c)
    BY <2>2, <2>3 DEF SomeOf
  <2>5. id \notin DOMAIN c.orders
    BY <2>1 DEF Removed
  <2> QED BY <1>4, <2>1, <2>2, <2>4, <2>5 DEF Without
<1>6. CASE v # b.orders[id].amount
  <2>1. Less(b, id, v, c)
    BY <1>2, <1>6 DEF Filled
  <2>2. c.orders[id].amount > 0
    BY <1>3, <1>4, <1>6, <2>1
  <2>3. Kept(c, n)
    <3>1. BookInv(c) /\ DOMAIN c.orders \subseteq 1 .. n
          /\ \A j \in DOMAIN c.orders \ {id} : c.orders[j].amount > 0
      BY <1>4, <2>1
    <3>2. \A j \in DOMAIN c.orders : c.orders[j].amount > 0
      BY <2>2, <3>1
    <3> QED BY <1>4, <2>1, <3>1, <3>2 DEF Kept
  <2>4. \A t, q : OrdersAt(c, t, q) = OrdersAt(b, t, q)
    BY <1>4, <2>1
  <2>5. SomeOf(b, c)
    BY <1>4, <2>1
  <2> QED BY <1>6, <2>3, <2>4, <2>5
<1> QED BY <1>5, <1>6

-----------------------------------------------------------------------------
(* Issuing orders                                                           *)

\* r holds the book after each of the orders of c.
Offers(b, n, c, r) ==
    r = [k \in 0 .. c.count |->
            IF k = 0 THEN b
            ELSE RestOrder(r[k - 1], n + k, NewOrder("sell", c.investor, c.price, 1, FALSE))]

LEMMA OfferedLast ==
    ASSUME NEW b, NEW n, NEW c, NEW w, Offers(b, n, c, w)
    PROVE  \E r : Offers(b, n, c, r) /\ Offered(b, n, c) = r[c.count]
<1> DEFINE r == CHOOSE x : Offers(b, n, c, x)
<1>1. Offers(b, n, c, r)
  BY Zenon
<1>2. Offered(b, n, c) = r[c.count]
  BY Zenon DEF Offered, Offers
<1> QED BY <1>1, <1>2, Zenon

\* Of the numbers up to m for which a claim fails one is the first.
LEMMA FirstFailure ==
    ASSUME NEW m \in Nat, NEW F, F \subseteq 0 .. m, F # {}
    PROVE  \E k \in F : \A j \in F : k <= j
<1> DEFINE D == {0 - k : k \in F}
<1>1. D \subseteq Int /\ D # {}
  <2>1. \A k \in F : k \in Int
    OBVIOUS
  <2>2. PICK k \in F : TRUE
    OBVIOUS
  <2>3. 0 - k \in D
    BY <2>2
  <2> QED BY <2>1, <2>3
<1>2. IsFiniteSet(D)
  <2>1. D \subseteq (0 - m) .. 0
    OBVIOUS
  <2>2. IsFiniteSet((0 - m) .. 0)
    BY FS_Interval
  <2> QED BY <2>1, <2>2, FS_Subset
<1> HIDE DEF D
<1>3. Max(D) \in D /\ \A d \in D : d <= Max(D)
  BY <1>1, <1>2, MaxOfSet
<1>4. PICK k \in F : Max(D) = 0 - k
  BY <1>3 DEF D
<1>5. \A j \in F : 0 - j <= 0 - k
  BY <1>3, <1>4 DEF D
<1>6. \A j \in F : k <= j
  BY <1>5
<1> QED BY <1>6

LEMMA OffersExist ==
    ASSUME NEW b, NEW n, NEW c, c.count \in Nat
    PROVE  \E r : Offers(b, n, c, r)
<1> DEFINE Step(x, k) == RestOrder(x, n + k, NewOrder("sell", c.investor, c.price, 1, FALSE))
           Upto(m, r) == r = [k \in 0 .. m |-> IF k = 0 THEN b ELSE Step(r[k - 1], k)]
           F == {m \in 0 .. c.count : ~\E r : Upto(m, r)}
<1> HIDE DEF Step
<1>1. F = {}
  <2> SUFFICES ASSUME F # {} PROVE FALSE
    OBVIOUS
  <2>1. PICK m \in F : \A j \in F : m <= j
    <3>1. F \subseteq 0 .. c.count
      OBVIOUS
    <3> HIDE DEF F
    <3> QED BY <3>1, FirstFailure
  <2>2. CASE m = 0
    <3> DEFINE r == [k \in 0 .. 0 |-> b]
    <3>1. r = [k \in 0 .. 0 |-> IF k = 0 THEN b ELSE Step(r[k - 1], k)]
      <4>1. \A k \in 0 .. 0 : k = 0
        OBVIOUS
      <4> QED BY <4>1
    <3>2. Upto(0, r)
      BY <3>1, Zenon
    <3>3. \E x : Upto(m, x)
      BY <2>2, <3>2, Zenon
    <3> QED BY <2>1, <3>3
  <2>3. CASE m # 0
    <3>1. m \in Nat /\ m - 1 \in 0 .. c.count /\ m - 1 \notin F
      <4>1. m \in 0 .. c.count
        BY <2>1
      <4> HIDE DEF F
      <4>2. m \in Nat /\ m - 1 \in 0 .. c.count /\ ~(m <= m - 1)
        BY <2>3, <4>1
      <4> QED BY <2>1, <4>2
    <3>2. PICK g : Upto(m - 1, g)
      BY <3>1
    <3> DEFINE r == [k \in 0 .. m |-> IF k = m THEN Step(g[m - 1], m) ELSE g[k]]
    <3>3. \A k \in 0 .. (m - 1) : g[k] = IF k = 0 THEN b ELSE Step(g[k - 1], k)
      BY <3>2
    <3>4. ASSUME NEW k \in 0 .. m PROVE r[k] = IF k = 0 THEN b ELSE Step(r[k - 1], k)
      <4>1. CASE k = m
        <5>1. r[k] = Step(g[m - 1], m) /\ r[k - 1] = g[m - 1]
          BY <2>3, <3>1, <4>1
        <5> QED BY <2>3, <4>1, <5>1
      <4>2. CASE k # m
        <5>1. k \in 0 .. (m - 1)
          BY <3>1, <4>2
        <5>2. k # 0 => r[k - 1] = g[k - 1]
          BY <3>1, <5>1
        <5> QED BY <3>3, <4>2, <5>1, <5>2
      <4> QED BY <4>1, <4>2
    <3>5. r = [k \in 0 .. m |-> IF k = 0 THEN b ELSE Step(r[k - 1], k)]
      <4>1. r = [k \in 0 .. m |-> r[k]]
        OBVIOUS
      <4> HIDE DEF r
      <4> QED BY <3>4, <4>1
    <3>6. Upto(m, r)
      <4> HIDE DEF r
      <4> QED BY <3>5, Zenon
    <3>7. \E x : Upto(m, x)
      <4> HIDE DEF r
      <4> QED BY <3>6, Zenon
    <3> QED BY <2>1, <3>7
  <2> QED BY <2>2, <2>3
<1>2. \E r : Upto(c.count, r)
  BY <1>1
<1> QED BY <1>2, Zenon DEF Offers, Step

LEMMA OfferedKept ==
    ASSUME NEW b, NEW n \in Nat, Kept(b, n), NEW c \in Issuances
    PROVE  /\ Kept(Offered(b, n, c), n + c.count)
           /\ DOMAIN b.orders \subseteq DOMAIN Offered(b, n, c).orders
<1> DEFINE o == NewOrder("sell", c.investor, c.price, 1, FALSE)
<1>1. c.count \in Nat /\ c.investor \in Investors /\ c.price \in Prices
  BY OrderBookAssumption
<1>2. Fresh(o)
  <2>1. "sell" \in Sides /\ 1 \in Nat \ {0} /\ FALSE \in BOOLEAN
    BY DEF Sides
  <2> QED BY <1>1, <2>1, NewOrderFresh
<1>3. PICK r : Offers(b, n, c, r) /\ Offered(b, n, c) = r[c.count]
  BY <1>1, OffersExist, OfferedLast
<1>4. \A k \in 0 .. c.count : r[k] = IF k = 0 THEN b ELSE RestOrder(r[k - 1], n + k, o)
  BY <1>3 DEF Offers
<1> HIDE DEF o
<1> DEFINE Grown(k) == Kept(r[k], n + k) /\ DOMAIN b.orders \subseteq DOMAIN r[k].orders
           F == {k \in 0 .. c.count : ~Grown(k)}
<1>5. F = {}
  <2> SUFFICES ASSUME F # {} PROVE FALSE
    OBVIOUS
  <2>1. PICK m \in F : \A j \in F : m <= j
    <3>1. F \subseteq 0 .. c.count
      OBVIOUS
    <3> HIDE DEF F
    <3> QED BY <1>1, <3>1, FirstFailure
  <2>2. m # 0
    <3>1. Grown(0)
      BY <1>1, <1>4
    <3> QED BY <2>1, <3>1
  <2>3. m - 1 \in 0 .. c.count /\ Grown(m - 1) /\ m \in Nat
    BY <1>1, <2>1, <2>2
  <2>4. /\ Kept(RestOrder(r[m - 1], n + m, o), n + m)
        /\ DOMAIN r[m - 1].orders \subseteq DOMAIN RestOrder(r[m - 1], n + m, o).orders
    <3>1. n + (m - 1) \in Nat /\ n + m \in Nat /\ n + m > n + (m - 1)
      BY <2>2, <2>3
    <3> QED BY <1>2, <2>3, <3>1, KeptRested
  <2>5. r[m] = RestOrder(r[m - 1], n + m, o)
    BY <1>4, <2>1, <2>2
  <2>6. Grown(m)
    BY <2>3, <2>4, <2>5
  <2> QED BY <2>1, <2>6
<1>6. c.count \in 0 .. c.count
  BY <1>1
<1>7. Kept(r[c.count], n + c.count) /\ DOMAIN b.orders \subseteq DOMAIN r[c.count].orders
  BY <1>5, <1>6
<1> QED BY <1>3, <1>7
=============================================================================
