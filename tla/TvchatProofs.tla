---------------------------- MODULE TvchatProofs ----------------------------
(***************************************************************************)
(* tvchat, for any conversations, people, calls and lengths of the queues. *)
(*                                                                         *)
(* What the windows know (ChatSync!NothingIsMissed): the queue is numbered *)
(* without a hole, and applying what is newer than lastSeq to the model    *)
(* gives what the backend has.  The snapshot is read in pieces while the   *)
(* backend goes on, and events it has overtaken are applied once more.  So *)
(* of each piece - the account's state, which conversations there are,     *)
(* what is unread, the roles - it is said what a copy that agrees in that  *)
(* piece now will be, once the events queued are applied (FromNow); when   *)
(* the piece is read the model is such a copy.                             *)
(*                                                                         *)
(* The calls of talk (TalkCalls!CallsAgree, LogsAgree): the four records   *)
(* of a call are compared by its number.  Of the numbers the list has, of  *)
(* those that wait to be connected and of those that are, the invariant    *)
(* (TalkInv) says which talkd has a line of and what may still be on the   *)
(* wire of them, in which order; each handler is then what it does to the  *)
(* calls (CallPart) and what it does to the wire (WirePart).               *)
(***************************************************************************)
EXTENDS ChatSync, TalkCalls, ListProofs, FiniteSetTheorems, TLAPS

-----------------------------------------------------------------------------
(* The recursion of Applied.                                               *)

\* What the model is after each of a queue's events
Path(f, m, q, n) ==
    f = [i \in 0 .. n |-> IF i = 0 THEN m ELSE apply(f[i - 1], q[i])]

LEMMA PathStarts == ASSUME NEW m, NEW q PROVE \E f : Path(f, m, q, 0)
<1>1. Path([i \in {0} |-> m], m, q, 0)
  BY DEF Path
<1> QED BY <1>1

LEMMA PathGoesOn ==
    ASSUME NEW m, NEW q, NEW n \in Nat, NEW f, Path(f, m, q, n)
    PROVE  Path([i \in 0 .. n + 1 |-> IF i = n + 1 THEN apply(f[n], q[n + 1]) ELSE f[i]],
                m, q, n + 1)
<1> DEFINE g == [i \in 0 .. n + 1 |-> IF i = n + 1 THEN apply(f[n], q[n + 1]) ELSE f[i]]
<1>1. ASSUME NEW i \in 0 .. n + 1 PROVE g[i] = IF i = 0 THEN m ELSE apply(g[i - 1], q[i])
  BY DEF Path
<1> QED BY <1>1 DEF Path

LEMMA PathExists == ASSUME NEW m, NEW q PROVE \A n \in Nat : \E f : Path(f, m, q, n)
<1> DEFINE T == {n \in Nat : \E f : Path(f, m, q, n)}
<1>1. 0 \in T
  BY PathStarts
<1>2. ASSUME NEW n \in Nat, n \in T PROVE n + 1 \in T
  <2>1. PICK f : Path(f, m, q, n)
    BY <1>2
  <2>2. \E g : Path(g, m, q, n + 1)
    BY <2>1, PathGoesOn
  <2> QED BY <2>2
<1> HIDE DEF T
<1>3. \A n \in Nat : n \in T
  BY <1>1, <1>2, SetInduction
<1> QED BY <1>3 DEF T

LEMMA PathIsOne ==
    ASSUME NEW m, NEW q, NEW n \in Nat, NEW f, NEW g, Path(f, m, q, n), Path(g, m, q, n)
    PROVE  f = g
<1> DEFINE T == {i \in Nat : i <= n => f[i] = g[i]}
<1>1. 0 \in T
  BY DEF Path
<1>2. ASSUME NEW i \in Nat, i \in T PROVE i + 1 \in T
  BY <1>2 DEF Path
<1> HIDE DEF T
<1>3. \A i \in Nat : i \in T
  BY <1>1, <1>2, SetInduction
<1>4. \A i \in 0 .. n : f[i] = g[i]
  BY <1>3 DEF T
<1>5. DOMAIN f = 0 .. n /\ DOMAIN g = 0 .. n /\ f = [i \in DOMAIN f |-> f[i]]
      /\ g = [i \in DOMAIN g |-> g[i]]
  BY DEF Path
<1> QED BY <1>4, <1>5

LEMMA PathApplied ==
    ASSUME NEW m, NEW q, Len(q) \in Nat, NEW f, Path(f, m, q, Len(q))
    PROVE  Applied(m, q) = f[Len(q)]
<1>1. Path(CHOOSE g : Path(g, m, q, Len(q)), m, q, Len(q))
  BY PathExists
<1>2. Applied(m, q) = (CHOOSE g : Path(g, m, q, Len(q)))[Len(q)]
  BY DEF Applied, Path
<1> QED BY <1>1, <1>2, PathIsOne

\* No event changes nothing; one more is applied to what there was.
LEMMA AppliedNone == ASSUME NEW m PROVE Applied(m, <<>>) = m
<1>1. PICK f : Path(f, m, <<>>, 0)
  BY PathStarts
<1> QED BY <1>1, PathApplied DEF Path

LEMMA AppliedMore ==
    ASSUME NEW S, NEW m, NEW q \in Seq(S), NEW e \in S
    PROVE  Applied(m, Append(q, e)) = apply(Applied(m, q), e)
<1> DEFINE n == Len(q)
           z == Append(q, e)
<1>1. n \in Nat /\ Len(z) = n + 1 /\ z[n + 1] = e /\ \A i \in 1 .. n : z[i] = q[i]
  OBVIOUS
<1>2. PICK f : Path(f, m, q, n)
  BY <1>1, PathExists
<1>3. Path(f, m, z, n)
  <2>1. \A i \in 0 .. n : i # 0 => z[i] = q[i]
    BY <1>1
  <2> HIDE DEF z, n
  <2> QED BY <1>2, <2>1 DEF Path
<1> DEFINE g == [i \in 0 .. n + 1 |-> IF i = n + 1 THEN apply(f[n], z[n + 1]) ELSE f[i]]
<1>4. Path(g, m, z, n + 1)
  <2> HIDE DEF z
  <2> QED BY <1>1, <1>3, PathGoesOn
<1>5. g[n + 1] = apply(f[n], e)
  BY <1>1
<1>6. Applied(m, z) = g[n + 1]
  <2> HIDE DEF g, z, n
  <2> QED BY <1>1, <1>4, PathApplied
<1>7. Applied(m, q) = f[n]
  BY <1>1, <1>2, PathApplied
<1> QED BY <1>5, <1>6, <1>7

-----------------------------------------------------------------------------
(* One event on one model.                                                 *)

Models == [acct : {Off, On}, convs : UNION {[S -> Conv] : S \in SUBSET Convs}]
Event(e) ==
    /\ e.type \in {"state", "conv-new", "conv-gone", "unread", "role"}
    /\ e.type \in {"state", "role"} => e.n \in {Off, On}
    /\ e.type # "state" => e.conv \in Convs
    /\ e.type = "conv-new" => e.n = 0
    /\ e.type = "unread" => e.n \in 0 .. MaxUnread
Events == {e \in [seq : Nat, type : {"state", "conv-new", "conv-gone", "unread", "role"},
                   conv : Convs \cup {""}, n : Nat] : Event(e)}

In(m, c) == c \in DOMAIN m.convs

LEMMA ConvsOf ==
    ASSUME NEW m \in Models
    PROVE  /\ m.acct \in {Off, On} /\ DOMAIN m.convs \subseteq Convs
           /\ m.convs \in [DOMAIN m.convs -> Conv]
           /\ m = [acct |-> m.acct, convs |-> m.convs]
BY DEF Models

LEMMA ModelMade ==
    ASSUME NEW a \in {Off, On}, NEW S \in SUBSET Convs, NEW f \in [S -> Conv]
    PROVE  [acct |-> a, convs |-> f] \in Models
BY DEF Models

LEMMA ConvMade ==
    /\ \A u \in 0 .. MaxUnread, r \in {Off, On} : [unread |-> u, role |-> r] \in Conv
    /\ \A v \in Conv : /\ v.unread \in 0 .. MaxUnread /\ v.role \in {Off, On}
                       /\ v = [unread |-> v.unread, role |-> v.role]
BY DEF Conv

\* Two models of the same parts are the same.
LEMMA SameModel ==
    ASSUME NEW m \in Models, NEW k \in Models,
           m.acct = k.acct, DOMAIN m.convs = DOMAIN k.convs,
           \A c \in DOMAIN m.convs : /\ m.convs[c].unread = k.convs[c].unread
                                     /\ m.convs[c].role = k.convs[c].role
    PROVE  m = k
<1>1. \A c \in DOMAIN m.convs : m.convs[c] = k.convs[c]
  <2> TAKE c \in DOMAIN m.convs
  <2>1. m.convs[c] \in Conv /\ k.convs[c] \in Conv
    BY ConvsOf
  <2> QED BY <2>1, ConvMade
<1>2. m.convs = k.convs
  BY <1>1, ConvsOf
<1> QED BY <1>2, ConvsOf

\* What each kind of event does to each part.
Done(m, e, k) ==
    /\ k \in Models
    /\ k.acct = IF e.type = "state" THEN e.n ELSE m.acct
    /\ \A c \in Convs : c = e.conv /\ e.type = "conv-new" =>
         In(k, c) /\ k.convs[c].unread = 0 /\ k.convs[c].role = Off
    /\ \A c \in Convs : c = e.conv /\ e.type = "conv-gone" => ~In(k, c)
    /\ \A c \in Convs : ~(c = e.conv /\ e.type \in {"conv-new", "conv-gone"}) =>
         /\ In(k, c) <=> In(m, c)
         /\ In(k, c) => /\ k.convs[c].unread = IF c = e.conv /\ e.type = "unread" THEN e.n
                                               ELSE m.convs[c].unread
                        /\ k.convs[c].role = IF c = e.conv /\ e.type = "role" THEN e.n
                                             ELSE m.convs[c].role

LEMMA AppliedOne ==
    ASSUME NEW m \in Models, NEW e, Event(e), NEW k, k = apply(m, e)
    PROVE  Done(m, e, k)
<1> USE DEF Off, On
<1>0. /\ m.acct \in {Off, On} /\ DOMAIN m.convs \in SUBSET Convs
      /\ m.convs \in [DOMAIN m.convs -> Conv]
      /\ m = [acct |-> m.acct, convs |-> m.convs]
  BY ConvsOf
<1>1. CASE e.type = "state"
  <2>1. k = [acct |-> e.n, convs |-> m.convs]
    BY <1>0, <1>1 DEF apply
  <2>2. k \in Models
    BY <1>0, <1>1, <2>1, ModelMade DEF Event
  <2> QED BY <1>1, <2>1, <2>2 DEF Done, In
<1>2. CASE e.type = "conv-new"
  <2> DEFINE f == [c \in DOMAIN m.convs \cup {e.conv} |->
                     IF c = e.conv THEN [unread |-> 0, role |-> Off] ELSE m.convs[c]]
  <2>1. e.conv \in Convs /\ e.n = 0
    BY <1>2 DEF Event
  <2>2. [unread |-> 0, role |-> Off] \in Conv
    BY ConstantsOK DEF Conv
  <2>3. k = [acct |-> m.acct, convs |-> f]
    BY <1>0, <1>2, <2>1 DEF apply, With
  <2>4. f \in [DOMAIN m.convs \cup {e.conv} -> Conv]
    BY <1>0, <2>2
  <2>5. k \in Models
    BY <1>0, <2>1, <2>3, <2>4, ModelMade
  <2> QED BY <1>2, <2>1, <2>3, <2>5 DEF Done, In
<1>3. CASE e.type = "conv-gone"
  <2> DEFINE f == [c \in DOMAIN m.convs \ {e.conv} |-> m.convs[c]]
  <2>1. k = [acct |-> m.acct, convs |-> f]
    BY <1>0, <1>3 DEF apply, Restrict
  <2>2. f \in [DOMAIN m.convs \ {e.conv} -> Conv]
    BY <1>0
  <2>3. k \in Models
    BY <1>0, <2>1, <2>2, ModelMade
  <2> QED BY <1>3, <2>1, <2>3 DEF Done, In
<1>4. CASE e.type \in {"unread", "role"} /\ ~In(m, e.conv)
  <2>1. k = m
    BY <1>4 DEF apply, In
  <2> QED BY <1>0, <1>4, <2>1 DEF Done, In
<1>5. CASE e.type = "unread" /\ In(m, e.conv)
  <2> DEFINE v == [unread |-> e.n, role |-> m.convs[e.conv].role]
             f == [c \in DOMAIN m.convs |-> IF c = e.conv THEN v ELSE m.convs[c]]
  <2>1. e.conv \in DOMAIN m.convs /\ m.convs[e.conv] \in Conv /\ e.n \in 0 .. MaxUnread
    BY <1>0, <1>5 DEF Event, In
  <2>2. m.convs[e.conv] = [unread |-> m.convs[e.conv].unread, role |-> m.convs[e.conv].role]
        /\ v \in Conv
    BY <2>1, ConvMade
  <2>3. k = [m EXCEPT !.convs[e.conv]["unread"] = e.n]
    BY <1>5 DEF apply, In
  <2>4. k = [acct |-> m.acct, convs |-> f]
    BY <1>0, <2>1, <2>2, <2>3
  <2>5. f \in [DOMAIN m.convs -> Conv]
    BY <1>0, <2>2
  <2>6. k \in Models
    BY <1>0, <2>4, <2>5, ModelMade
  <2> QED BY <1>5, <2>1, <2>4, <2>6 DEF Done, In
<1>6. CASE e.type = "role" /\ In(m, e.conv)
  <2> DEFINE v == [unread |-> m.convs[e.conv].unread, role |-> e.n]
             f == [c \in DOMAIN m.convs |-> IF c = e.conv THEN v ELSE m.convs[c]]
  <2>1. e.conv \in DOMAIN m.convs /\ m.convs[e.conv] \in Conv /\ e.n \in {Off, On}
    BY <1>0, <1>6 DEF Event, In
  <2>2. m.convs[e.conv] = [unread |-> m.convs[e.conv].unread, role |-> m.convs[e.conv].role]
        /\ v \in Conv
    BY <2>1, ConvMade
  <2>3. k = [m EXCEPT !.convs[e.conv]["role"] = e.n]
    BY <1>6 DEF apply, In
  <2>4. k = [acct |-> m.acct, convs |-> f]
    BY <1>0, <2>1, <2>2, <2>3
  <2>5. f \in [DOMAIN m.convs -> Conv]
    BY <1>0, <2>2
  <2>6. k \in Models
    BY <1>0, <2>4, <2>5, ModelMade
  <2> QED BY <1>6, <2>1, <2>4, <2>6 DEF Done, In
<1> QED BY <1>1, <1>2, <1>3, <1>4, <1>5, <1>6 DEF Event

-----------------------------------------------------------------------------
(* The queue.                                                              *)

\* Numbered without a hole up to s
Numbered(q, s) == \A i \in DOMAIN q : q[i].seq = s - (Len(q) - i)

\* How much of it is not newer than a
Old(q, s, a) == IF a - s + Len(q) < 0 THEN 0 ELSE a - s + Len(q)

LEMMA SubSeqGrows ==
    ASSUME NEW S, NEW q \in Seq(S), NEW n \in 0 .. Len(q), NEW i \in n + 1 .. Len(q)
    PROVE  SubSeq(q, n + 1, i) =
             Append(IF i = n + 1 THEN <<>> ELSE SubSeq(q, n + 1, i - 1), q[i])
<1> DEFINE u == SubSeq(q, n + 1, i)
           v == IF i = n + 1 THEN <<>> ELSE SubSeq(q, n + 1, i - 1)
<1>1. Len(q) \in Nat /\ n \in Nat /\ i \in Nat /\ i <= Len(q) /\ q[i] \in S
  OBVIOUS
<1>2. u \in Seq(S) /\ Len(u) = i - n /\ \A j \in 1 .. i - n : u[j] = q[n + j]
  BY <1>1
<1>3. v \in Seq(S) /\ Len(v) = i - n - 1 /\ \A j \in 1 .. i - n - 1 : v[j] = q[n + j]
  BY <1>1
<1> HIDE DEF u, v
<1>4. Append(v, q[i]) \in Seq(S) /\ Len(Append(v, q[i])) = i - n
  BY <1>1, <1>3
<1>5. \A j \in 1 .. i - n : u[j] = Append(v, q[i])[j]
  <2> TAKE j \in 1 .. i - n
  <2>1. CASE j = i - n
    BY <1>1, <1>2, <1>3, <2>1
  <2>2. CASE j # i - n
    BY <1>1, <1>2, <1>3, <2>2
  <2> QED BY <2>1, <2>2
<1>6. u = Append(v, q[i])
  BY <1>2, <1>4, <1>5, SeqEqual
<1> QED BY <1>6 DEF u, v

LEMMA NewerIs ==
    ASSUME NEW S, NEW q \in Seq(S), NEW s \in Nat, NEW a \in -1 .. s, Numbered(q, s)
    PROVE  /\ Old(q, s, a) \in 0 .. Len(q)
           /\ Newer(q, a) = SubSeq(q, Old(q, s, a) + 1, Len(q))
<1> DEFINE n == Old(q, s, a)
           g == [i \in 0 .. Len(q) |-> IF i <= n THEN <<>> ELSE SubSeq(q, n + 1, i)]
           C == {e \in Range(q) : e.seq > a}
<1>1. Len(q) \in Nat /\ DOMAIN q = 1 .. Len(q)
  OBVIOUS
<1>2. n \in 0 .. Len(q) /\ \A i \in 1 .. Len(q) : q[i] \in C <=> i > n
  <2>1. n \in 0 .. Len(q) /\ \A i \in 1 .. Len(q) : q[i].seq > a <=> i > n
    BY <1>1 DEF Numbered, Old
  <2>2. \A i \in 1 .. Len(q) : q[i] \in Range(q)
    BY <1>1 DEF Range
  <2> QED BY <2>1, <2>2
<1> HIDE DEF n, C
<1>3. ASSUME NEW i \in 0 .. Len(q)
      PROVE  g[i] = IF i = 0 THEN <<>>
                    ELSE IF q[i] \in C THEN Append(g[i - 1], q[i]) ELSE g[i - 1]
  <2>1. CASE i <= n
    BY <1>1, <1>2, <2>1
  <2>2. CASE i > n
    <3>1. i \in n + 1 .. Len(q) /\ i - 1 \in 0 .. Len(q) /\ (i - 1 <= n <=> i = n + 1)
      BY <1>1, <1>2, <2>2
    <3>2. g[i] = SubSeq(q, n + 1, i)
      BY <1>2, <2>2, <3>1
    <3>3. g[i - 1] = IF i = n + 1 THEN <<>> ELSE SubSeq(q, n + 1, i - 1)
      BY <3>1
    <3>4. g[i] = Append(g[i - 1], q[i])
      BY <1>2, <3>1, <3>2, <3>3, SubSeqGrows
    <3>5. i # 0 /\ q[i] \in C
      BY <1>1, <1>2, <2>2, <3>1
    <3> QED BY <3>4, <3>5
  <2>3. i \in Int /\ n \in Int
    BY <1>1, <1>2
  <2> QED BY <2>1, <2>2, <2>3
<1>4. Kept(g, q, C, Len(q))
  <2>1. g = [i \in 0 .. Len(q) |-> g[i]]
    OBVIOUS
  <2> HIDE DEF g
  <2> QED BY <1>3, <2>1 DEF Kept
<1>5. Newer(q, a) = Keep(q, C)
  BY DEF Newer, C
<1>6. Newer(q, a) = g[Len(q)]
  <2> HIDE DEF g
  <2> QED BY <1>1, <1>4, <1>5, KeepIsKept
<1>7. g[Len(q)] = SubSeq(q, n + 1, Len(q))
  BY <1>1, <1>2
<1> QED BY <1>2, <1>6, <1>7 DEF n

LEMMA NewerNone ==
    ASSUME NEW S, NEW q \in Seq(S), NEW s \in Nat, Numbered(q, s)
    PROVE  /\ Newest(q) \in -1 .. s
           /\ Newer(q, Newest(q)) = <<>>
           /\ Numbered(<<>>, s) /\ \A a \in -1 .. s : Newer(<<>>, a) = <<>>
<1>1. Numbered(<<>>, s)
  BY DEF Numbered
<1>2. \A a \in -1 .. s : Newer(<<>>, a) = <<>>
  <2> TAKE a \in -1 .. s
  <2>1. <<>> \in Seq(S)
    OBVIOUS
  <2>2. /\ Old(<<>>, s, a) \in 0 .. Len(<<>>)
        /\ Newer(<<>>, a) = SubSeq(<<>>, Old(<<>>, s, a) + 1, Len(<<>>))
    BY <1>1, <2>1, NewerIs
  <2> QED BY <2>2
<1>3. CASE q = <<>>
  BY <1>2, <1>3 DEF Newest
<1>4. CASE q # <<>>
  <2>1. Len(q) \in Nat /\ Len(q) > 0 /\ Len(q) \in DOMAIN q /\ Last(q) = q[Len(q)]
    BY <1>4 DEF Last
  <2>2. Newest(q) = s
    BY <1>4, <2>1 DEF Newest, Numbered
  <2>3. s \in -1 .. s
    OBVIOUS
  <2>4. Newer(q, s) = SubSeq(q, Old(q, s, s) + 1, Len(q))
    BY <2>3, NewerIs
  <2>5. Old(q, s, s) = Len(q)
    BY <2>1 DEF Old
  <2> QED BY <1>1, <1>2, <2>1, <2>2, <2>4, <2>5
<1> QED BY <1>1, <1>2, <1>3, <1>4

\* Acknowledged: what is kept is numbered
LEMMA Drained ==
    ASSUME NEW S, NEW q \in Seq(S), NEW s \in Nat, NEW a \in -1 .. s, Numbered(q, s)
    PROVE  /\ Newer(q, a) \in Seq(S) /\ Numbered(Newer(q, a), s)
           /\ Len(Newer(q, a)) <= Len(q)
<1> DEFINE n == Old(q, s, a)
           z == SubSeq(q, n + 1, Len(q))
<1>1. n \in 0 .. Len(q) /\ Newer(q, a) = z /\ Len(q) \in Nat
  BY NewerIs
<1> HIDE DEF n
<1>2. /\ z \in Seq(S) /\ DOMAIN z = 1 .. Len(q) - n /\ Len(z) = Len(q) - n
      /\ \A i \in 1 .. Len(q) - n : z[i] = q[i + n]
  BY <1>1
<1> HIDE DEF z
<1>3. Numbered(z, s)
  <2> SUFFICES ASSUME NEW i \in 1 .. Len(q) - n PROVE z[i].seq = s - (Len(z) - i)
    BY <1>2 DEF Numbered
  <2>1. i + n \in DOMAIN q /\ z[i] = q[i + n] /\ n \in Int
    BY <1>1, <1>2
  <2>2. q[i + n].seq = s - (Len(q) - (i + n))
    BY <2>1 DEF Numbered
  <2> QED BY <1>1, <1>2, <2>1, <2>2
<1> QED BY <1>1, <1>2, <1>3

\* A full queue loses its oldest.
LEMMA Pushed ==
    ASSUME NEW S, NEW q \in Seq(S), NEW s \in Nat, NEW a \in -1 .. s, Numbered(q, s),
           NEW e \in S, e.seq = s + 1, NEW full \in BOOLEAN, full => Len(q) > 0
    PROVE  LET w == Append(q, e)
               z == IF full THEN Tail(w) ELSE w
           IN  /\ z \in Seq(S) /\ Len(z) = IF full THEN Len(q) ELSE Len(q) + 1
               /\ Numbered(z, s + 1)
               /\ (full => Head(w).seq <= a) => Newer(z, a) = Append(Newer(q, a), e)
<1> DEFINE w == Append(q, e)
<1>1. /\ Len(q) \in Nat /\ w \in Seq(S) /\ Len(w) = Len(q) + 1 /\ w[Len(q) + 1] = e
      /\ \A i \in 1 .. Len(q) : w[i] = q[i]
  OBVIOUS
<1>2. Head(w) = w[1]
  OBVIOUS
<1>3. PICK d \in {0, 1} : d = 1 <=> full
  OBVIOUS
<1>0. PICK z : z = IF full THEN Tail(w) ELSE w
  OBVIOUS
<1> HIDE DEF w
<1>4. /\ z \in Seq(S) /\ Len(z) = Len(q) + 1 - d /\ DOMAIN z = 1 .. Len(q) + 1 - d
      /\ \A i \in 1 .. Len(q) + 1 - d : z[i] = w[i + d]
  <2>1. CASE full
    BY <1>1, <1>3, <1>0, <2>1
  <2>2. CASE ~full
    BY <1>1, <1>3, <1>0, <2>2
  <2> QED BY <2>1, <2>2
<1> DEFINE n == Old(q, s, a)
           k == Old(z, s + 1, a)
<1>5. Numbered(w, s + 1)
  <2> SUFFICES ASSUME NEW i \in DOMAIN w PROVE w[i].seq = s + 1 - (Len(w) - i)
    BY DEF Numbered
  <2>1. CASE i = Len(q) + 1
    BY <1>1, <2>1
  <2>2. CASE i \in 1 .. Len(q)
    <3>1. i \in DOMAIN q /\ w[i] = q[i]
      BY <1>1, <2>2
    <3>2. q[i].seq = s - (Len(q) - i)
      BY <3>1 DEF Numbered
    <3> QED BY <1>1, <2>2, <3>1, <3>2
  <2> QED BY <1>1, <2>1, <2>2
<1>6. Numbered(z, s + 1)
  <2>1. ASSUME NEW i \in DOMAIN z PROVE z[i].seq = s + 1 - (Len(z) - i)
    <3>1. i \in 1 .. Len(q) + 1 - d
      BY <1>4, <2>1
    <3>2. i + d \in 1 .. Len(w) /\ d \in Int /\ i \in Int
      BY <1>1, <1>3, <3>1
    <3>3. DOMAIN w = 1 .. Len(w)
      BY <1>1
    <3>4. w[i + d].seq = s + 1 - (Len(w) - (i + d))
      BY <1>5, <3>2, <3>3 DEF Numbered
    <3>5. z[i] = w[i + d]
      BY <1>4, <3>1
    <3>6. s + 1 - (Len(w) - (i + d)) = s + 1 - (Len(z) - i)
      BY <1>1, <1>4, <3>2
    <3> QED BY <3>4, <3>5, <3>6
  <2> QED BY ONLY <2>1 DEF Numbered
<1>7. ASSUME d = 1 => Head(w).seq <= a PROVE Newer(z, a) = Append(Newer(q, a), e)
  <2>1. /\ n \in 0 .. Len(q) /\ Newer(q, a) = SubSeq(q, n + 1, Len(q))
    BY NewerIs
  <2>2. /\ k \in 0 .. Len(z) /\ Newer(z, a) = SubSeq(z, k + 1, Len(z))
    <3>1. s + 1 \in Nat /\ a \in -1 .. s + 1
      OBVIOUS
    <3> QED BY <1>4, <1>6, <3>1, NewerIs
  <2>3. k = n - d
    <3>1. CASE d = 0
      BY <1>1, <1>4, <3>1 DEF Old
    <3>2. CASE d = 1
      <4>0. 1 \in DOMAIN w
        BY <1>1
      <4>1. Head(w).seq = s + 1 - Len(q)
        <5>1. w[1].seq = s + 1 - (Len(w) - 1)
          BY <1>5, <4>0 DEF Numbered
        <5> QED BY <1>1, <1>2, <5>1
      <4> QED BY <1>1, <1>3, <1>4, <1>7, <3>2, <4>1 DEF Old
    <3> QED BY <1>3, <3>1, <3>2
  <2> HIDE DEF k, n
  <2>4. /\ Len(Newer(q, a)) = Len(q) - n /\ Newer(q, a) \in Seq(S)
        /\ \A i \in 1 .. Len(q) - n : Newer(q, a)[i] = q[i + n]
    BY <1>1, <2>1
  <2>5. /\ Len(Newer(z, a)) = Len(q) + 1 - n /\ Newer(z, a) \in Seq(S)
        /\ \A i \in 1 .. Len(q) + 1 - n : Newer(z, a)[i] = w[i + n]
    <3>0. /\ Len(z) \in Nat /\ n \in Nat /\ k \in Nat /\ d \in Int /\ k <= Len(z)
      BY <1>1, <1>3, <1>4, <2>1, <2>2
    <3>1. /\ Len(z) \in Nat /\ k + 1 \in 1 .. Len(z) + 1 /\ k \in Nat /\ n \in Nat
          /\ Len(z) - k = Len(q) + 1 - n /\ d \in Int /\ k + d = n
      BY <1>1, <1>4, <2>3, <3>0
    <3>2. /\ SubSeq(z, k + 1, Len(z)) \in Seq(S)
          /\ Len(SubSeq(z, k + 1, Len(z))) = Len(z) - k
          /\ \A i \in 1 .. Len(z) - k : SubSeq(z, k + 1, Len(z))[i] = z[i + k]
      BY SMTT(20), <1>4, <3>1
    <3>3. ASSUME NEW i \in 1 .. Len(q) + 1 - n PROVE Newer(z, a)[i] = w[i + n]
      <4>1. i + k \in 1 .. Len(q) + 1 - d /\ (i + k) + d = i + n
        BY <1>1, <1>4, <3>1
      <4>2. z[i + k] = w[(i + k) + d]
        BY <1>4, <4>1
      <4> QED BY <2>2, <3>1, <3>2, <4>1, <4>2
    <3> QED BY <2>2, <3>1, <3>2, <3>3
  <2>6. \A i \in 1 .. Len(q) + 1 - n : Newer(z, a)[i] = Append(Newer(q, a), e)[i]
    <3> TAKE i \in 1 .. Len(q) + 1 - n
    <3>1. CASE i = Len(q) + 1 - n
      <4>1. i + n = Len(q) + 1 /\ Append(Newer(q, a), e)[i] = e
        BY <1>1, <2>1, <2>4, <3>1
      <4> QED BY <1>1, <2>5, <4>1
    <3>2. CASE i # Len(q) + 1 - n
      <4>0. n \in Nat /\ n <= Len(q) /\ Len(q) \in Nat
        BY <1>1, <2>1
      <4>1. i \in 1 .. Len(q) - n /\ i + n \in 1 .. Len(q)
        BY ONLY <3>2, <4>0, i \in 1 .. Len(q) + 1 - n
      <4>2. Append(Newer(q, a), e)[i] = Newer(q, a)[i]
        BY <2>4, <4>1
      <4> QED BY <1>1, <2>4, <2>5, <4>1, <4>2
    <3> QED BY <3>1, <3>2
  <2>7. Append(Newer(q, a), e) \in Seq(S) /\ Len(Append(Newer(q, a), e)) = Len(q) + 1 - n
    BY <1>1, <2>1, <2>4
  <2> QED BY <2>5, <2>6, <2>7, SeqEqual
<1>8. Len(z) = IF full THEN Len(q) ELSE Len(q) + 1
  BY <1>1, <1>3, <1>4
<1> QED BY <1>3, <1>0, <1>4, <1>6, <1>7, <1>8 DEF w

-----------------------------------------------------------------------------
(* The invariant.                                                          *)

LEMMA AppliedTyped ==
    ASSUME NEW m \in Models, NEW q \in Seq(Events)
    PROVE  Applied(m, q) \in Models
<1>1. PICK f : Path(f, m, q, Len(q))
  BY PathExists
<1> DEFINE T == {i \in Nat : i <= Len(q) => f[i] \in Models}
<1>2. 0 \in T
  BY <1>1 DEF Path
<1>3. ASSUME NEW i \in Nat, i \in T PROVE i + 1 \in T
  <2> SUFFICES ASSUME i + 1 <= Len(q) PROVE f[i + 1] \in Models
    OBVIOUS
  <2>1. f[i + 1] = apply(f[i], q[i + 1]) /\ f[i] \in Models /\ q[i + 1] \in Events
    BY <1>1, <1>3 DEF Path
  <2>2. Event(q[i + 1])
    BY <2>1 DEF Events
  <2> QED BY <2>1, <2>2, AppliedOne DEF Done
<1> HIDE DEF T
<1>4. \A i \in Nat : i \in T
  BY <1>2, <1>3, SetInduction
<1> QED BY <1>1, <1>4, PathApplied DEF T

\* What a copy m will be, once the events of q are applied, if it agrees
\* with t now: in the account's state, ...
AcctFrom(q, t, a) == \A m \in Models : m.acct = a => Applied(m, q).acct = t.acct

\* ... in whether there is a conversation, ...
HasFrom(q, t, c) ==
    \A m \in Models : (In(m, c) <=> In(t, c)) => (In(Applied(m, q), c) <=> In(t, c))

\* ... in what is unread there, ...
UnreadFrom(q, t, c) ==
    \A m \in Models : In(t, c) /\ In(m, c) /\ m.convs[c].unread = t.convs[c].unread =>
                        Applied(m, q).convs[c].unread = t.convs[c].unread

\* ... and in our role, whether or not it was there when the role was read.
RoleFrom(q, t, c) ==
    \A m \in Models : (In(m, c) /\ In(t, c) => m.convs[c].role = t.convs[c].role) =>
        (In(Applied(m, q), c) /\ In(t, c) => Applied(m, q).convs[c].role = t.convs[c].role)

\* Copies that differ in the roles at most; like k, to be like t.
Alike(m, k) ==
    /\ m.acct = k.acct /\ DOMAIN m.convs = DOMAIN k.convs
    /\ \A c \in DOMAIN m.convs : m.convs[c].unread = k.convs[c].unread
AlikeFrom(q, t, k) == \A m \in Models : Alike(m, k) => Alike(Applied(m, q), t)

\* What is said of q and t is said of z and u as well.
Follows(q, t, z, u) ==
    /\ AcctFrom(q, t, t.acct) => AcctFrom(z, u, u.acct)
    /\ \A a : AcctFrom(q, t, a) => AcctFrom(z, u, a)
    /\ \A c \in Convs : HasFrom(q, t, c) => HasFrom(z, u, c)
    /\ \A c \in Convs : HasFrom(q, t, c) /\ UnreadFrom(q, t, c) => UnreadFrom(z, u, c)
    /\ \A c \in Convs : RoleFrom(q, t, c) => RoleFrom(z, u, c)
    /\ \A k : AlikeFrom(q, t, k) => AlikeFrom(z, u, k)
    /\ \A m \in Models : Applied(m, q) = t => Applied(m, z) = u

\* An event on a conversation that is there: what the backend makes of it, a
\* copy that was to be as the backend was makes of it too.
LEMMA FromNow ==
    ASSUME NEW q \in Seq(Events), NEW t \in Models, NEW e \in Events,
           e.type \in {"unread", "role"} => In(t, e.conv), NEW u, u = apply(t, e), NEW z,
           z = Append(q, e)
    PROVE  u \in Models /\ Follows(q, t, z, u)
<1>1. Event(e) /\ Done(t, e, u) /\ u \in Models
  <2>1. Event(e)
    BY DEF Events
  <2>2. Done(t, e, u)
    BY <2>1, AppliedOne
  <2> QED BY <2>1, <2>2 DEF Done
<1>2. \A m \in Models : /\ Applied(m, q) \in Models /\ Applied(m, z) \in Models
                         /\ Applied(m, z) = apply(Applied(m, q), e)
                         /\ Done(Applied(m, q), e, Applied(m, z))
  <2> TAKE m \in Models
  <2>1. Applied(m, q) \in Models
    BY AppliedTyped
  <2>2. Applied(m, z) = apply(Applied(m, q), e)
    BY AppliedMore
  <2>3. Done(Applied(m, q), e, Applied(m, z))
    BY <1>1, <2>1, <2>2, AppliedOne
  <2> QED BY <2>1, <2>2, <2>3 DEF Done
<1>4. AcctFrom(q, t, t.acct) => AcctFrom(z, u, u.acct)
  BY <1>1, <1>2 DEF AcctFrom, Done
<1>5. \A a : AcctFrom(q, t, a) => AcctFrom(z, u, a)
  BY <1>1, <1>2 DEF AcctFrom, Done
<1>6. \A c \in Convs : HasFrom(q, t, c) => HasFrom(z, u, c)
  BY <1>1, <1>2 DEF HasFrom, Done
<1>7. \A c \in Convs : HasFrom(q, t, c) /\ UnreadFrom(q, t, c) => UnreadFrom(z, u, c)
  <2> SUFFICES ASSUME NEW c \in Convs, HasFrom(q, t, c), UnreadFrom(q, t, c),
                      NEW m \in Models,
                      In(u, c), In(m, c), m.convs[c].unread = u.convs[c].unread
               PROVE  Applied(m, z).convs[c].unread = u.convs[c].unread
    BY DEF UnreadFrom
  <2> DEFINE k == Applied(m, q)
  <2>0. Done(t, e, u) /\ Done(k, e, Applied(m, z))
    BY <1>1, <1>2
  <2>1. CASE c = e.conv /\ e.type = "conv-new"
    BY <2>0, <2>1 DEF Done
  <2>2. CASE ~(c = e.conv /\ e.type = "conv-new")
    <3>1. In(t, c) /\ ~(c = e.conv /\ e.type = "conv-gone")
      BY <2>0, <2>2 DEF Done
    <3>2. In(k, c)
      BY <3>1 DEF HasFrom
    <3>3. In(Applied(m, z), c)
      BY <2>0, <2>2, <3>1, <3>2 DEF Done
    <3>4. /\ u.convs[c].unread = IF c = e.conv /\ e.type = "unread" THEN e.n
                                 ELSE t.convs[c].unread
          /\ Applied(m, z).convs[c].unread = IF c = e.conv /\ e.type = "unread" THEN e.n
                                             ELSE k.convs[c].unread
      BY <2>0, <2>2, <3>1, <3>3 DEF Done
    <3>5. CASE c = e.conv /\ e.type = "unread"
      BY <3>4, <3>5
    <3>6. CASE ~(c = e.conv /\ e.type = "unread")
      BY <3>1, <3>4, <3>6 DEF UnreadFrom
    <3> QED BY <3>5, <3>6
  <2> QED BY <2>1, <2>2
<1>8. \A c \in Convs : RoleFrom(q, t, c) => RoleFrom(z, u, c)
  BY <1>1, <1>2 DEF RoleFrom, Done
<1>9. ASSUME NEW m \in Models, NEW k, Alike(m, k), Alike(Applied(m, q), t)
      PROVE  Alike(Applied(m, z), u)
  <2> DEFINE w == Applied(m, q)
             y == Applied(m, z)
  <2>0. Done(t, e, u) /\ Done(w, e, y) /\ w \in Models /\ y \in Models
    BY <1>1, <1>2
  <2>1. /\ w.acct = t.acct /\ DOMAIN w.convs = DOMAIN t.convs
        /\ \A c \in DOMAIN w.convs : w.convs[c].unread = t.convs[c].unread
    BY <1>9 DEF Alike
  <2> HIDE DEF w, y
  <2>2. y.acct = u.acct
    BY <2>0, <2>1 DEF Done
  <2>3. \A c \in Convs : /\ In(w, c) <=> In(t, c)
                         /\ In(w, c) => w.convs[c].unread = t.convs[c].unread
    BY <2>1 DEF In
  <2>4. \A c \in Convs : /\ In(y, c) <=> In(u, c)
                         /\ In(y, c) => y.convs[c].unread = u.convs[c].unread
    BY <2>0, <2>3 DEF Done
  <2>5. DOMAIN y.convs \subseteq Convs /\ DOMAIN u.convs \subseteq Convs
    BY <1>1, <2>0, ConvsOf
  <2>6. Alike(y, u)
    BY <2>2, <2>4, <2>5 DEF Alike, In
  <2> QED BY <2>6 DEF y
<1>10. \A k : AlikeFrom(q, t, k) => AlikeFrom(z, u, k)
  BY <1>9 DEF AlikeFrom
<1>11. \A m \in Models : Applied(m, q) = t => Applied(m, z) = u
  BY <1>2
<1> QED BY <1>1, <1>4, <1>5, <1>6, <1>7, <1>8, <1>10, <1>11 DEF Follows

\* Of a new snapshot, when nothing is queued: each piece is what it is.
LEMMA FromNothing ==
    ASSUME NEW t \in Models
    PROVE  /\ AcctFrom(<<>>, t, t.acct)
           /\ \A c \in Convs : HasFrom(<<>>, t, c) /\ UnreadFrom(<<>>, t, c)
                               /\ RoleFrom(<<>>, t, c)
BY AppliedNone DEF AcctFrom, HasFrom, UnreadFrom, RoleFrom

-----------------------------------------------------------------------------
(* The invariant, and the steps that keep it.                              *)

Types ==
    /\ truth \in Models /\ model \in Models
    /\ seq \in 0 .. MaxEvents /\ lastSeq \in -1 .. seq
    /\ items \in Seq(Events) /\ Len(items) <= EventCap /\ Numbered(items, seq)
    /\ alive \in BOOLEAN /\ givenUp \in BOOLEAN /\ isStarted \in BOOLEAN
    /\ generation \in 0 .. MaxStarts /\ gen \in 0 .. generation
    /\ pc \in Asking \cup {"idle", "poll"}
    /\ gap \in BOOLEAN /\ torn \in BOOLEAN

\* q is what is still to be applied: as far as the snapshot has come, ...
ReadSoFar(q) ==
    /\ pc = "accounts" => AcctFrom(q, truth, truth.acct)
    /\ pc = "convs" => AcctFrom(q, truth, model.acct)
    /\ pc \in {"accounts", "convs"} =>
          \A c \in Convs : HasFrom(q, truth, c) /\ UnreadFrom(q, truth, c)
    /\ pc \in {"accounts", "convs", "roles"} => \A c \in Convs : RoleFrom(q, truth, c)
    /\ pc = "roles" => /\ AlikeFrom(q, truth, model)
                       /\ \A c \in DOMAIN model.convs : model.convs[c].role = Off

\* ... and when it is all there, from the child that is there now
Whole(q) ==
    pc \in {"idle", "poll"} /\ isStarted /\ gen = generation => Applied(model, q) = truth

Told == ReadSoFar(Newer(items, lastSeq)) /\ Whole(Newer(items, lastSeq))
InStep == ~gap /\ ~torn => Told

IInv == Types /\ InStep

LEMMA Constants ==
    /\ MaxUnread \in Nat /\ MaxEvents \in Nat
    /\ EventCap \in Nat \ {0} /\ MaxStarts \in Nat \ {0}
BY ConstantsOK

LEMMA FreshModel == Fresh \in Models
<1>1. Nobody \in [{} -> Conv]
  BY DEF Nobody
<1> QED BY <1>1, ModelMade DEF Fresh, Off

\* The event Push(type, conv, n) makes
Made(e, type, conv, n) == e = [seq |-> seq + 1, type |-> type, conv |-> conv, n |-> n]

\* The backend changes, and pushes the event of it.
LEMMA PushKeeps ==
    ASSUME IInv, NEW type, NEW conv, NEW n, NEW e \in Events,
           Made(e, type, conv, n), type \in {"unread", "role"} => In(truth, conv),
           truth' = apply(truth, e), Push(type, conv, n)
    PROVE  IInv'
<1>1. /\ truth \in Models /\ model \in Models /\ items \in Seq(Events) /\ seq \in Nat
      /\ lastSeq \in -1 .. seq /\ Numbered(items, seq) /\ seq < MaxEvents /\ seq' = seq + 1
      /\ Len(items) \in Nat /\ Len(items) <= EventCap /\ e.seq = seq + 1 /\ e.type = type
        /\ e.conv = conv
  BY DEF IInv, Types, Push, Made
<1>2. PICK w : w = Append(items, e)
  OBVIOUS
<1>3. PICK full \in BOOLEAN : full <=> Len(w) > EventCap
  OBVIOUS
<1>4. /\ items' = IF full THEN Tail(w) ELSE w
      /\ gap' = (gap \/ (full /\ Head(w).seq > lastSeq))
      /\ UNCHANGED <<alive, generation, givenUp, pc, isStarted, lastSeq, gen, model, torn>>
  BY <1>1, <1>2, <1>3 DEF Push, client, Made
<1>5. /\ Len(w) = Len(items) + 1 /\ (full <=> Len(items) = EventCap)
      /\ full => Len(items) > 0
  BY <1>1, <1>2, <1>3, Constants
<1>6. Head(w).seq \in Int
  <2>1. CASE Len(items) = 0
    BY <1>1, <1>2, <2>1
  <2>2. CASE Len(items) # 0
    <3>1. 1 \in DOMAIN items /\ Head(w) = items[1]
      BY <1>1, <1>2, <2>2
    <3> QED BY <1>1, <3>1 DEF Numbered
  <2> QED BY <2>1, <2>2
<1>7. /\ items' \in Seq(Events) /\ Len(items') = IF full THEN Len(items) ELSE Len(items) + 1
      /\ Numbered(items', seq + 1)
      /\ (full => Head(w).seq <= lastSeq) =>
            Newer(items', lastSeq) = Append(Newer(items, lastSeq), e)
  <2>1. LET x == Append(items, e)
            z == IF full THEN Tail(x) ELSE x
        IN  /\ z \in Seq(Events) /\ Len(z) = IF full THEN Len(items) ELSE Len(items) + 1
            /\ Numbered(z, seq + 1)
            /\ (full => Head(x).seq <= lastSeq) =>
                  Newer(z, lastSeq) = Append(Newer(items, lastSeq), e)
    BY <1>1, <1>5, Pushed
  <2> QED BY <1>2, <1>4, <2>1
<1>8. PICK q : q = Newer(items, lastSeq)
  OBVIOUS
<1>9. q \in Seq(Events)
  BY <1>1, <1>8, Drained
<1>10. PICK z : z = Append(q, e)
  OBVIOUS
<1>11. truth' \in Models /\ Follows(q, truth, z, truth')
  <2>1. e.type \in {"unread", "role"} => In(truth, e.conv)
    BY <1>1
  <2>2. PICK u : u = apply(truth, e)
    OBVIOUS
  <2>3. u \in Models /\ Follows(q, truth, z, u)
    BY <1>1, <1>9, <1>10, <2>1, <2>2, FromNow
  <2> QED BY <2>2, <2>3
<1>12. Types'
  <2>1. seq' \in 0 .. MaxEvents /\ lastSeq' \in -1 .. seq' /\ Len(items') <= EventCap
    BY <1>1, <1>4, <1>5, <1>7, Constants
  <2>2. gap' \in BOOLEAN
    BY <1>4
  <2> QED BY <1>1, <1>4, <1>7, <1>11, <2>1, <2>2 DEF IInv, Types
<1>13. InStep'
  <2> SUFFICES ASSUME ~gap', ~torn' PROVE Told'
    BY DEF InStep
  <2>1. ~gap /\ ~torn /\ (full => Head(w).seq <= lastSeq)
    <3>1. torn' = torn
      BY <1>4
    <3>2. ~(gap \/ (full /\ Head(w).seq > lastSeq))
      BY <1>4
    <3>3. ~(Head(w).seq > lastSeq) => Head(w).seq <= lastSeq
      BY <1>1, <1>6
    <3> QED BY <3>1, <3>2, <3>3
  <2>2. Newer(items', lastSeq') = z
    BY <1>4, <1>7, <1>8, <1>10, <2>1
  <2>3. ReadSoFar(q) /\ Whole(q)
    BY <1>8, <2>1 DEF IInv, InStep, Told
  <2>4. ReadSoFar(Newer(items, lastSeq))'
    BY <1>4, <1>11, <2>2, <2>3 DEF ReadSoFar, Follows
  <2>5. Whole(Newer(items, lastSeq))'
    BY <1>1, <1>4, <1>11, <2>2, <2>3 DEF Whole, Follows
  <2> QED BY <2>4, <2>5 DEF Told
<1> QED BY <1>12, <1>13 DEF IInv

LEMMA MadeEvent ==
    ASSUME seq \in Nat, NEW type, NEW conv, NEW n \in Nat, NEW e, Made(e, type, conv, n),
           type \in {"state", "conv-new", "conv-gone", "unread", "role"},
           type \in {"state", "role"} => n \in {Off, On},
           conv \in Convs \/ (conv = "" /\ type = "state"),
           type = "conv-new" => n = 0, type = "unread" => n \in 0 .. MaxUnread
    PROVE  e \in Events
<1>1. /\ e = [seq |-> seq + 1, type |-> type, conv |-> conv, n |-> n]
      /\ e.type = type /\ e.conv = conv /\ e.n = n
  BY DEF Made
<1>2. Event(e)
  BY <1>1 DEF Event
<1>3. e \in [seq : Nat, type : {"state", "conv-new", "conv-gone", "unread", "role"},
             conv : Convs \cup {""}, n : Nat]
  <2>1. seq + 1 \in Nat
    BY ONLY seq \in Nat
  <2>2. [seq |-> seq + 1, type |-> type, conv |-> conv, n |-> n]
          \in [seq : Nat, type : {"state", "conv-new", "conv-gone", "unread", "role"},
               conv : Convs \cup {""}, n : Nat]
    BY <2>1, Zenon
  <2> QED BY <1>1, <2>2
<1> QED BY <1>2, <1>3 DEF Events

LEMMA BackendKeeps == ASSUME IInv, Backend PROVE IInv'
<1>1. /\ truth \in Models /\ seq \in Nat /\ seq + 1 \in Nat /\ MaxUnread \in Nat
      /\ truth = [acct |-> truth.acct, convs |-> truth.convs]
      /\ truth.acct \in {Off, On} /\ DOMAIN truth.convs \subseteq Convs
      /\ truth.convs \in [DOMAIN truth.convs -> Conv]
  BY Constants, ConvsOf DEF IInv, Types
<1>2. ASSUME NEW st \in {Off, On}, set_state(st) PROVE IInv'
  <2>1. PICK e : Made(e, "state", "", st)
    BY DEF Made
  <2>2. e \in Events
    BY <1>1, <2>1, MadeEvent DEF Off, On
  <2>3. truth' = apply(truth, e)
    BY <1>2, <2>1 DEF Made, set_state, apply
  <2> QED BY <1>2, <2>1, <2>2, <2>3, PushKeeps DEF set_state
<1>3. ASSUME NEW c \in Convs, ensure_conv(c) PROVE IInv'
  <2>1. PICK e : Made(e, "conv-new", c, 0)
    BY DEF Made
  <2>2. e \in Events
    BY <1>1, <2>1, MadeEvent
  <2>3. truth' = apply(truth, e)
    BY <1>3, <2>1 DEF Made, ensure_conv, apply
  <2> QED BY <1>3, <2>1, <2>2, <2>3, PushKeeps DEF ensure_conv
<1>4. ASSUME NEW c \in Convs, remove_conv(c) PROVE IInv'
  <2>1. PICK e : Made(e, "conv-gone", c, 0)
    BY DEF Made
  <2>2. e \in Events
    BY <1>1, <2>1, MadeEvent
  <2>3. truth' = apply(truth, e)
    BY <1>4, <2>1 DEF Made, remove_conv, apply
  <2> QED BY <1>4, <2>1, <2>2, <2>3, PushKeeps DEF remove_conv
<1>5. ASSUME NEW c \in Convs, add_message(c) PROVE IInv'
  <2>0. c \in DOMAIN truth.convs /\ truth.convs[c].unread \in 0 .. MaxUnread
        /\ truth.convs[c].unread < MaxUnread
    BY <1>1, <1>5, ConvMade DEF add_message
  <2>1. PICK e : Made(e, "unread", c, truth.convs[c].unread + 1)
    BY DEF Made
  <2>2. e \in Events
    <3>1. truth.convs[c].unread + 1 \in 0 .. MaxUnread
      BY <1>1, <2>0
    <3>2. truth.convs[c].unread + 1 \in Nat
      BY <3>1
    <3> QED BY <1>1, <2>1, <3>1, <3>2, MadeEvent
  <2>3. truth' = apply(truth, e)
    BY <1>5, <2>0, <2>1 DEF Made, add_message, Change, apply
  <2>4. In(truth, c)
    BY <2>0 DEF In
  <2> QED BY <1>5, <2>1, <2>2, <2>3, <2>4, PushKeeps DEF add_message
<1>6. ASSUME NEW c \in Convs, mark_read(c) PROVE IInv'
  <2>1. PICK e : Made(e, "unread", c, 0)
    BY DEF Made
  <2>2. e \in Events
    <3>1. 0 \in 0 .. MaxUnread /\ 0 \in Nat
      BY <1>1
    <3> QED BY <1>1, <2>1, <3>1, MadeEvent
  <2>3. truth' = apply(truth, e)
    BY <1>6, <2>1 DEF Made, mark_read, Change, apply
  <2>4. In(truth, c)
    BY <1>6 DEF In, mark_read
  <2> QED BY <1>6, <2>1, <2>2, <2>3, <2>4, PushKeeps DEF mark_read
<1>7. ASSUME NEW c \in Convs, NEW role \in {Off, On}, role_check(c, role) PROVE IInv'
  <2>1. PICK e : Made(e, "role", c, role)
    BY DEF Made
  <2>2. e \in Events
    BY <1>1, <2>1, MadeEvent DEF Off, On
  <2>3. truth' = apply(truth, e)
    BY <1>7, <2>1 DEF Made, role_check, Change, apply
  <2>4. In(truth, c)
    BY <1>7 DEF In, role_check
  <2> QED BY <1>7, <2>1, <2>2, <2>3, <2>4, PushKeeps DEF role_check
<1> QED BY <1>2, <1>3, <1>4, <1>5, <1>6, <1>7 DEF Backend

\* The child dies, or is given up: what was said remains.
LEMMA DeathKeeps == ASSUME IInv, Crash \/ GiveUp PROVE IInv'
<1>1. /\ UNCHANGED <<truth, seq, items, generation, client, gap, torn>>
      /\ alive' \in BOOLEAN /\ givenUp' \in BOOLEAN
  BY DEF Crash, GiveUp, IInv, Types
<1>2. Types'
  BY <1>1 DEF IInv, Types, client
<1>3. InStep'
  BY <1>1 DEF IInv, InStep, Told, ReadSoFar, Whole, client
<1> QED BY <1>2, <1>3 DEF IInv

\* A new child: what the client knows is of another, and a snapshot begun is
\* torn.
LEMMA NewChildMakes ==
    ASSUME IInv, NewChild
    PROVE  /\ truth' \in Models /\ seq' = seq /\ items' = <<>>
           /\ generation' = generation + 1
           /\ items' \in Seq(Events) /\ Numbered(items', seq) /\ Len(items') <= EventCap
           /\ alive' \in BOOLEAN /\ givenUp' \in BOOLEAN /\ generation' \in 0 .. MaxStarts
           /\ gen \in 0 .. generation' /\ gen # generation'
           /\ gap' = gap /\ torn' \in BOOLEAN
           /\ pc \in {"accounts", "convs", "roles"} => torn'
<1>1. /\ truth' = Fresh /\ seq' = seq /\ items' = <<>> /\ generation' = generation + 1
      /\ generation < MaxStarts /\ alive' = TRUE /\ givenUp' = givenUp /\ gap' = gap
      /\ torn' = (torn \/ pc \in Asking \ {"events"})
  BY DEF NewChild
<1>2. Numbered(<<>>, seq)
  BY DEF Numbered
<1>3. pc \in {"accounts", "convs", "roles"} => torn'
  BY <1>1 DEF Asking
<1>4. torn' \in BOOLEAN
  BY <1>1
<1> QED BY <1>1, <1>2, <1>3, <1>4, FreshModel, Constants DEF IInv, Types

LEMMA RespawnKeeps == ASSUME IInv, Respawn PROVE IInv'
<1>1. /\ truth' \in Models /\ seq' = seq /\ items' = <<>> /\ generation' = generation + 1
      /\ items' \in Seq(Events) /\ Numbered(items', seq) /\ Len(items') <= EventCap
      /\ alive' \in BOOLEAN /\ givenUp' \in BOOLEAN /\ generation' \in 0 .. MaxStarts
      /\ gen \in 0 .. generation' /\ gen # generation'
      /\ gap' = gap /\ torn' \in BOOLEAN
      /\ pc \in {"accounts", "convs", "roles"} => torn'
  BY NewChildMakes DEF Respawn
<1>2. UNCHANGED <<pc, isStarted, lastSeq, gen, model>>
  BY DEF Respawn, client
<1>3. Types'
  BY <1>1, <1>2 DEF IInv, Types
<1>4. InStep'
  BY <1>1, <1>2 DEF InStep, Told, ReadSoFar, Whole
<1> QED BY <1>3, <1>4 DEF IInv

\* Reading begins, or begins again: there is nothing to be said yet.
LEMMA StartKeeps == ASSUME IInv, start PROVE IInv'
<1>1. /\ pc' = "events" /\ lastSeq' = -1
      /\ UNCHANGED <<backend, isStarted, gen, model, gap, torn>>
  BY DEF start, Resync
<1>2. Types'
  BY <1>1 DEF IInv, Types, backend, Asking
<1>3. InStep'
  BY <1>1 DEF InStep, Told, ReadSoFar, Whole
<1> QED BY <1>2, <1>3 DEF IInv

LEMMA ReloadKeeps == ASSUME IInv, reload_config PROVE IInv'
<1>1. /\ pc' = "events" /\ lastSeq' = -1 /\ truth' = Fresh
      /\ UNCHANGED <<seq, items, alive, generation, givenUp, isStarted, gen, model, gap,
                     torn>>
  BY DEF reload_config, Resync
<1>2. Types'
  BY <1>1, FreshModel DEF IInv, Types, Asking
<1>3. InStep'
  BY <1>1 DEF InStep, Told, ReadSoFar, Whole
<1> QED BY <1>2, <1>3 DEF IInv

LEMMA PollKeeps == ASSUME IInv, poll PROVE IInv'
<1>1. /\ pc = "idle" /\ pc' = "poll"
      /\ UNCHANGED <<backend, isStarted, lastSeq, gen, model, gap, torn>>
  BY DEF poll
<1>2. Types'
  BY <1>1 DEF IInv, Types, backend
<1>3. InStep'
  BY <1>1 DEF IInv, InStep, Told, ReadSoFar, Whole, backend
<1> QED BY <1>2, <1>3 DEF IInv

\* The newest there was: nothing is queued after it.
LEMMA EventsKeeps == ASSUME IInv, EventsReply PROVE IInv'
<1>1. /\ pc' = "accounts" /\ lastSeq' = Newest(items)
      /\ UNCHANGED <<truth, seq, items, alive, generation, givenUp, isStarted, gen, model>>
      /\ gap' = FALSE /\ torn' = FALSE
  BY DEF EventsReply, backend
<1>2. /\ truth \in Models /\ items \in Seq(Events) /\ seq \in Nat /\ Numbered(items, seq)
  BY Constants DEF IInv, Types
<1>3. Newest(items) \in -1 .. seq /\ Newer(items, Newest(items)) = <<>>
  BY <1>2, NewerNone
<1>4. Types'
  BY <1>1, <1>3 DEF IInv, Types, Asking
<1>5. ReadSoFar(<<>>)'
  BY <1>1, <1>2, FromNothing DEF ReadSoFar
<1>6. Whole(<<>>)'
  BY <1>1 DEF Whole
<1>7. InStep'
  BY <1>1, <1>3, <1>5, <1>6 DEF InStep, Told
<1> QED BY <1>4, <1>7 DEF IInv

LEMMA AccountsKeeps == ASSUME IInv, AccountsReply PROVE IInv'
<1>1. /\ pc = "accounts" /\ pc' = "convs"
      /\ model' = [acct |-> truth.acct, convs |-> Nobody]
      /\ UNCHANGED <<truth, seq, items, alive, generation, givenUp, isStarted, lastSeq,
                     gen, gap, torn>>
  BY DEF AccountsReply, backend
<1>2. truth \in Models /\ model' \in Models
  <2>1. Nobody \in [{} -> Conv] /\ truth.acct \in {Off, On}
    BY ConvsOf DEF Nobody, IInv, Types
  <2> QED BY <1>1, <2>1, ModelMade DEF IInv, Types
<1>3. Types'
  BY <1>1, <1>2 DEF IInv, Types, Asking
<1>4. InStep'
  BY <1>1 DEF IInv, InStep, Told, ReadSoFar, Whole
<1> QED BY <1>3, <1>4 DEF IInv

\* Which conversations there are, and what is unread, is read: a copy that
\* differs from the model in the roles only agrees with both.
LEMMA ConvsKeeps == ASSUME IInv, ConvsReply PROVE IInv'
<1> DEFINE f == [c \in DOMAIN truth.convs |-> [truth.convs[c] EXCEPT !.role = Off]]
<1>1. /\ pc = "convs" /\ pc' = "roles" /\ model' = [model EXCEPT !.convs = f]
      /\ UNCHANGED <<truth, seq, items, alive, generation, givenUp, isStarted, lastSeq,
                     gen, gap, torn>>
  BY DEF ConvsReply, backend
<1>2. /\ truth \in Models /\ model \in Models /\ items \in Seq(Events) /\ seq \in Nat
      /\ Numbered(items, seq) /\ lastSeq \in -1 .. seq
  BY Constants DEF IInv, Types
<1>3. \A c \in DOMAIN truth.convs :
         f[c] = [unread |-> truth.convs[c].unread, role |-> Off] /\ f[c] \in Conv
  <2> TAKE c \in DOMAIN truth.convs
  <2>1. truth.convs[c] \in Conv
    BY <1>2, ConvsOf
  <2> QED BY <2>1, ConvMade
<1>4. f \in [DOMAIN truth.convs -> Conv]
  BY <1>3
<1> HIDE DEF f
<1>5. model' = [acct |-> model.acct, convs |-> f] /\ model.acct \in {Off, On}
  BY <1>1, <1>2, ConvsOf
<1>6. DOMAIN truth.convs \in SUBSET Convs
  BY <1>2, ConvsOf
<1>7. /\ model' \in Models /\ DOMAIN model'.convs = DOMAIN truth.convs
      /\ model'.acct = model.acct
      /\ \A c \in DOMAIN truth.convs : /\ model'.convs[c].unread = truth.convs[c].unread
                                       /\ model'.convs[c].role = Off
  <2>1. model' \in Models
    BY <1>4, <1>5, <1>6, ModelMade
  <2>2. model'.convs = f /\ model'.acct = model.acct /\ DOMAIN f = DOMAIN truth.convs
    BY <1>4, <1>5
  <2>3. ASSUME NEW c \in DOMAIN truth.convs
        PROVE  f[c].unread = truth.convs[c].unread /\ f[c].role = Off
    <3>1. f[c] = [unread |-> truth.convs[c].unread, role |-> Off]
      BY <1>3
    <3> QED BY <3>1
  <2> QED BY <2>1, <2>2, <2>3, Zenon
<1>8. Types'
  BY <1>1, <1>7 DEF IInv, Types, Asking
<1>9. PICK q : q = Newer(items, lastSeq)
  OBVIOUS
<1>10. q \in Seq(Events)
  BY <1>2, <1>9, Drained
<1>11. ASSUME ~gap, ~torn PROVE AlikeFrom(q, truth, model')
  <2>1. AcctFrom(q, truth, model.acct)
        /\ \A c \in Convs : HasFrom(q, truth, c) /\ UnreadFrom(q, truth, c)
    BY <1>1, <1>9, <1>11 DEF IInv, InStep, Told, ReadSoFar
  <2> SUFFICES ASSUME NEW m \in Models, Alike(m, model') PROVE Alike(Applied(m, q), truth)
    BY DEF AlikeFrom
  <2>2. /\ m.acct = model.acct /\ DOMAIN m.convs = DOMAIN truth.convs
        /\ \A c \in DOMAIN m.convs : m.convs[c].unread = truth.convs[c].unread
    BY <1>7 DEF Alike
  <2>3. PICK k : k = Applied(m, q)
    OBVIOUS
  <2>4. k \in Models
    BY <1>10, <2>3, AppliedTyped
  <2>5. k.acct = truth.acct
    BY <2>1, <2>2, <2>3 DEF AcctFrom
  <2>6. \A c \in Convs : In(k, c) <=> In(truth, c)
    BY <2>1, <2>2, <2>3 DEF HasFrom, In
  <2>7. \A c \in Convs : In(truth, c) => k.convs[c].unread = truth.convs[c].unread
    BY <2>1, <2>2, <2>3 DEF UnreadFrom, In
  <2>8. DOMAIN k.convs \subseteq Convs
    BY <2>4, ConvsOf
  <2>9. Alike(k, truth)
    BY <1>6, <2>5, <2>6, <2>7, <2>8 DEF Alike, In
  <2> QED BY <2>3, <2>9
<1>12. InStep'
  <2> SUFFICES ASSUME ~gap', ~torn' PROVE Told'
    BY DEF InStep
  <2>1. gap' = gap /\ torn' = torn
    BY <1>1
  <2>2. ~gap /\ ~torn
    BY <2>1
  <2>3. ReadSoFar(q)
    BY <1>9, <2>2 DEF IInv, InStep, Told
  <2>4. Newer(items', lastSeq') = q
    BY <1>1, <1>9
  <2>5. ReadSoFar(Newer(items, lastSeq))'
    BY <1>1, <1>7, <1>11, <2>2, <2>3, <2>4 DEF ReadSoFar
  <2>6. Whole(Newer(items, lastSeq))'
    BY <1>1 DEF Whole
  <2> QED BY <2>5, <2>6 DEF Told
<1> QED BY <1>8, <1>12 DEF IInv

\* The roles are read, and with them all that is there.
LEMMA RolesKeeps == ASSUME IInv, RolesReply PROVE IInv'
<1> DEFINE f == [c \in DOMAIN model.convs |->
                   IF c \in DOMAIN truth.convs /\ truth.convs[c].role # Off
                   THEN [model.convs[c] EXCEPT !.role = truth.convs[c].role]
                   ELSE model.convs[c]]
<1>1. /\ pc = "roles" /\ pc' = "idle" /\ model' = [model EXCEPT !.convs = f]
      /\ gen' = generation /\ isStarted' = TRUE
      /\ UNCHANGED <<truth, seq, items, alive, generation, givenUp, lastSeq, gap, torn>>
  BY DEF RolesReply, SyncDone, backend
<1>2. /\ truth \in Models /\ model \in Models /\ items \in Seq(Events) /\ seq \in Nat
      /\ Numbered(items, seq) /\ lastSeq \in -1 .. seq
  BY Constants DEF IInv, Types
<1>3. \A c \in DOMAIN model.convs :
         /\ f[c].unread = model.convs[c].unread
         /\ f[c].role = IF c \in DOMAIN truth.convs /\ truth.convs[c].role # Off
                        THEN truth.convs[c].role ELSE model.convs[c].role
         /\ f[c] \in Conv
  <2> TAKE c \in DOMAIN model.convs
  <2>1. model.convs[c] \in Conv
    BY <1>2, ConvsOf
  <2>2. c \in DOMAIN truth.convs => truth.convs[c] \in Conv
    BY <1>2, ConvsOf
  <2> QED BY <2>1, <2>2, ConvMade
<1>4. f \in [DOMAIN model.convs -> Conv]
  BY <1>3
<1>5. model' = [acct |-> model.acct, convs |-> f] /\ model.acct \in {Off, On}
      /\ DOMAIN model.convs \in SUBSET Convs
  BY SMTT(20), <1>1, <1>2, ConvsOf
<1> HIDE DEF f
<1>6. PICK k : k = model'
  OBVIOUS
<1>7. /\ k \in Models /\ DOMAIN k.convs = DOMAIN model.convs /\ k.acct = model.acct
      /\ k.convs = f
  BY <1>4, <1>5, <1>6, ModelMade
<1>8. Types'
  BY <1>1, <1>6, <1>7 DEF IInv, Types, Asking
<1>9. PICK q : q = Newer(items, lastSeq)
  OBVIOUS
<1>10. q \in Seq(Events)
  BY <1>2, <1>9, Drained
<1>11. ASSUME ~gap, ~torn PROVE Applied(k, q) = truth
  <2>1. /\ AlikeFrom(q, truth, model)
        /\ \A c \in DOMAIN model.convs : model.convs[c].role = Off
        /\ \A c \in Convs : RoleFrom(q, truth, c)
    BY <1>1, <1>9, <1>11 DEF IInv, InStep, Told, ReadSoFar
  <2>2. Alike(k, model)
    BY <1>3, <1>7 DEF Alike
  <2>3. PICK t : t = Applied(k, q)
    OBVIOUS
  <2>4. t \in Models
    BY <1>7, <1>10, <2>3, AppliedTyped
  <2>5. Alike(t, truth)
    BY <1>7, <2>1, <2>2, <2>3 DEF AlikeFrom
  <2>6. \A c \in Convs : In(k, c) /\ In(truth, c) => k.convs[c].role = truth.convs[c].role
    BY <1>3, <1>7, <2>1 DEF In
  <2>7. \A c \in Convs : In(t, c) /\ In(truth, c) => t.convs[c].role = truth.convs[c].role
    BY <1>7, <2>1, <2>3, <2>6 DEF RoleFrom
  <2>8. DOMAIN t.convs \subseteq Convs
    BY <2>4, ConvsOf
  <2>9. t = truth
    BY <1>2, <2>4, <2>5, <2>7, <2>8, SameModel DEF Alike, In
  <2> QED BY <2>3, <2>9
<1>12. InStep'
  <2> SUFFICES ASSUME ~gap', ~torn' PROVE Told'
    BY DEF InStep
  <2>1. gap' = gap /\ torn' = torn
    BY <1>1
  <2>2. Applied(k, q) = truth
    BY <1>11, <2>1
  <2>3. Newer(items', lastSeq') = q /\ model' = k
    BY <1>1, <1>6, <1>9
  <2>4. ReadSoFar(Newer(items, lastSeq))'
    BY <1>1 DEF ReadSoFar
  <2>5. Whole(Newer(items, lastSeq))'
    BY <1>1, <2>2, <2>3 DEF Whole
  <2> QED BY <2>4, <2>5 DEF Told
<1> QED BY <1>8, <1>12 DEF IInv

\* What was queued is applied, and acknowledged.
LEMMA PollReplyKeeps == ASSUME IInv, PollReply PROVE IInv'
<1>1. /\ pc = "poll" /\ items' = Newer(items, lastSeq)
      /\ UNCHANGED <<truth, seq, alive, generation, givenUp, isStarted, gap, torn>>
  BY DEF PollReply
<1>2. /\ truth \in Models /\ model \in Models /\ items \in Seq(Events) /\ seq \in Nat
      /\ Numbered(items, seq) /\ lastSeq \in -1 .. seq /\ Len(items) <= EventCap
  BY Constants DEF IInv, Types
<1>3. PICK q : q = Newer(items, lastSeq)
  OBVIOUS
<1>4. q \in Seq(Events) /\ Numbered(q, seq) /\ Len(q) <= EventCap
  <2>1. q \in Seq(Events) /\ Numbered(q, seq) /\ Len(q) <= Len(items)
    BY <1>2, <1>3, Drained
  <2> QED BY <1>2, <2>1, Constants
<1>5. CASE Resync
  <2>1. pc' = "events" /\ lastSeq' = -1 /\ UNCHANGED <<gen, model>>
    BY <1>5 DEF Resync
  <2>2. Types'
    BY <1>1, <1>3, <1>4, <2>1 DEF IInv, Types, Asking
  <2>3. InStep'
    BY <2>1 DEF InStep, Told, ReadSoFar, Whole
  <2> QED BY <2>2, <2>3 DEF IInv
<1>6. CASE ~Resync
  <2>1. /\ generation = gen /\ model' = Applied(model, q) /\ pc' = "idle" /\ gen' = gen
        /\ lastSeq' = IF q = <<>> THEN lastSeq ELSE Newest(q)
    BY <1>1, <1>3, <1>6 DEF PollReply
  <2>2. PICK k : k = Applied(model, q)
    OBVIOUS
  <2>3. k \in Models
    BY <1>2, <1>4, <2>2, AppliedTyped
  <2>4. /\ Newest(q) \in -1 .. seq /\ Newer(q, Newest(q)) = <<>>
        /\ \A a \in -1 .. seq : Newer(<<>>, a) = <<>>
    BY <1>2, <1>4, NewerNone
  <2>5. lastSeq' \in -1 .. seq /\ Newer(items', lastSeq') = <<>>
    <3>1. CASE q = <<>>
      BY <1>1, <1>2, <1>3, <2>1, <2>4, <3>1
    <3>2. CASE q # <<>>
      BY <1>1, <1>3, <2>1, <2>4, <3>2
    <3> QED BY <3>1, <3>2
  <2>6. Types'
    BY <1>1, <1>3, <1>4, <2>1, <2>2, <2>3, <2>5 DEF IInv, Types
  <2>7. InStep'
    <3> SUFFICES ASSUME ~gap', ~torn' PROVE Told'
      BY DEF InStep
    <3>1. gap' = gap /\ torn' = torn
      BY <1>1
    <3>2. Whole(q)
      BY <1>3, <3>1 DEF IInv, InStep, Told
    <3>3. isStarted => k = truth
      BY <1>1, <2>1, <2>2, <3>2 DEF Whole
    <3>4. Applied(k, <<>>) = k
      BY AppliedNone
    <3>5. ReadSoFar(Newer(items, lastSeq))'
      BY <2>1 DEF ReadSoFar
    <3>6. Whole(Newer(items, lastSeq))'
      BY <1>1, <2>1, <2>2, <2>5, <3>3, <3>4 DEF Whole
    <3> QED BY <3>5, <3>6 DEF Told
  <2> QED BY <2>6, <2>7 DEF IInv
<1> QED BY <1>5, <1>6

\* A request that fails leaves a snapshot that is torn, or none, or begins
\* another.
LEMMA NoReplyKeeps == ASSUME IInv, NoReply PROVE IInv'
<1>1. /\ pc' \in {"idle", "events", "roles"} /\ model' = model /\ lastSeq' \in {lastSeq, -1}
      /\ gen' \in {gen, generation} /\ isStarted' \in BOOLEAN
      /\ pc' = "roles" => pc = "convs"
      /\ pc' = "idle" => ~isStarted' \/ pc = "roles"
  <2>1. Unanswered
    BY DEF NoReply
  <2>2. isStarted \in BOOLEAN
    BY DEF IInv, Types
  <2> QED BY <2>1, <2>2 DEF Unanswered, SyncDone, Resync
<1>2. /\ truth' \in Models /\ seq' = seq /\ items' \in Seq(Events) /\ Numbered(items', seq)
      /\ Len(items') <= EventCap /\ alive' \in BOOLEAN /\ givenUp' \in BOOLEAN
      /\ generation' \in 0 .. MaxStarts /\ generation <= generation' /\ gap' = gap
      /\ torn' \in BOOLEAN
      /\ pc \in {"convs", "roles"} => torn'
  <2>1. CASE /\ givenUp /\ torn' = (torn \/ pc \in {"convs", "roles"})
             /\ UNCHANGED <<backend, gap>>
    <3>1. UNCHANGED <<truth, seq, items, alive, generation, givenUp, gap>>
      BY <2>1 DEF backend
    <3>2. torn' \in BOOLEAN /\ (pc \in {"convs", "roles"} => torn')
      BY <2>1
    <3> QED BY <3>1, <3>2 DEF IInv, Types
  <2>2. CASE NewChild
    BY <2>2, NewChildMakes DEF IInv, Types
  <2> QED BY <2>1, <2>2 DEF NoReply
<1>3. Types'
  <2>1. lastSeq' \in -1 .. seq /\ gen' \in 0 .. generation'
    BY <1>1, <1>2, Constants DEF IInv, Types
  <2> QED BY <1>1, <1>2, <2>1 DEF IInv, Types, Asking
<1>4. InStep'
  <2>1. torn' \/ pc' = "events" \/ (pc' = "idle" /\ ~isStarted')
    BY <1>1, <1>2
  <2> QED BY <2>1 DEF InStep, Told, ReadSoFar, Whole
<1> QED BY <1>3, <1>4 DEF IInv

-----------------------------------------------------------------------------
(* The theorem.                                                            *)

LEMMA Starts == Init => IInv
<1> SUFFICES ASSUME Init PROVE IInv
  OBVIOUS
<1>1. Numbered(items, seq)
  BY DEF Numbered, Init
<1>2. Types
  <2>1. truth \in Models /\ model \in Models
    BY FreshModel DEF Init
  <2>2. /\ seq \in 0 .. MaxEvents /\ lastSeq \in -1 .. seq /\ Len(items) <= EventCap
        /\ items \in Seq(Events) /\ generation \in 0 .. MaxStarts /\ gen \in 0 .. generation
    BY Constants DEF Init
  <2>3. pc \in Asking \cup {"idle", "poll"}
    BY DEF Init
  <2>4. /\ alive \in BOOLEAN /\ givenUp \in BOOLEAN /\ isStarted \in BOOLEAN
        /\ gap \in BOOLEAN /\ torn \in BOOLEAN
    BY DEF Init
  <2> QED BY <1>1, <2>1, <2>2, <2>3, <2>4 DEF Types
<1>3. InStep
  BY DEF Init, InStep, Told, ReadSoFar, Whole
<1> QED BY <1>2, <1>3 DEF IInv

LEMMA Goes == IInv /\ [Next]_vars => IInv'
<1> SUFFICES ASSUME IInv, [Next]_vars PROVE IInv'
  OBVIOUS
<1>1. CASE Backend
  BY <1>1, BackendKeeps
<1>2. CASE Crash \/ GiveUp
  BY <1>2, DeathKeeps
<1>3. CASE Respawn
  BY <1>3, RespawnKeeps
<1>4. CASE start
  BY <1>4, StartKeeps
<1>5. CASE poll
  BY <1>5, PollKeeps
<1>6. CASE Client
  BY <1>6, EventsKeeps, AccountsKeeps, ConvsKeeps, RolesKeeps, PollReplyKeeps, NoReplyKeeps
     DEF Client
<1>7. CASE reload_config
  BY <1>7, ReloadKeeps
<1>8. CASE UNCHANGED vars
  BY <1>8 DEF vars, IInv, Types, InStep, Told, ReadSoFar, Whole
<1> QED BY <1>1, <1>2, <1>3, <1>4, <1>5, <1>6, <1>7, <1>8 DEF Next

LEMMA Enough == IInv => NothingIsMissed
<1> SUFFICES ASSUME IInv PROVE NothingIsMissed
  OBVIOUS
<1>1. TypeOK
  <2>1. \A m \in {truth, model} : /\ m.acct \in {Off, On} /\ DOMAIN m.convs \subseteq Convs
                                  /\ \A c \in DOMAIN m.convs : m.convs[c] \in Conv
    BY ConvsOf DEF IInv, Types
  <2>2. \A i \in DOMAIN items : items[i].seq = seq - (Len(items) - i)
    BY DEF IInv, Types, Numbered
  <2> QED BY <2>1, <2>2 DEF TypeOK, IInv, Types
<1>2. NothingFallsBetween
  BY DEF NothingFallsBetween, Settled, IInv, InStep, Told, Whole
<1> QED BY <1>1, <1>2 DEF NothingIsMissed

\* "so no event can fall between snapshot and queue": whatever the backend
\* does while the four requests are asked, and whichever child answers them,
\* the windows' copy and what is queued for it are what the backend has -
\* or the queue has overflowed, or the snapshot is torn (EventQueue, sync,
\* drain, apply).
THEOREM NothingIsEverMissed == Spec => []NothingIsMissed
<1>1. Init => IInv
  BY Starts
<1>2. IInv /\ [Next]_vars => IInv'
  BY Goes
<1>3. IInv => NothingIsMissed
  BY Enough
<1> QED BY <1>1, <1>2, <1>3, PTL DEF Spec

-----------------------------------------------------------------------------
(* The lines of a call                                                     *)

\* The writer, or the reader, after each key.
Writes(f, script, n) ==
    f = [i \in 0 .. n |-> IF i = 0 THEN Writer ELSE Typed(f[i - 1], script[i])]
Reads(f, wire, n) ==
    f = [i \in 0 .. n |-> IF i = 0 THEN Reader ELSE ReadOne(f[i - 1], wire[i])]

\* What a run of the writer says of its beginning and of each key
LEMMA WritesStep ==
    ASSUME NEW script, NEW n \in Nat, NEW f, Writes(f, script, n)
    PROVE  /\ f[0] = Writer
           /\ \A i \in 1 .. n : f[i] = Typed(f[i - 1], script[i])
<1>1. f[0] = Writer
  BY DEF Writes
<1>2. ASSUME NEW i \in 1 .. n PROVE f[i] = Typed(f[i - 1], script[i])
  <2>1. i \in 0 .. n /\ i # 0
    OBVIOUS
  <2> QED BY <2>1, Zenon DEF Writes
<1> QED BY <1>1, <1>2

\* What a run of the reader says of its beginning and of each byte
LEMMA ReadsStep ==
    ASSUME NEW wire, NEW n \in Nat, NEW f, Reads(f, wire, n)
    PROVE  /\ f[0] = Reader
           /\ \A i \in 1 .. n : f[i] = ReadOne(f[i - 1], wire[i])
<1>1. f[0] = Reader
  BY DEF Reads
<1>2. ASSUME NEW i \in 1 .. n PROVE f[i] = ReadOne(f[i - 1], wire[i])
  <2>1. i \in 0 .. n /\ i # 0
    OBVIOUS
  <2> QED BY <2>1, Zenon DEF Reads
<1> QED BY <1>1, <1>2

\* Every script has its writer, and every wire its reader.
LEMMA WriterExists ==
    ASSUME NEW script
    PROVE  \A n \in Nat : \E f : Writes(f, script, n)
<1> DEFINE T == {n \in Nat : \E f : Writes(f, script, n)}
<1>1. 0 \in T
  <2>1. Writes([i \in {0} |-> Writer], script, 0)
    BY DEF Writes
  <2> QED BY <2>1
<1>2. ASSUME NEW n \in Nat, n \in T PROVE n + 1 \in T
  <2>1. PICK f : Writes(f, script, n)
    BY <1>2
  <2> DEFINE last == Typed(f[n], script[n + 1])
             g == [i \in 0 .. n + 1 |-> IF i = n + 1 THEN last ELSE f[i]]
  <2>2. ASSUME NEW i \in 0 .. n + 1
        PROVE  g[i] = IF i = 0 THEN Writer ELSE Typed(g[i - 1], script[i])
    <3>1. CASE i = n + 1
      BY <3>1
    <3>2. CASE i = 0
      BY <2>1, <3>2, WritesStep
    <3>3. CASE i \in 1 .. n
      <4>1. f[i] = Typed(f[i - 1], script[i])
        BY <2>1, <3>3, WritesStep
      <4>2. g[i] = f[i] /\ g[i - 1] = f[i - 1] /\ i # 0
        BY <3>3
      <4> QED BY <4>1, <4>2
    <3> QED BY <3>1, <3>2, <3>3
  <2>3. g = [i \in 0 .. n + 1 |-> g[i]]
    OBVIOUS
  <2>4. Writes(g, script, n + 1)
    <3> HIDE DEF g
    <3> QED BY <2>2, <2>3 DEF Writes
  <2> QED BY <2>4
<1> HIDE DEF T
<1>3. \A n \in Nat : n \in T
  BY <1>1, <1>2, SetInduction
<1> QED BY <1>3 DEF T

\* A wire can be read as far as one likes: the reader is a function of it
LEMMA ReaderExists ==
    ASSUME NEW wire
    PROVE  \A n \in Nat : \E f : Reads(f, wire, n)
<1> DEFINE T == {n \in Nat : \E f : Reads(f, wire, n)}
<1>1. 0 \in T
  <2>1. Reads([i \in {0} |-> Reader], wire, 0)
    BY DEF Reads
  <2> QED BY <2>1
<1>2. ASSUME NEW n \in Nat, n \in T PROVE n + 1 \in T
  <2>1. PICK f : Reads(f, wire, n)
    BY <1>2
  <2> DEFINE last == ReadOne(f[n], wire[n + 1])
             g == [i \in 0 .. n + 1 |-> IF i = n + 1 THEN last ELSE f[i]]
  <2>2. ASSUME NEW i \in 0 .. n + 1
        PROVE  g[i] = IF i = 0 THEN Reader ELSE ReadOne(g[i - 1], wire[i])
    <3>1. CASE i = n + 1
      BY <3>1
    <3>2. CASE i = 0
      BY <2>1, <3>2, ReadsStep
    <3>3. CASE i \in 1 .. n
      <4>1. f[i] = ReadOne(f[i - 1], wire[i])
        BY <2>1, <3>3, ReadsStep
      <4>2. g[i] = f[i] /\ g[i - 1] = f[i - 1] /\ i # 0
        BY <3>3
      <4> QED BY <4>1, <4>2
    <3> QED BY <3>1, <3>2, <3>3
  <2>3. g = [i \in 0 .. n + 1 |-> g[i]]
    OBVIOUS
  <2>4. Reads(g, wire, n + 1)
    <3> HIDE DEF g
    <3> QED BY <2>2, <2>3 DEF Reads
  <2> QED BY <2>4
<1> HIDE DEF T
<1>3. \A n \in Nat : n \in T
  BY <1>1, <1>2, SetInduction
<1> QED BY <1>3 DEF T

\* WrittenTo is a run of the writer over the whole script
LEMMA WrittenIs ==
    ASSUME NEW script, Len(script) \in Nat
    PROVE  Writes(WrittenTo(script), script, Len(script))
<1>1. \E f : Writes(f, script, Len(script))
  BY WriterExists
<1>2. PICK w : w = WrittenTo(script)
  OBVIOUS
<1>3. w = CHOOSE f : Writes(f, script, Len(script))
  BY <1>2 DEF WrittenTo, Writes
<1> QED BY <1>1, <1>2, <1>3

\* ReadTo is a run of the reader over the whole wire
LEMMA ReadIs ==
    ASSUME NEW wire, Len(wire) \in Nat
    PROVE  Reads(ReadTo(wire), wire, Len(wire))
<1>1. \E f : Reads(f, wire, Len(wire))
  BY ReaderExists
<1>2. PICK r : r = ReadTo(wire)
  OBVIOUS
<1>3. r = CHOOSE f : Reads(f, wire, Len(wire))
  BY <1>2 DEF ReadTo, Reads
<1> QED BY <1>1, <1>2, <1>3

\* Two wires are read alike as far as they are alike.
LEMMA ReadAlike ==
    ASSUME NEW q, NEW z, NEW n \in Nat, NEW m \in Nat, n <= m,
           \A i \in 1 .. n : q[i] = z[i],
           NEW f, NEW g, Reads(f, q, n), Reads(g, z, m)
    PROVE  f[n] = g[n]
<1> DEFINE T == {i \in Nat : i <= n => f[i] = g[i]}
<1>1. 0 \in T
  BY ReadsStep
<1>2. ASSUME NEW i \in Nat, i \in T PROVE i + 1 \in T
  <2> SUFFICES ASSUME i + 1 <= n PROVE f[i + 1] = g[i + 1]
    OBVIOUS
  <2>1. PICK j : j = i + 1
    OBVIOUS
  <2>2. j \in 1 .. n /\ j \in 1 .. m /\ j - 1 = i /\ f[i] = g[i]
    BY <1>2, <2>1
  <2>3. f[j] = ReadOne(f[j - 1], q[j]) /\ g[j] = ReadOne(g[j - 1], z[j]) /\ q[j] = z[j]
    BY <2>2, ReadsStep
  <2> QED BY <2>1, <2>2, <2>3
<1> HIDE DEF T
<1>3. \A i \in Nat : i \in T
  BY <1>1, <1>2, SetInduction
<1> QED BY <1>3 DEF T

\* One more character is read after the others.
LEMMA ReadAppend ==
    ASSUME NEW q \in Seq(Chars), NEW ch \in Chars
    PROVE  Read(Append(q, ch)) = ReadOne(Read(q), ch)
<1>1. PICK z : z = Append(q, ch)
  OBVIOUS
<1>2. PICK n \in Nat : n = Len(q)
  OBVIOUS
<1>3. Len(z) = n + 1 /\ z[n + 1] = ch /\ \A i \in 1 .. n : q[i] = z[i]
  BY <1>1, <1>2
<1>4. PICK f : f = ReadTo(q)
  OBVIOUS
<1>5. PICK g : g = ReadTo(z)
  OBVIOUS
<1>6. Reads(f, q, n)
  BY <1>2, <1>4, ReadIs
<1>7. Reads(g, z, n + 1)
  BY <1>3, <1>5, ReadIs
<1>8. f[n] = g[n]
  BY <1>3, <1>6, <1>7, ReadAlike
<1>9. PICK k : k = n + 1
  OBVIOUS
<1>10. k \in 1 .. k /\ k \in Nat /\ k - 1 = n /\ z[k] = ch
  BY <1>3, <1>9
<1>11. g[k] = ReadOne(g[k - 1], z[k])
  BY <1>7, <1>9, <1>10, ReadsStep
<1>12. Read(q) = f[n] /\ Read(z) = g[k]
  BY <1>2, <1>3, <1>4, <1>5, <1>9 DEF Read
<1> QED BY <1>1, <1>8, <1>10, <1>11, <1>12

\* What shows
Printed == {"x", "space"}

\* Some numbers up to n, and 0: one of them is the largest.
LEMMA OneIsLargest ==
    \A n \in Nat : \A S \in SUBSET (1 .. n) :
        \E m \in {0} \cup S : \A i \in S : i <= m
<1> DEFINE T == {n \in Nat : \A S \in SUBSET (1 .. n) :
                                \E m \in {0} \cup S : \A i \in S : i <= m}
<1>1. 0 \in T
  OBVIOUS
<1>2. ASSUME NEW n \in Nat, n \in T PROVE n + 1 \in T
  <2> SUFFICES ASSUME NEW S \in SUBSET (1 .. n + 1)
               PROVE  \E m \in {0} \cup S : \A i \in S : i <= m
    OBVIOUS
  <2>1. CASE n + 1 \in S
    BY <2>1
  <2>2. CASE n + 1 \notin S
    <3>1. S \in SUBSET (1 .. n)
      BY <2>2
    <3> QED BY <1>2, <3>1
  <2> QED BY <2>1, <2>2
<1> HIDE DEF T
<1>3. \A n \in Nat : n \in T
  BY <1>1, <1>2, SetInduction
<1> QED BY <1>3 DEF T

\* Erasing a word leaves the beginning of the line.
LEMMA WordErased ==
    ASSUME NEW ln \in Seq(Printed)
    PROVE  /\ RStrip(ln) \in Seq(Printed) /\ Len(RStrip(ln)) <= Len(ln)
           /\ ToLastSpace(ln) \in Seq(Printed) /\ Len(ToLastSpace(ln)) <= Len(ln)
<1>1. PICK n \in Nat : n = Len(ln) /\ DOMAIN ln = 1 .. n
  OBVIOUS
<1>2. ASSUME NEW S \in SUBSET (1 .. n), NEW m, m = CHOOSE k \in {0} \cup S : \A i \in S : i <= k
      PROVE  SubSeq(ln, 1, m) \in Seq(Printed) /\ Len(SubSeq(ln, 1, m)) <= n
  <2>1. \E k \in {0} \cup S : \A i \in S : i <= k
    BY OneIsLargest
  <2>2. m \in {0} \cup S
    BY <1>2, <2>1
  <2>3. m \in 0 .. n
    BY <2>2
  <2> QED BY <1>1, <2>3, SubSeqProperties
<1>3. PICK last : last = {i \in DOMAIN ln : ln[i] # "space"}
  OBVIOUS
<1>4. PICK spaces : spaces = {i \in DOMAIN ln : ln[i] = "space"}
  OBVIOUS
<1>5. last \in SUBSET (1 .. n) /\ spaces \in SUBSET (1 .. n)
  BY <1>1, <1>3, <1>4
<1>6. PICK a : a = CHOOSE k \in {0} \cup last : \A i \in last : i <= k
  OBVIOUS
<1>7. PICK b : b = CHOOSE k \in {0} \cup spaces : \A i \in spaces : i <= k
  OBVIOUS
<1>8. RStrip(ln) = SubSeq(ln, 1, a)
  BY <1>3, <1>6 DEF RStrip
<1>9. ToLastSpace(ln) = SubSeq(ln, 1, b)
  BY <1>4, <1>7 DEF ToLastSpace
<1> QED BY <1>1, <1>2, <1>5, <1>6, <1>7, <1>8, <1>9

\* A line that can be typed or read: it is cut before it is too long.
Short(ln) == ln \in Seq(Printed) /\ Len(ln) < LineMax

\* _edit_line(): what is unfinished stays short, what is finished fits.
LEMMA EditedFits ==
    ASSUME NEW ln, Short(ln), NEW ch \in Chars
    PROVE  /\ Short(_edit_line(ln, ch).line)
           /\ _edit_line(ln, ch).done \in Seq(Printed)
           /\ Len(_edit_line(ln, ch).done) <= LineMax
<1>1. LineMax \in Nat \ {0} /\ Len(ln) \in Nat /\ ln \in Seq(Printed) /\ Len(ln) < LineMax
  BY LinesAssumption DEF Short
<1>2. Short(Nothing) /\ Nothing \in Seq(Printed) /\ Len(Nothing) <= LineMax
  BY <1>1 DEF Short, Nothing
<1>3. CASE ch \in {"return", "newline"}
  <2>1. _edit_line(ln, ch) = Finished(ln)
    BY <1>3 DEF _edit_line
  <2> QED BY <1>1, <1>2, <2>1 DEF Finished
<1>4. CASE ch \in {"erase", "backspace"}
  <2>1. PICK l : l = IF ln = Nothing THEN ln ELSE Front(ln)
    OBVIOUS
  <2>2. _edit_line(ln, ch) = Edited(l)
    BY <1>4, <2>1 DEF _edit_line
  <2>3. l \in Seq(Printed) /\ Len(l) <= Len(ln) /\ Len(l) \in Nat
    <3>1. CASE ln = Nothing
      BY <1>1, <2>1, <3>1
    <3>2. CASE ln # Nothing
      <4>1. l = SubSeq(ln, 1, Len(ln) - 1) /\ Len(ln) > 0
        BY <1>1, <2>1, <3>2 DEF Front, Nothing
      <4> QED BY <1>1, <4>1
    <3> QED BY <3>1, <3>2
  <2> QED BY <1>1, <1>2, <2>2, <2>3 DEF Edited, Short
<1>5. CASE ch = "kill"
  <2>1. _edit_line(ln, ch) = Edited(Nothing)
    BY <1>5 DEF _edit_line
  <2> QED BY <1>2, <2>1 DEF Edited
<1>6. CASE ch = "werase"
  <2>1. PICK r : r = RStrip(ln)
    OBVIOUS
  <2>2. PICK l : l = ToLastSpace(r)
    OBVIOUS
  <2>3. _edit_line(ln, ch) = Edited(l)
    BY <1>6, <2>1, <2>2 DEF _edit_line
  <2>4. r \in Seq(Printed) /\ Len(r) <= Len(ln)
    BY <1>1, <2>1, WordErased
  <2>5. l \in Seq(Printed) /\ Len(l) <= Len(r)
    BY <2>2, <2>4, WordErased
  <2>6. Short(l)
    BY <1>1, <2>4, <2>5 DEF Short
  <2> QED BY <1>2, <2>3, <2>6 DEF Edited
<1>7. CASE ch \in {"x", "space"}
  <2>1. PICK l : l = Append(ln, ch)
    OBVIOUS
  <2>2. l \in Seq(Printed) /\ Len(l) = Len(ln) + 1
    BY <1>1, <1>7, <2>1 DEF Printed
  <2>3. _edit_line(ln, ch) = IF Len(ln) + 1 >= LineMax THEN Finished(l) ELSE Edited(l)
    BY <1>7, <2>1 DEF _edit_line
  <2>4. CASE Len(ln) + 1 >= LineMax
    BY <1>1, <1>2, <2>2, <2>3, <2>4 DEF Finished
  <2>5. CASE ~(Len(ln) + 1 >= LineMax)
    <3>1. Short(l)
      BY <1>1, <2>2, <2>5 DEF Short
    <3> QED BY <1>2, <2>3, <2>5, <3>1 DEF Edited
  <2> QED BY <2>4, <2>5
<1>8. CASE ch = "bell"
  <2>1. _edit_line(ln, ch) = Edited(ln)
    BY <1>8 DEF _edit_line
  <2> QED BY <1>2, <2>1 DEF Edited
<1> QED BY <1>3, <1>4, <1>5, <1>6, <1>7, <1>8 DEF Chars

\* The pieces of what comes after i characters of a text
Pieces(c, text, i) ==
    IF Len(text) - i <= LineMax
    THEN IF i = Len(text) THEN <<>> ELSE <<SubSeq(text, i + 1, Len(text))>>
    ELSE <<SubSeq(text, i + 1, i + LineMax)>> \o c[i + LineMax]
Cuts(c, text) == c = [i \in 0 .. Len(text) |-> Pieces(c, text, i)]

\* Every text can be cut, the pieces found from its end.
LEMMA CutExists ==
    ASSUME NEW text, Len(text) \in Nat
    PROVE  \E c : Cuts(c, text)
<1> DEFINE n == Len(text)
           T == {k \in Nat : \E c : \A i \in 0 .. n : n - i <= k => c[i] = Pieces(c, text, i)}
<1>0. LineMax \in Nat \ {0} /\ n \in Nat
  BY LinesAssumption
<1>1. 0 \in T
  <2>1. PICK c : c = [i \in 0 .. n |-> <<>>]
    OBVIOUS
  <2>2. ASSUME NEW i \in 0 .. n, n - i <= 0 PROVE c[i] = Pieces(c, text, i)
    BY <1>0, <2>1, <2>2 DEF Pieces
  <2> QED BY <2>2
<1>2. ASSUME NEW k \in Nat, k \in T PROVE k + 1 \in T
  <2>1. PICK c : \A i \in 0 .. n : n - i <= k => c[i] = Pieces(c, text, i)
    BY <1>2
  <2>2. PICK d : d = [i \in 0 .. n |-> IF n - i = k + 1 THEN Pieces(c, text, i) ELSE c[i]]
    OBVIOUS
  <2>3. ASSUME NEW i \in 0 .. n, n - i <= k + 1 PROVE d[i] = Pieces(d, text, i)
    <3>1. d[i] = Pieces(c, text, i)
      BY <1>0, <2>1, <2>2, <2>3
    <3>2. ~(n - i <= LineMax) => d[i + LineMax] = c[i + LineMax]
      BY <1>0, <2>2, <2>3
    <3>3. Pieces(d, text, i) = Pieces(c, text, i)
      BY <3>2 DEF Pieces
    <3> QED BY <3>1, <3>3
  <2> QED BY <2>3
<1> HIDE DEF T
<1>3. \A k \in Nat : k \in T
  BY <1>1, <1>2, SetInduction
<1>4. n \in T
  BY <1>0, <1>3
<1>5. PICK c : \A i \in 0 .. n : n - i <= n => c[i] = Pieces(c, text, i)
  BY <1>4 DEF T
<1>6. PICK d : d = [i \in 0 .. n |-> c[i]]
  OBVIOUS
<1>7. ASSUME NEW i \in 0 .. n PROVE d[i] = Pieces(d, text, i)
  <2>1. d[i] = Pieces(c, text, i)
    BY <1>0, <1>5, <1>6
  <2>2. ~(n - i <= LineMax) => d[i + LineMax] = c[i + LineMax]
    BY <1>0, <1>6
  <2>3. Pieces(d, text, i) = Pieces(c, text, i)
    BY <2>2 DEF Pieces
  <2> QED BY <2>1, <2>3
<1>8. d = [i \in 0 .. n |-> Pieces(d, text, i)]
  BY <1>6, <1>7
<1> QED BY <1>8 DEF Cuts

\* Cut is what is found so.
LEMMA CutIs ==
    ASSUME NEW text, Len(text) \in Nat
    PROVE  \E c : /\ Cut(text) = c[0]
                  /\ \A i \in 0 .. Len(text) : c[i] = Pieces(c, text, i)
<1>1. PICK c : c = CHOOSE d : Cuts(d, text)
  OBVIOUS
<1>2. Cuts(c, text)
  BY <1>1, CutExists
<1>3. Cut(text) = c[0]
  BY <1>1 DEF Cut, Cuts, Pieces
<1>4. \A i \in 0 .. Len(text) : c[i] = Pieces(c, text, i)
  BY <1>2, Zenon DEF Cuts
<1> QED BY <1>3, <1>4

\* The pieces are texts.
LEMMA CutType ==
    ASSUME NEW text \in Seq(Printed)
    PROVE  /\ Cut(text) \in Seq(Seq(Printed))
           /\ \E c : /\ Cut(text) = c[0]
                    /\ \A i \in 0 .. Len(text) :
                         c[i] = Pieces(c, text, i) /\ c[i] \in Seq(Seq(Printed))
<1>1. PICK n \in Nat : n = Len(text)
  OBVIOUS
<1>2. LineMax \in Nat \ {0}
  BY LinesAssumption
<1>3. PICK c : Cut(text) = c[0] /\ \A i \in 0 .. n : c[i] = Pieces(c, text, i)
  BY <1>1, CutIs
<1> DEFINE T == {k \in Nat : \A i \in 0 .. n : n - i <= k => c[i] \in Seq(Seq(Printed))}
<1>4. 0 \in T
  <2>1. ASSUME NEW i \in 0 .. n, n - i <= 0 PROVE c[i] \in Seq(Seq(Printed))
    <3>1. i = n
      BY <2>1
    <3>2. c[i] = Pieces(c, text, i)
      BY <1>3
    <3>3. Pieces(c, text, i) = <<>>
      BY <1>1, <1>2, <3>1 DEF Pieces
    <3>4. <<>> \in Seq(Seq(Printed))
      OBVIOUS
    <3> QED BY <3>2, <3>3, <3>4
  <2> QED BY <2>1
<1>5. ASSUME NEW k \in Nat, k \in T PROVE k + 1 \in T
  <2> SUFFICES ASSUME NEW i \in 0 .. n, n - i <= k + 1 PROVE c[i] \in Seq(Seq(Printed))
    OBVIOUS
  <2>1. c[i] = Pieces(c, text, i)
    BY <1>3
  <2>2. CASE n - i <= LineMax /\ i = n
    <3>1. c[i] = <<>>
      BY <1>1, <2>1, <2>2 DEF Pieces
    <3> QED BY <3>1
  <2>3. CASE n - i <= LineMax /\ i # n
    <3>1. PICK p : p = SubSeq(text, i + 1, n)
      OBVIOUS
    <3>2. p \in Seq(Printed)
      BY <1>1, <3>1, SubSeqProperties
    <3>3. c[i] = <<p>>
      BY <1>1, <2>1, <2>3, <3>1 DEF Pieces
    <3> QED BY <3>2, <3>3
  <2>4. CASE ~(n - i <= LineMax)
    <3>1. PICK p : p = SubSeq(text, i + 1, i + LineMax)
      OBVIOUS
    <3>2. p \in Seq(Printed)
      BY <1>1, <1>2, <2>4, <3>1, SubSeqProperties
    <3>3. PICK z : z = c[i + LineMax]
      OBVIOUS
    <3>4. z \in Seq(Seq(Printed))
      <4>1. i + LineMax \in 0 .. n /\ n - (i + LineMax) <= k
        BY <1>2, <2>4
      <4> QED BY <1>5, <3>3, <4>1
    <3>5. c[i] = <<p>> \o z
      BY <1>1, <2>1, <2>4, <3>1, <3>3 DEF Pieces
    <3>6. <<p>> \in Seq(Seq(Printed))
      BY <3>2
    <3> QED BY <3>4, <3>5, <3>6, ConcatProperties
  <2> QED BY <2>2, <2>3, <2>4
<1> HIDE DEF T
<1>6. \A k \in Nat : k \in T
  BY <1>4, <1>5, SetInduction
<1>7. n \in T
  BY <1>6
<1>8. \A i \in 0 .. n : n - i <= n => c[i] \in Seq(Seq(Printed))
  BY <1>7 DEF T
<1>9. \A i \in 0 .. n : c[i] = Pieces(c, text, i) /\ c[i] \in Seq(Seq(Printed))
  BY <1>3, <1>8
<1>10. 0 \in 0 .. n
  OBVIOUS
<1> QED BY <1>1, <1>3, <1>9, <1>10

\* A line that was typed is its only piece.
LEMMA CutLeaves ==
    ASSUME NEW ln \in Seq(Printed), ln # Nothing, Len(ln) <= LineMax
    PROVE  Cut(ln) = <<ln>>
<1>1. PICK n \in Nat : n = Len(ln) /\ n # 0
  BY DEF Nothing
<1>2. PICK c : Cut(ln) = c[0] /\ \A i \in 0 .. n : c[i] = Pieces(c, ln, i)
  BY <1>1, CutIs
<1>3. c[0] = Pieces(c, ln, 0)
  BY <1>2
<1>4. SubSeq(ln, 0 + 1, n) = ln
  BY <1>1
<1> QED BY <1>1, <1>2, <1>3, <1>4 DEF Pieces

\* What the log of the other side is after each line of ours
Gathered(had, ln) == had \o Cut(ln)
Grows(f, log, n) ==
    f = [i \in 0 .. n |-> IF i = 0 THEN <<>> ELSE Gathered(f[i - 1], log[i])]

\* What such a run says of its beginning and of each line
LEMMA GrowsStep ==
    ASSUME NEW log, NEW n \in Nat, NEW f, Grows(f, log, n)
    PROVE  f[0] = <<>> /\ \A i \in 1 .. n : f[i] = Gathered(f[i - 1], log[i])
<1>1. f[0] = <<>>
  BY DEF Grows
<1>2. ASSUME NEW i \in 1 .. n PROVE f[i] = Gathered(f[i - 1], log[i])
  <2>1. i \in 0 .. n /\ i # 0
    OBVIOUS
  <2> QED BY <2>1, Zenon DEF Grows
<1> QED BY <1>1, <1>2

\* Any log can be read so.
LEMMA GrowsExists ==
    ASSUME NEW log
    PROVE  \A n \in Nat : \E f : Grows(f, log, n)
<1> DEFINE T == {n \in Nat : \E f : Grows(f, log, n)}
<1>1. 0 \in T
  <2>1. Grows([i \in {0} |-> <<>>], log, 0)
    BY DEF Grows
  <2> QED BY <2>1
<1>2. ASSUME NEW n \in Nat, n \in T PROVE n + 1 \in T
  <2>1. PICK f : Grows(f, log, n)
    BY <1>2
  <2> DEFINE last == Gathered(f[n], log[n + 1])
             g == [i \in 0 .. n + 1 |-> IF i = n + 1 THEN last ELSE f[i]]
  <2>2. ASSUME NEW i \in 0 .. n + 1
        PROVE  g[i] = IF i = 0 THEN <<>> ELSE Gathered(g[i - 1], log[i])
    <3>1. CASE i = n + 1
      BY <3>1
    <3>2. CASE i = 0
      <4>1. f[0] = <<>>
        BY <2>1, GrowsStep
      <4>2. g[i] = f[0]
        BY <3>2
      <4> QED BY <3>2, <4>1, <4>2
    <3>3. CASE i \in 1 .. n
      <4>1. f[i] = Gathered(f[i - 1], log[i])
        BY <2>1, <3>3, GrowsStep
      <4>2. g[i] = f[i] /\ g[i - 1] = f[i - 1] /\ i # 0
        BY <3>3
      <4> QED BY <4>1, <4>2
    <3> QED BY <3>1, <3>2, <3>3
  <2>3. g = [i \in 0 .. n + 1 |-> g[i]]
    OBVIOUS
  <2>4. Grows(g, log, n + 1)
    <3> HIDE DEF g
    <3> QED BY <2>2, <2>3 DEF Grows
  <2> QED BY <2>4
<1> HIDE DEF T
<1>3. \A n \in Nat : n \in T
  BY <1>1, <1>2, SetInduction
<1> QED BY <1>3 DEF T

\* AsRead is a run over the whole log.
LEMMA AsReadIs ==
    ASSUME NEW log, Len(log) \in Nat
    PROVE  \E f : Grows(f, log, Len(log)) /\ AsRead(log) = f[Len(log)]
<1>1. \E f : Grows(f, log, Len(log))
  BY GrowsExists
<1>2. PICK f : f = CHOOSE g : Grows(g, log, Len(log))
  OBVIOUS
<1>3. Grows(f, log, Len(log))
  BY <1>1, <1>2
<1>4. AsRead(log) = f[Len(log)]
  BY <1>2 DEF AsRead, Grows, Gathered
<1> QED BY <1>3, <1>4

\* What the other side has of a log is lines, and one more line adds its pieces.
LEMMA AsReadAppend ==
    ASSUME NEW log \in Seq(Seq(Printed)), NEW text \in Seq(Printed)
    PROVE  /\ AsRead(log) \in Seq(Seq(Printed))
           /\ AsRead(Append(log, text)) = AsRead(log) \o Cut(text)
<1>1. PICK z : z = Append(log, text)
  OBVIOUS
<1>2. PICK n \in Nat : n = Len(log)
  OBVIOUS
<1>3. Len(z) = n + 1 /\ z[n + 1] = text /\ \A i \in 1 .. n : log[i] = z[i]
  BY <1>1, <1>2
<1>4. PICK f : Grows(f, log, n) /\ AsRead(log) = f[n]
  BY <1>2, AsReadIs
<1>5. PICK k \in Nat : k = n + 1
  OBVIOUS
<1>6. PICK g : Grows(g, z, k) /\ AsRead(z) = g[k]
  BY <1>3, <1>5, AsReadIs
<1> DEFINE T == {i \in Nat : i <= n => f[i] = g[i] /\ f[i] \in Seq(Seq(Printed))}
<1>7. 0 \in T
  <2>1. f[0] = <<>> /\ g[0] = <<>>
    BY <1>4, <1>6, GrowsStep
  <2>2. <<>> \in Seq(Seq(Printed))
    OBVIOUS
  <2> QED BY <2>1, <2>2
<1>8. ASSUME NEW i \in Nat, i \in T PROVE i + 1 \in T
  <2> SUFFICES ASSUME i + 1 <= n PROVE f[i + 1] = g[i + 1] /\ f[i + 1] \in Seq(Seq(Printed))
    OBVIOUS
  <2>1. PICK j : j = i + 1
    OBVIOUS
  <2>2. j \in 1 .. n /\ j \in 1 .. k /\ j - 1 = i /\ f[i] = g[i] /\ f[i] \in Seq(Seq(Printed))
    BY <1>5, <1>8, <2>1
  <2>3. f[j] = Gathered(f[j - 1], log[j])
    BY <1>4, <2>2, GrowsStep
  <2>4. g[j] = Gathered(g[j - 1], z[j])
    BY <1>6, <2>2, GrowsStep
  <2>5. PICK t \in Seq(Printed) : t = log[j]
    BY <1>2, <2>2
  <2>6. Cut(t) \in Seq(Seq(Printed)) /\ z[j] = t
    BY <1>3, <2>2, <2>5, CutType
  <2>7. f[i] \o Cut(t) \in Seq(Seq(Printed))
    BY <2>2, <2>6, ConcatProperties
  <2> QED BY <2>1, <2>2, <2>3, <2>4, <2>5, <2>6, <2>7 DEF Gathered
<1> HIDE DEF T
<1>9. n \in T
  BY <1>7, <1>8, SetInduction
<1>10. f[n] = g[n] /\ f[n] \in Seq(Seq(Printed))
  BY <1>9 DEF T
<1>11. k \in 1 .. k /\ k - 1 = n /\ z[k] = text
  BY <1>3, <1>5
<1>12. g[k] = Gathered(g[k - 1], z[k])
  BY <1>6, <1>11, GrowsStep
<1> QED BY <1>1, <1>4, <1>6, <1>10, <1>11, <1>12 DEF Gathered

\* A line that was typed is logged alike at both ends.
LEMMA LoggedAlike ==
    ASSUME NEW log \in Seq(Seq(Printed)), NEW ln \in Seq(Printed), Len(ln) <= LineMax
    PROVE  /\ Logged(log, ln) \in Seq(Seq(Printed))
           /\ AsRead(Logged(log, ln)) = Logged(AsRead(log), ln)
<1>1. CASE ln = Nothing
  BY <1>1 DEF Logged
<1>2. CASE ln # Nothing
  <2>1. PICK had : had = AsRead(log)
    OBVIOUS
  <2>2. had \in Seq(Seq(Printed)) /\ AsRead(Append(log, ln)) = had \o Cut(ln)
    BY <2>1, AsReadAppend
  <2>3. Cut(ln) = <<ln>>
    BY <1>2, CutLeaves
  <2>4. had \o <<ln>> = Append(had, ln)
    BY <2>2
  <2>5. Append(log, ln) \in Seq(Seq(Printed))
    OBVIOUS
  <2> QED BY <1>2, <2>1, <2>2, <2>3, <2>4, <2>5 DEF Logged
<1> QED BY <1>1, <1>2

\* The reader of what the writer sent: the line of each is the same, and so are
\* the logs, when what is longer than a line is cut; what comes after a return
\* finds no line begun.
ReadsAlike(w, r) ==
    /\ w = [mine |-> w.mine, log |-> w.log, wire |-> w.wire] /\ w.wire \in Seq(Chars)
    /\ Short(w.mine) /\ w.log \in Seq(Seq(Printed))
    /\ \/ r = [theirs |-> w.mine, afterCr |-> FALSE, log |-> AsRead(w.log)]
       \/ r = [theirs |-> w.mine, afterCr |-> TRUE, log |-> AsRead(w.log)] /\ w.mine = Nothing

\* Before the first key both ends have the same, which is nothing
LEMMA NothingRead ==
    /\ Read(<<>>) = Reader
    /\ ReadsAlike(Writer, Reader)
<1>1. Reads(ReadTo(<<>>), <<>>, 0)
  BY ReadIs
<1>2. ReadTo(<<>>)[0] = Reader
  BY <1>1, ReadsStep
<1>3. Read(<<>>) = Reader
  BY <1>2 DEF Read
<1>4. PICK none : none = <<>>
  OBVIOUS
<1>5. none \in Seq(Chars) /\ none \in Seq(Printed) /\ none \in Seq(Seq(Printed)) /\ Len(none) = 0
  BY <1>4
<1>6. PICK f : Grows(f, none, 0) /\ AsRead(none) = f[0]
  BY <1>5, AsReadIs
<1>7. AsRead(none) = none
  BY <1>4, <1>6, GrowsStep
<1>8. Short(none)
  BY <1>5, LinesAssumption DEF Short
<1>9. PICK w : w = Writer
  OBVIOUS
<1>10. w.mine = none /\ w.log = none /\ w.wire = none
       /\ w = [mine |-> w.mine, log |-> w.log, wire |-> w.wire]
  BY <1>4, <1>9 DEF Writer, Nothing
<1>11. Reader = [theirs |-> w.mine, afterCr |-> FALSE, log |-> AsRead(w.log)]
  BY <1>4, <1>7, <1>10 DEF Reader, Nothing
<1>12. ReadsAlike(w, Reader)
  BY <1>5, <1>8, <1>10, <1>11 DEF ReadsAlike
<1> QED BY <1>3, <1>9, <1>12

\* A character that both apply.
LEMMA ReadFollows ==
    ASSUME NEW w, NEW r, ReadsAlike(w, r), NEW ch \in Chars, NEW wire, wire \in Seq(Chars),
           ~(ch = "newline" /\ r.afterCr)
    PROVE  ReadsAlike([mine |-> _edit_line(w.mine, ch).line, wire |-> wire,
                    log |-> Logged(w.log, _edit_line(w.mine, ch).done)], ReadOne(r, ch))
<1>1. PICK e : e = _edit_line(w.mine, ch)
  OBVIOUS
<1>2. r.theirs = w.mine /\ r.log = AsRead(w.log) /\ Short(w.mine) /\ w.log \in Seq(Seq(Printed))
  BY DEF ReadsAlike
<1>3. ch = "return" => e.line = Nothing
  BY <1>1 DEF _edit_line, Finished
<1>4. ReadOne(r, ch) = [theirs |-> e.line, afterCr |-> ch = "return",
                        log |-> Logged(AsRead(w.log), e.done)]
  BY <1>1, <1>2 DEF ReadOne
<1>5. PICK done : done = Logged(w.log, e.done)
  OBVIOUS
<1>6. Short(e.line) /\ e.done \in Seq(Printed) /\ Len(e.done) <= LineMax
  BY <1>1, <1>2, EditedFits
<1>7. done \in Seq(Seq(Printed)) /\ Logged(AsRead(w.log), e.done) = AsRead(done)
  BY <1>2, <1>5, <1>6, LoggedAlike
<1>8. PICK v : v = [mine |-> e.line, wire |-> wire, log |-> done]
  OBVIOUS
<1>9. v = [mine |-> v.mine, log |-> v.log, wire |-> v.wire] /\ v.wire \in Seq(Chars)
      /\ v.mine = e.line /\ v.log = done
  BY <1>8
<1>10. PICK u : u = ReadOne(r, ch)
  OBVIOUS
<1>11. \/ u = [theirs |-> v.mine, afterCr |-> FALSE, log |-> AsRead(v.log)]
       \/ u = [theirs |-> v.mine, afterCr |-> TRUE, log |-> AsRead(v.log)] /\ v.mine = Nothing
  <2>1. CASE ch = "return"
    BY <1>3, <1>4, <1>7, <1>9, <1>10, <2>1
  <2>2. CASE ch # "return"
    BY <1>4, <1>7, <1>9, <1>10, <2>2
  <2> QED BY <2>1, <2>2
<1>12. ReadsAlike(v, u)
  BY <1>6, <1>7, <1>9, <1>11 DEF ReadsAlike
<1> QED BY <1>1, <1>5, <1>8, <1>10, <1>12

\* keys(): what it does to our line, the reader makes of the bytes it sends
LEMMA KeyFollowed ==
    ASSUME NEW w, NEW ch \in Chars, ReadsAlike(w, Read(w.wire))
    PROVE  ReadsAlike(keys(w, ch), Read(keys(w, ch).wire))
<1>1. PICK sent \in Chars : sent = IF ch = "backspace" THEN "erase" ELSE ch
  BY DEF Chars
<1>2. PICK e : e = _edit_line(w.mine, sent)
  OBVIOUS
<1>3. PICK wire : wire = Append(w.wire, sent)
  OBVIOUS
<1>4. PICK r : r = Read(w.wire)
  OBVIOUS
<1>5. wire \in Seq(Chars) /\ Read(wire) = ReadOne(r, sent)
  BY <1>3, <1>4, ReadAppend DEF ReadsAlike
<1>6. keys(w, ch) = [mine |-> e.line, log |-> Logged(w.log, e.done), wire |-> wire]
  BY <1>1, <1>2, <1>3 DEF keys
<1>7. CASE sent = "newline" /\ r.afterCr
  <2>1. w.mine = Nothing
    BY <1>4, <1>7 DEF ReadsAlike
  <2>2. e.line = Nothing /\ e.done = Nothing
    BY <1>2, <1>7, <2>1 DEF _edit_line, Finished
  <2>3. keys(w, ch) = [mine |-> Nothing, log |-> w.log, wire |-> wire]
    BY <1>6, <2>2 DEF Logged
  <2>4. ReadOne(r, sent) = [r EXCEPT !.afterCr = FALSE]
    BY <1>7 DEF ReadOne
  <2>5. ReadOne(r, sent) = [theirs |-> Nothing, afterCr |-> FALSE, log |-> AsRead(w.log)]
    <3>1. \/ r = [theirs |-> Nothing, afterCr |-> FALSE, log |-> AsRead(w.log)]
          \/ r = [theirs |-> Nothing, afterCr |-> TRUE, log |-> AsRead(w.log)]
      BY <1>4, <2>1 DEF ReadsAlike
    <3>2. CASE r = [theirs |-> Nothing, afterCr |-> FALSE, log |-> AsRead(w.log)]
      BY <2>4, <3>2
    <3>3. CASE r = [theirs |-> Nothing, afterCr |-> TRUE, log |-> AsRead(w.log)]
      BY <2>4, <3>3
    <3> QED BY <3>1, <3>2, <3>3
  <2>6. PICK v : v = [mine |-> Nothing, log |-> w.log, wire |-> wire]
    OBVIOUS
  <2>7. v = [mine |-> v.mine, log |-> v.log, wire |-> v.wire] /\ v.wire = wire
        /\ v.mine = Nothing /\ v.log = w.log
    BY <2>6
  <2>9. Short(v.mine) /\ v.log \in Seq(Seq(Printed))
    BY <2>1, <2>7 DEF ReadsAlike
  <2>8. ReadsAlike(v, ReadOne(r, sent))
    BY <1>5, <2>5, <2>7, <2>9 DEF ReadsAlike
  <2> QED BY <1>5, <2>3, <2>6, <2>7, <2>8
<1>8. CASE ~(sent = "newline" /\ r.afterCr)
  <2>1. ReadsAlike([mine |-> _edit_line(w.mine, sent).line, wire |-> wire,
                 log |-> Logged(w.log, _edit_line(w.mine, sent).done)], ReadOne(r, sent))
    BY <1>4, <1>5, <1>8, ReadFollows
  <2> QED BY <1>2, <1>5, <1>6, <2>1
<1> QED BY <1>7, <1>8

\* A line more at the end of a log, and others after it
LEMMA OneLineMore ==
    ASSUME NEW q \in Seq(Seq(Printed)), NEW ln \in Seq(Printed), NEW z \in Seq(Seq(Printed))
    PROVE  /\ Append(q, ln) = q \o <<ln>> /\ Append(q, ln) \in Seq(Seq(Printed))
           /\ Append(q, ln) \o z = q \o (<<ln>> \o z)
<1>1. Append(q, ln) = q \o <<ln>> /\ Append(q, ln) \in Seq(Seq(Printed))
  OBVIOUS
<1>2. (q \o <<ln>>) \o z = q \o (<<ln>> \o z)
  OBVIOUS
<1> QED BY <1>1, <1>2

\* A whole line as it is read, the reader's line before it finished: after i of
\* its characters some pieces are in the log, the rest is the line begun.
Midway(r, c, text, i, log) ==
    /\ r = [theirs |-> r.theirs, afterCr |-> r.afterCr, log |-> r.log]
    /\ i > 0 => r.afterCr = FALSE
    /\ \E b \in 0 .. i :
         /\ i - b < LineMax /\ r.theirs = SubSeq(text, b + 1, i)
         /\ r.log \in Seq(Seq(Printed)) /\ c[b] \in Seq(Seq(Printed)) /\ r.log \o c[b] = log

\* One more character of it is read: it makes the line begun longer, or one of
\* the pieces.
LEMMA OneMoreRead ==
    ASSUME NEW text \in Seq(Printed), NEW c,
           \A i \in 0 .. Len(text) : c[i] = Pieces(c, text, i) /\ c[i] \in Seq(Seq(Printed)),
           NEW i \in Nat, i < Len(text), NEW log, NEW r, Midway(r, c, text, i, log)
    PROVE  Midway(ReadOne(r, text[i + 1]), c, text, i + 1, log)
<1>1. LineMax \in Nat \ {0}
  BY LinesAssumption
<1>2. PICK n \in Nat : n = Len(text)
  OBVIOUS
<1>3. PICK ch \in Printed : ch = text[i + 1]
  BY <1>2
<1>4. ch \in {"x", "space"} /\ ch # "newline" /\ ch # "return"
  BY DEF Printed
<1>5. PICK b \in 0 .. i :
        /\ i - b < LineMax /\ r.theirs = SubSeq(text, b + 1, i)
        /\ r.log \in Seq(Seq(Printed)) /\ c[b] \in Seq(Seq(Printed)) /\ r.log \o c[b] = log
  BY DEF Midway
<1>6. PICK l : l = SubSeq(text, b + 1, i + 1)
  OBVIOUS
<1>7. l \in Seq(Printed) /\ Len(l) = i + 1 - b /\ Append(r.theirs, ch) = l /\ Len(r.theirs) = i - b
  <2>1. Len(r.theirs) = i - b /\ r.theirs \in Seq(Printed)
    BY <1>2, <1>5, SubSeqProperties
  <2>2. l \in Seq(Printed) /\ Len(l) = i + 1 - b
    BY <1>2, <1>5, <1>6, SubSeqProperties
  <2>3. PICK a : a = Append(r.theirs, ch)
    OBVIOUS
  <2>4. a \in Seq(Printed) /\ Len(a) = i + 1 - b
    BY <2>1, <2>3
  <2>5. ASSUME NEW j \in 1 .. i + 1 - b PROVE a[j] = l[j]
    <3>1. l[j] = text[b + j]
      BY <1>2, <1>5, <1>6, SubSeqProperties
    <3>2. CASE j = i + 1 - b
      BY <1>3, <2>1, <2>3, <3>1, <3>2
    <3>3. CASE j # i + 1 - b
      <4>1. a[j] = r.theirs[j]
        BY <2>1, <2>3, <3>3
      <4>2. r.theirs[j] = text[b + j]
        BY <1>2, <1>5, <3>3, SubSeqProperties
      <4> QED BY <3>1, <4>1, <4>2
    <3> QED BY <3>2, <3>3
  <2>6. a = l
    BY <2>2, <2>4, <2>5
  <2> QED BY <2>1, <2>2, <2>3, <2>6
<1>8. PICK e : e = _edit_line(r.theirs, ch)
  OBVIOUS
<1>9. e = IF i - b + 1 >= LineMax THEN Finished(l) ELSE Edited(l)
  BY <1>4, <1>7, <1>8 DEF _edit_line
<1>10. PICK s : s = ReadOne(r, ch)
  OBVIOUS
<1>11. s = [theirs |-> e.line, afterCr |-> FALSE, log |-> Logged(r.log, e.done)]
  <2>1. (ch = "return") = FALSE
    BY <1>4
  <2> QED BY <1>4, <1>8, <1>10, <2>1 DEF ReadOne
<1>12. s = [theirs |-> s.theirs, afterCr |-> s.afterCr, log |-> s.log] /\ s.afterCr = FALSE
       /\ s.theirs = e.line /\ s.log = Logged(r.log, e.done)
  BY <1>11
<1>13. CASE i - b + 1 >= LineMax
  <2>1. e.line = Nothing /\ e.done = l
    BY <1>9, <1>13 DEF Finished
  <2>2. LineMax = i + 1 - b /\ b + LineMax = i + 1
    BY <1>1, <1>5, <1>13
  <2>3. PICK k \in 0 .. n : k = i + 1
    BY <1>2
  <2>4. l # Nothing
    BY <1>1, <1>7, <2>2 DEF Nothing
  <2>5. s.log = Append(r.log, l)
    BY <1>12, <2>1, <2>4 DEF Logged
  <2>6. c[b] = <<l>> \o c[k]
    <3>1. b \in 0 .. n /\ c[b] = Pieces(c, text, b)
      BY <1>2, <1>5
    <3>2. CASE n - b <= LineMax
      <4>1. k = n /\ b # n
        BY <1>1, <2>2, <2>3, <3>1, <3>2
      <4>2. c[b] = <<l>>
        BY <1>2, <1>6, <2>3, <3>1, <3>2, <4>1 DEF Pieces
      <4>3. c[k] = Pieces(c, text, k)
        BY <1>2
      <4>4. Pieces(c, text, k) = <<>>
        BY <1>1, <1>2, <4>1 DEF Pieces
      <4>5. <<l>> \o <<>> = <<l>>
        OBVIOUS
      <4> QED BY <4>2, <4>3, <4>4, <4>5
    <3>3. CASE ~(n - b <= LineMax)
      BY <1>2, <1>6, <2>2, <2>3, <3>1, <3>3 DEF Pieces
    <3> QED BY <3>2, <3>3
  <2>7. PICK z : z = c[k]
    OBVIOUS
  <2>8. z \in Seq(Seq(Printed))
    BY <1>2, <2>7
  <2>9. s.log \in Seq(Seq(Printed)) /\ s.log \o z = log
    <3>1. PICK q \in Seq(Seq(Printed)) : q = r.log
      BY <1>5
    <3>2. l \in Seq(Printed)
      BY <1>7
    <3>3. Append(q, l) \in Seq(Seq(Printed)) /\ Append(q, l) \o z = q \o (<<l>> \o z)
      BY <2>8, <3>2, OneLineMore
    <3> QED BY <1>5, <2>5, <2>6, <2>7, <3>1, <3>3
  <2>10. k \in 0 .. k /\ k - k < LineMax /\ k > 0 /\ SubSeq(text, k + 1, k) = Nothing
    <3>1. SubSeq(text, k + 1, k) = <<>>
      BY <1>2
    <3> QED BY <1>1, <2>3, <3>1 DEF Nothing
  <2>11. Midway(s, c, text, k, log)
    BY <1>12, <2>1, <2>7, <2>8, <2>9, <2>10 DEF Midway
  <2> QED BY <1>3, <1>10, <2>3, <2>11
<1>14. CASE ~(i - b + 1 >= LineMax)
  <2>1. e.line = l /\ e.done = Nothing
    BY <1>9, <1>14 DEF Edited
  <2>2. s.log = r.log /\ s.theirs = l
    BY <1>12, <2>1 DEF Logged
  <2>3. PICK k \in Nat : k = i + 1
    OBVIOUS
  <2>4. b \in 0 .. k /\ k - b < LineMax /\ k > 0 /\ s.theirs = SubSeq(text, b + 1, k)
    BY <1>1, <1>5, <1>6, <1>14, <2>2, <2>3
  <2>5. Midway(s, c, text, k, log)
    BY <1>5, <1>12, <2>2, <2>4 DEF Midway
  <2> QED BY <1>3, <1>10, <2>3, <2>5
<1> QED BY <1>13, <1>14

\* The newline after the last of it finishes what is left.
LEMMA LineEnds ==
    ASSUME NEW text \in Seq(Printed), text # <<>>, NEW c,
           \A i \in 0 .. Len(text) : c[i] = Pieces(c, text, i) /\ c[i] \in Seq(Seq(Printed)),
           NEW log, NEW r, Midway(r, c, text, Len(text), log)
    PROVE  ReadOne(r, "newline") = [theirs |-> Nothing, afterCr |-> FALSE, log |-> log]
<1>1. LineMax \in Nat \ {0}
  BY LinesAssumption
<1>2. PICK n \in Nat : n = Len(text) /\ n > 0
  OBVIOUS
<1>3. PICK b \in 0 .. n :
        /\ n - b < LineMax /\ r.theirs = SubSeq(text, b + 1, n)
        /\ r.log \in Seq(Seq(Printed)) /\ c[b] \in Seq(Seq(Printed)) /\ r.log \o c[b] = log
  BY <1>2 DEF Midway
<1>4. r.afterCr = FALSE
  BY <1>2 DEF Midway
<1>5. PICK l : l = r.theirs
  OBVIOUS
<1>6. PICK e : e = _edit_line(l, "newline")
  OBVIOUS
<1>7. e.line = Nothing /\ e.done = l
  BY <1>6 DEF _edit_line, Finished
<1>8. ReadOne(r, "newline") = [theirs |-> Nothing, afterCr |-> FALSE, log |-> Logged(r.log, l)]
  <2>1. ("newline" = "return") = FALSE
    OBVIOUS
  <2> QED BY <1>4, <1>5, <1>6, <1>7, <2>1 DEF ReadOne
<1>9. b \in 0 .. n /\ c[b] = Pieces(c, text, b)
  BY <1>2
<1>10. CASE b = n
  <2>1. c[b] = <<>>
    BY <1>1, <1>2, <1>9, <1>10 DEF Pieces
  <2>2. l = Nothing
    <3>1. l = <<>>
      BY <1>2, <1>3, <1>5, <1>10
    <3> QED BY <3>1 DEF Nothing
  <2>3. r.log \o <<>> = r.log
    BY <1>3
  <2> QED BY <1>3, <1>8, <2>1, <2>2, <2>3 DEF Logged
<1>11. CASE b # n
  <2>1. c[b] = <<l>>
    BY <1>1, <1>2, <1>3, <1>5, <1>9, <1>11 DEF Pieces
  <2>2. l # Nothing /\ l \in Seq(Printed)
    <3>1. Len(l) = n - b /\ l \in Seq(Printed)
      BY <1>2, <1>3, <1>5, <1>11, SubSeqProperties
    <3> QED BY <1>11, <3>1 DEF Nothing
  <2>3. Append(r.log, l) = r.log \o <<l>>
    BY <1>3, <2>2, OneLineMore
  <2> QED BY <1>3, <1>8, <2>1, <2>2, <2>3 DEF Logged
<1> QED BY <1>10, <1>11

\* A whole line, said where none was begun: its characters, then the newline.
LEMMA LineFollowed ==
    ASSUME NEW w, ReadsAlike(w, Read(w.wire)), w.mine = Nothing,
           NEW text \in Seq(Printed), text # <<>>
    PROVE  ReadsAlike(speak(w, text), Read(speak(w, text).wire))
<1>1. PICK nl \in Chars : nl = "newline"
  BY DEF Chars
<1>2. PICK n \in Nat : n = Len(text)
  OBVIOUS
<1>3. PICK q \in Seq(Chars) : q = w.wire
  BY DEF ReadsAlike
<1>4. PICK had : had = AsRead(w.log)
  OBVIOUS
<1>5. w.log \in Seq(Seq(Printed)) /\ had \in Seq(Seq(Printed))
      /\ AsRead(Append(w.log, text)) = had \o Cut(text)
  BY <1>4, AsReadAppend DEF ReadsAlike
<1>6. PICK c : /\ Cut(text) = c[0]
               /\ \A i \in 0 .. n : c[i] = Pieces(c, text, i) /\ c[i] \in Seq(Seq(Printed))
  BY <1>2, CutType
<1>7. PICK log : log = had \o c[0]
  OBVIOUS
<1>8. text \in Seq(Chars)
  BY DEF Printed, Chars
<1> DEFINE T == {i \in Nat : i <= n => Midway(Read(q \o SubSeq(text, 1, i)), c, text, i, log)}
<1>9. 0 \in T
  <2>1. q \o SubSeq(text, 1, 0) = q
    OBVIOUS
  <2>2. PICK r : r = Read(q)
    OBVIOUS
  <2>3. r = [theirs |-> r.theirs, afterCr |-> r.afterCr, log |-> r.log]
        /\ r.theirs = Nothing /\ r.log = had
    BY <1>3, <1>4, <2>2 DEF ReadsAlike
  <2>4. SubSeq(text, 0 + 1, 0) = <<>>
    OBVIOUS
  <2>5. 0 \in 0 .. 0 /\ 0 - 0 < LineMax /\ ~(0 > 0) /\ 0 \in 0 .. n
    BY LinesAssumption
  <2>6. Midway(r, c, text, 0, log)
    BY <1>5, <1>6, <1>7, <2>3, <2>4, <2>5 DEF Midway, Nothing
  <2> QED BY <2>1, <2>2, <2>6
<1>10. ASSUME NEW i \in Nat, i \in T PROVE i + 1 \in T
  <2> SUFFICES ASSUME i + 1 <= n
               PROVE  Midway(Read(q \o SubSeq(text, 1, i + 1)), c, text, i + 1, log)
    OBVIOUS
  <2>1. PICK z : z = q \o SubSeq(text, 1, i)
    OBVIOUS
  <2>2. PICK r : r = Read(z)
    OBVIOUS
  <2>3. Midway(r, c, text, i, log)
    BY <1>10, <2>1, <2>2
  <2>4. PICK ch \in Chars : ch = text[i + 1]
    BY <1>2, <1>8
  <2>5. z \in Seq(Chars) /\ q \o SubSeq(text, 1, i + 1) = Append(z, ch)
    <3>1. PICK s : s = SubSeq(text, 1, i)
      OBVIOUS
    <3>2. s \in Seq(Chars) /\ Len(s) = i
      BY <1>2, <1>8, <3>1, SubSeqProperties
    <3>3. SubSeq(text, 1, i + 1) = Append(s, ch)
      BY <1>2, <1>8, <2>4, <3>1
    <3>4. q \o Append(s, ch) = Append(q \o s, ch)
      BY <3>2
    <3>5. q \o s \in Seq(Chars)
      BY <3>2
    <3> QED BY <2>1, <3>1, <3>3, <3>4, <3>5
  <2>6. Read(Append(z, ch)) = ReadOne(r, ch)
    BY <2>2, <2>5, ReadAppend
  <2>7. Midway(ReadOne(r, ch), c, text, i + 1, log)
    <3>1. \A k \in 0 .. Len(text) : c[k] = Pieces(c, text, k) /\ c[k] \in Seq(Seq(Printed))
      BY <1>2, <1>6
    <3>2. i < Len(text)
      BY <1>2
    <3>3. Midway(ReadOne(r, text[i + 1]), c, text, i + 1, log)
      BY <2>3, <3>1, <3>2, OneMoreRead
    <3> QED BY <2>4, <3>3
  <2> QED BY <2>5, <2>6, <2>7
<1> HIDE DEF T
<1>11. n \in T
  BY <1>9, <1>10, SetInduction
<1>12. PICK z : z = q \o text
  OBVIOUS
<1>13. z \in Seq(Chars) /\ SubSeq(text, 1, n) = text
  BY <1>2, <1>8, <1>12
<1>14. Midway(Read(z), c, text, n, log)
  <2>1. Midway(Read(q \o SubSeq(text, 1, n)), c, text, n, log)
    BY <1>11 DEF T
  <2> QED BY <1>12, <1>13, <2>1
<1>15. ReadOne(Read(z), nl) = [theirs |-> Nothing, afterCr |-> FALSE, log |-> log]
  BY <1>1, <1>2, <1>6, <1>14, LineEnds
<1>16. PICK b : b = Append(z, nl)
  OBVIOUS
<1>17. b \in Seq(Chars) /\ Read(b) = [theirs |-> Nothing, afterCr |-> FALSE, log |-> log]
  BY <1>13, <1>15, <1>16, ReadAppend
<1>18. PICK said : said = Append(w.log, text)
  OBVIOUS
<1>19. said \in Seq(Seq(Printed)) /\ AsRead(said) = log
  BY <1>5, <1>6, <1>7, <1>18
<1>20. speak(w, text) = [mine |-> Nothing, log |-> said, wire |-> b]
  <2>1. w = [mine |-> w.mine, log |-> w.log, wire |-> w.wire]
    BY DEF ReadsAlike
  <2>2. w.wire \o Append(text, "newline") = b
    <3>1. q \o Append(text, nl) = Append(q \o text, nl)
      BY <1>8
    <3> QED BY <1>1, <1>3, <1>12, <1>16, <3>1
  <2>3. speak(w, text) = [w EXCEPT !.log = said, !.wire = b]
    BY <1>18, <2>2 DEF speak
  <2> QED BY <2>1, <2>3
<1>21. PICK v : v = speak(w, text)
  OBVIOUS
<1>22. v = [mine |-> v.mine, log |-> v.log, wire |-> v.wire] /\ v.wire = b /\ v.mine = Nothing
       /\ v.log = said
  BY <1>20, <1>21
<1>23. Short(Nothing)
  BY LinesAssumption DEF Short, Nothing
<1> QED BY <1>17, <1>19, <1>21, <1>22, <1>23 DEF ReadsAlike

\* In a call both ends make the same lines of the same keys, whatever is
\* erased, cut or ended, however long a line may be and whatever is typed or
\* said: what the one who types has in the log as said, the other has as heard,
\* and in pieces where it was said longer than a line may be.
THEOREM LinesAlwaysSame == SameLinesAlways
<1> SUFFICES ASSUME NEW script \in Scripts, Tidy(script) PROVE SameLines(script)
  BY DEF SameLinesAlways
<1>1. PICK n \in Nat : script \in [1 .. n -> Keystrokes \cup Sayings]
  BY LinesAssumption DEF Scripts
<1>2. Len(script) = n /\ DOMAIN script = 1 .. n
  BY <1>1
<1>3. PICK f : f = WrittenTo(script)
  OBVIOUS
<1>4. /\ f[0] = Writer
      /\ \A i \in 1 .. n : f[i] = Typed(f[i - 1], script[i])
  <2>1. Writes(f, script, n)
    BY <1>2, <1>3, WrittenIs
  <2> QED BY <2>1, WritesStep
<1> DEFINE T == {i \in Nat : i <= n => ReadsAlike(f[i], Read(f[i].wire))}
<1>5. 0 \in T
  <2>1. f[0].wire = <<>>
    BY <1>4 DEF Writer
  <2> QED BY <1>4, <2>1, NothingRead
<1>6. ASSUME NEW i \in Nat, i \in T PROVE i + 1 \in T
  <2> SUFFICES ASSUME i + 1 <= n PROVE ReadsAlike(f[i + 1], Read(f[i + 1].wire))
    OBVIOUS
  <2>1. PICK j : j = i + 1
    OBVIOUS
  <2>2. j \in 1 .. n /\ j - 1 = i
    BY <2>1
  <2>3. PICK w : w = f[i]
    OBVIOUS
  <2>4. ReadsAlike(w, Read(w.wire))
    BY <1>6, <2>3
  <2>5. f[j] = Typed(w, script[j]) /\ script[j] \in Keystrokes \cup Sayings
    BY <1>1, <1>4, <2>2, <2>3
  <2>6. CASE script[j] \in Sayings
    <3>1. PICK text \in Texts : script[j] = [by |-> "say", text |-> text]
      BY <2>6 DEF Sayings
    <3>2. script[j].by = "say" /\ script[j].text = text
      BY <3>1
    <3>3. w.mine = Nothing
      BY <1>2, <1>3, <2>2, <2>3, <3>2 DEF Tidy
    <3>4. f[j] = speak(w, text)
      BY <2>5, <3>2 DEF Typed
    <3>5. text \in Seq(Printed) /\ text # <<>>
      BY LinesAssumption DEF Printed
    <3> QED BY <2>1, <2>4, <3>3, <3>4, <3>5, LineFollowed
  <2>7. CASE script[j] \in Keystrokes
    <3>1. PICK ch \in Chars : script[j] = [by |-> "key", text |-> <<ch>>]
      BY <2>7 DEF Keystrokes
    <3>2. script[j].by = "key" /\ script[j].text = <<ch>> /\ <<ch>>[1] = ch
      BY <3>1
    <3>3. f[j] = keys(w, ch)
      BY <2>5, <3>2 DEF Typed
    <3> QED BY <2>1, <2>4, <3>3, KeyFollowed
  <2> QED BY <2>5, <2>6, <2>7
<1> HIDE DEF T
<1>7. n \in T
  BY <1>5, <1>6, SetInduction
<1>8. PICK w : w = Written(script)
  OBVIOUS
<1>9. w = f[n] /\ ReadsAlike(w, Read(w.wire))
  BY <1>2, <1>3, <1>7, <1>8 DEF Written, T
<1> QED BY <1>8, <1>9 DEF SameLines, ReadsAlike

-----------------------------------------------------------------------------
(* The calls: the invariant                                                *)

\* The numbers of the calls listed, before and after they are connected, and
\* of all that have not ended.
Waiting == {objs[c].tid : c \in {d \in Calls : ~objs[d].data}}
Joined == {objs[c].tid : c \in {d \in Calls : objs[d].data}}
Held == {objs[c].tid : c \in Live}

\* The numbers given so far: by us, one for each call, and by this talkd.
TalkdTids == {"t"} \X (1 .. MaxCalls)
Ours(n) == {<<"c", k>> : k \in 1 .. n}
Theirs(n) == {<<"t", k>> : k \in 1 .. n - 1}
Given == Ours(Len(objs)) \cup Theirs(nextT)

Asks == {"CALL", "ACCEPT", "DECLINE", "HANGUP"}
Refuses == {"DECLINE", "HANGUP"}
Tells == {"RING", "STATE", "CONNECT", "GONE"}
Settles == {"CONNECT", "GONE"}

Object == [conv : Peers \cup {NoPeer}, tid : Tids, outgoing : BOOLEAN,
           data : BOOLEAN, live : BOOLEAN, accepted : BOOLEAN]
Message == [word : Words, tid : Tids, peer : Peers \cup {NoPeer}]

\* What the adapter has of the calls, each by itself.
CallTypes ==
    /\ objs \in Seq(Object)
    /\ calls \in Seq(Live) /\ \A i, j \in DOMAIN calls :
         objs[calls[i]].tid = objs[calls[j]].tid => i = j
    /\ state \in [Peers -> Shown] /\ open \subseteq Peers
    /\ crossed \subseteq Peers /\ mixed \subseteq TalkdTids
NumberedOnce ==
    /\ \A c \in DOMAIN objs :
         IF objs[c].outgoing THEN objs[c].tid = <<"c", c>> ELSE objs[c].tid \in TalkdTids
    /\ \A c, d \in Live : c # d /\ objs[c].tid = objs[d].tid => objs[c].tid \in mixed
Fitting(c) == IF objs[c].data THEN {"connected"}
              ELSE IF objs[c].outgoing THEN {"calling", "ringing"} ELSE {"incoming"}
Shows ==
    \A p \in Peers :
      /\ p \in crossed => LiveWith(p) # {}
      /\ LiveWith(p) = {} => state[p] \in {"", "ended"}
      /\ p \notin crossed => /\ \A c, d \in LiveWith(p) : c = d
                             /\ \A c \in LiveWith(p) \cap Calls : state[p] \in Fitting(c)
CallPart == CallTypes /\ NumberedOnce /\ Shows /\ CallsAreListed

\* What is with talkd, and on the wire.
WireTypes ==
    /\ auto_answer \in BOOLEAN
    /\ phase \in {"down", "connecting", "hello", "up"}
    /\ acct \in {"disconnected", "connecting", "connected", "error"}
    /\ nextT \in 1 .. MaxCalls + 1
    /\ lines \subseteq [tid : Tids, peer : Peers,
                        st : {"offered", "calling", "answered", "linked"}]
    /\ toTalkd \in Seq(Message) /\ toUs \in Seq(Message)
    /\ Len(objs) + Cardinality(Rings(toUs)) <= MaxCalls
GivenOut ==
    /\ Waiting \subseteq Given
    /\ \A ln \in lines : /\ ln.tid \in Given
                         /\ ln.st = "calling" => ln.tid \in Ours(Len(objs))
    /\ \A i \in DOMAIN toTalkd :
         /\ toTalkd[i].word \in Asks
         /\ toTalkd[i].word = "CALL" => toTalkd[i].tid \in Ours(Len(objs)) /\ toTalkd[i].peer \in Peers
         /\ toTalkd[i].word = "DECLINE" => toTalkd[i].tid \in Theirs(nextT)
         /\ toTalkd[i].tid \in Ours(Len(objs)) \cup TalkdTids
    /\ \A i \in DOMAIN toUs :
         /\ toUs[i].word \in Tells
         /\ toUs[i].word = "RING" => toUs[i].tid \in Theirs(nextT) /\ toUs[i].peer \in Peers
         /\ toUs[i].word = "STATE" => toUs[i].tid \in Ours(Len(objs))
         /\ toUs[i].tid \in Given
Offline ==
    phase # "up" => lines = {} /\ toTalkd = <<>> /\ toUs = <<>> /\ Waiting = {}
OneLine == \A k, l \in lines : k.tid = l.tid => k = l

\* Where one number is two calls', talkd gave it twice.
SameNumber ==
    /\ \A i \in DOMAIN toUs : toUs[i].word = "RING" =>
         /\ toUs[i].tid \in Held => toUs[i].tid \in mixed
         /\ OnWire(toTalkd, Refuses, toUs[i].tid) => toUs[i].tid \in mixed
         /\ \A j \in DOMAIN toUs : toUs[j].word = "RING" /\ toUs[j].tid = toUs[i].tid => i = j
    /\ \A t \in Waiting \cup Joined : OnWire(toTalkd, Refuses, t) => t \in mixed

\* A CALL on its way: talkd knows nothing of the call yet.
Asked ==
    \A i \in DOMAIN toTalkd : toTalkd[i].word = "CALL" =>
      /\ ~Known(toTalkd[i].tid) /\ ~OnWire(toUs, Tells, toTalkd[i].tid)
      /\ \A j \in DOMAIN toTalkd :
           toTalkd[j].word = "CALL" /\ toTalkd[j].tid = toTalkd[i].tid => i = j
      /\ \/ toTalkd[i].tid \in Waiting
         \/ \E j \in DOMAIN toTalkd :
              i < j /\ toTalkd[j].word = "HANGUP" /\ toTalkd[j].tid = toTalkd[i].tid
RingKnown ==
    \A i \in DOMAIN toUs : toUs[i].word = "RING" =>
      \/ toUs[i].tid \in mixed \/ Known(toUs[i].tid)
      \/ \E j \in DOMAIN toUs : i < j /\ toUs[j].word \in Settles /\ toUs[j].tid = toUs[i].tid

\* What was said of a call last is how it is with talkd.
SaidLast ==
    \A j \in DOMAIN toUs : toUs[j].word \in Settles =>
      /\ \A ln \in lines : ln.tid = toUs[j].tid => ln.st = "linked"
      /\ \A i \in DOMAIN toUs : toUs[i].word = "STATE" /\ toUs[i].tid = toUs[j].tid => i < j
Progress ==
    \A t \in Joined : /\ \A ln \in lines : ln.tid = t => ln.st # "calling"
                      /\ ~OnWire(toUs, {"STATE"}, t)

\* What RingIsReal and NobodyWaitsUnseen promise, by number.
Real ==
    \A t \in Waiting \ mixed :
      Known(t) \/ OnWire(toTalkd, {"CALL"}, t) \/ OnWire(toUs, Settles, t)
Unseen ==
    \A ln \in lines : ln.st # "linked" =>
      \/ ln.tid \in Waiting \/ OnWire(toUs, {"RING"}, ln.tid)
      \/ OnWire(toTalkd, Refuses, ln.tid) \/ ln.tid \in mixed

WirePart == /\ WireTypes /\ GivenOut /\ Offline /\ OneLine /\ SameNumber /\ Asked
            /\ RingKnown /\ SaidLast /\ Progress /\ Real /\ Unseen
TalkInv == CallPart /\ WirePart

-----------------------------------------------------------------------------
(* Numbers, wires and the dict                                             *)

\* Each counts on from what it has given, and no two numbers are the same.
LEMMA Numbers ==
    ASSUME NEW n \in Nat
    PROVE  /\ Ours(n) \subseteq Ours(n + 1) /\ <<"c", n + 1>> \in Ours(n + 1)
           /\ <<"c", n + 1>> \notin Ours(n)
           /\ Theirs(n) \subseteq Theirs(n + 1) /\ (n # 0 => <<"t", n>> \in Theirs(n + 1))
           /\ <<"t", n>> \notin Theirs(n)
           /\ Theirs(1) = {}
           /\ \A t \in Ours(n) : \A S : t \notin {"t"} \X S
           /\ \A t \in Theirs(n) : \A m \in Nat : t \notin Ours(m)
           /\ \A m \in Nat : n <= m => Ours(n) \subseteq {"c", "t"} \X (1 .. m)
           /\ \A m \in Nat : n <= m + 1 => Theirs(n) \subseteq {"t"} \X (1 .. m)
<1>1. /\ Ours(n) \subseteq Ours(n + 1) /\ <<"c", n + 1>> \in Ours(n + 1)
      /\ <<"c", n + 1>> \notin Ours(n)
  BY DEF Ours
<1>2. /\ Theirs(n) \subseteq Theirs(n + 1) /\ (n # 0 => <<"t", n>> \in Theirs(n + 1))
      /\ <<"t", n>> \notin Theirs(n) /\ Theirs(1) = {}
  BY DEF Theirs
<1>3. \A t \in Ours(n) : \A S : t \notin {"t"} \X S
  BY DEF Ours
<1>4. \A t \in Theirs(n) : \A m \in Nat : t \notin Ours(m)
  BY DEF Theirs, Ours
<1>5. \A m \in Nat : n <= m => Ours(n) \subseteq {"c", "t"} \X (1 .. m)
  BY DEF Ours
<1>6. \A m \in Nat : n <= m + 1 => Theirs(n) \subseteq {"t"} \X (1 .. m)
  BY DEF Theirs
<1> QED BY <1>1, <1>2, <1>3, <1>4, <1>5, <1>6

\* The one who reads a wire takes its first message and leaves the others in order
LEMMA WireRead ==
    ASSUME NEW q, q \in Seq(Message), q # <<>>
    PROVE  /\ Tail(q) \in Seq(Message) /\ Head(q) \in Message
           /\ 1 \in DOMAIN q /\ Head(q) = q[1] /\ DOMAIN q \subseteq Nat \ {0}
           /\ DOMAIN Tail(q) \subseteq Nat \ {0}
           /\ \A i \in DOMAIN Tail(q) : i + 1 \in DOMAIN q /\ Tail(q)[i] = q[i + 1]
           /\ \A i \in DOMAIN q : i # 1 => i - 1 \in DOMAIN Tail(q) /\ Tail(q)[i - 1] = q[i]
           /\ \A ws, t : OnWire(Tail(q), ws, t) => OnWire(q, ws, t)
           /\ \A ws, t : OnWire(q, ws, t) =>
                OnWire(Tail(q), ws, t) \/ (Head(q).word \in ws /\ Head(q).tid = t)
<1>1. PICK z : z = Tail(q)
  OBVIOUS
<1>2. /\ z \in Seq(Message) /\ Head(q) \in Message
      /\ 1 \in DOMAIN q /\ Head(q) = q[1] /\ DOMAIN q \subseteq Nat \ {0}
      /\ DOMAIN z \subseteq Nat \ {0}
  BY <1>1
<1>3. \A i \in DOMAIN z : i + 1 \in DOMAIN q /\ z[i] = q[i + 1]
  BY <1>1
<1>4. \A i \in DOMAIN q : i # 1 => i - 1 \in DOMAIN z /\ z[i - 1] = q[i]
  BY <1>1
<1>5. \A ws, t : OnWire(z, ws, t) => OnWire(q, ws, t)
  BY <1>3 DEF OnWire
<1>6. ASSUME NEW ws, NEW t, OnWire(q, ws, t)
      PROVE  OnWire(z, ws, t) \/ (Head(q).word \in ws /\ Head(q).tid = t)
  BY <1>2, <1>4, <1>6 DEF OnWire
<1> QED BY <1>1, <1>2, <1>3, <1>4, <1>5, <1>6

\* The one who writes to a wire puts a message behind those it has
LEMMA WireWritten ==
    ASSUME NEW q, q \in Seq(Message), NEW m \in Message
    PROVE  /\ Append(q, m) \in Seq(Message)
           /\ DOMAIN q \subseteq Nat \ {0} /\ Len(q) + 1 \in Nat
           /\ DOMAIN Append(q, m) = DOMAIN q \cup {Len(q) + 1}
           /\ \A i \in DOMAIN q : i < Len(q) + 1 /\ Append(q, m)[i] = q[i]
           /\ Append(q, m)[Len(q) + 1] = m
           /\ \A ws, t : OnWire(Append(q, m), ws, t)
                           <=> OnWire(q, ws, t) \/ (m.word \in ws /\ m.tid = t)
<1>1. PICK z : z = Append(q, m)
  OBVIOUS
<1>2. /\ z \in Seq(Message) /\ DOMAIN q \subseteq Nat \ {0} /\ Len(q) + 1 \in Nat
      /\ DOMAIN z = DOMAIN q \cup {Len(q) + 1} /\ z[Len(q) + 1] = m
  BY <1>1
<1>3. \A i \in DOMAIN q : i < Len(q) + 1 /\ z[i] = q[i]
  BY <1>1
<1>4. ASSUME NEW ws, NEW t
      PROVE  OnWire(z, ws, t) <=> OnWire(q, ws, t) \/ (m.word \in ws /\ m.tid = t)
  BY <1>2, <1>3 DEF OnWire
<1> QED BY <1>1, <1>2, <1>3, <1>4

\* call_of(): one of the conversation's calls, unless it has none.
LEMMA FirstIsTheirs ==
    ASSUME NEW T, NEW cs, cs \in Seq(T), NEW os, T \subseteq DOMAIN os, NEW p
    PROVE  /\ \A c \in FirstOf(cs, os, p) : c \in Range(cs) /\ os[c].conv = p
           /\ \A c, d \in FirstOf(cs, os, p) : c = d
           /\ FirstOf(cs, os, p) = {} => \A c \in Range(cs) : os[c].conv # p
<1> DEFINE S == {c \in DOMAIN os : os[c].conv = p}
<1>1. PICK k : k = Keep(cs, S)
  OBVIOUS
<1>2. FirstOf(cs, os, p) = IF k = <<>> THEN {} ELSE {Head(k)}
  BY <1>1 DEF FirstOf
<1>3. /\ k = <<>> <=> \A j \in DOMAIN cs : cs[j] \notin S
      /\ k # <<>> => \E j \in DOMAIN cs : /\ Head(k) = cs[j] /\ cs[j] \in S
                                          /\ \A i \in 1 .. j - 1 : cs[i] \notin S
  <2> HIDE DEF S
  <2> QED BY <1>1, KeepFirst
<1>4. \A j \in DOMAIN cs : cs[j] \in T
  OBVIOUS
<1> QED BY <1>2, <1>3, <1>4 DEF Range

\* What is left of the dict.
Once(cs) == \A i, j \in DOMAIN cs : cs[i] = cs[j] => i = j

\* Taking calls out of the dict leaves the others, each once
LEMMA DictWithout ==
    ASSUME NEW T, NEW cs \in Seq(T), NEW S, Once(cs)
    PROVE  /\ Keep(cs, S) \in Seq(T \cap S) /\ Range(Keep(cs, S)) = Range(cs) \cap S
           /\ Once(Keep(cs, S))
<1>1. PICK z : z = Keep(cs, S)
  OBVIOUS
<1>2. /\ Keep(cs, S) \in Seq(T \cap S)
      /\ \A i \in DOMAIN Keep(cs, S) : \E j \in DOMAIN cs : Keep(cs, S)[i] = cs[j]
      /\ \A j \in DOMAIN cs :
           cs[j] \in S => \E i \in DOMAIN Keep(cs, S) : Keep(cs, S)[i] = cs[j]
  <2> QED BY KeepMembers
<1>3. Once(Keep(cs, S))
  BY KeepOnce DEF Once
<1>4. /\ z \in Seq(T \cap S)
      /\ \A i \in DOMAIN z : \E j \in DOMAIN cs : z[i] = cs[j]
      /\ \A j \in DOMAIN cs : cs[j] \in S => \E i \in DOMAIN z : z[i] = cs[j]
  BY <1>1, <1>2
<1>5. \A i \in DOMAIN z : z[i] \in S
  BY <1>4
<1>6. Range(z) = Range(cs) \cap S
  BY <1>4, <1>5 DEF Range
<1> QED BY <1>1, <1>3, <1>4, <1>6

\* What the types of the calls say of their list: the dict has live calls only, one of a number
LEMMA CallFacts ==
    ASSUME CallTypes
    PROVE  /\ Len(objs) \in Nat /\ DOMAIN objs = 1 .. Len(objs)
           /\ Calls \subseteq Live /\ Live \subseteq DOMAIN objs
           /\ \A c \in DOMAIN objs : objs[c] \in Object
           /\ \A c, d \in Calls : objs[c].tid = objs[d].tid => c = d
           /\ Once(calls)
<1>1. objs \in Seq(Object) /\ calls \in Seq(Live)
  BY DEF CallTypes
<1>2. \A i, j \in DOMAIN calls : objs[calls[i]].tid = objs[calls[j]].tid => i = j
  BY DEF CallTypes
<1>3. Calls \subseteq Live
  BY <1>1 DEF Calls, Range
<1>4. Live \subseteq DOMAIN objs
  BY DEF Live
<1>5. \A c, d \in Calls : objs[c].tid = objs[d].tid => c = d
  BY <1>2 DEF Calls, Range
<1>6. Once(calls)
  BY <1>2 DEF Once
<1>7. Len(objs) \in Nat /\ DOMAIN objs = 1 .. Len(objs) /\ \A c \in DOMAIN objs : objs[c] \in Object
  BY <1>1
<1> QED BY <1>3, <1>4, <1>5, <1>6, <1>7

-----------------------------------------------------------------------------
(* The calls: what each handler makes of them                              *)

\* _ended(): the calls of a number are gone together.
EndedAs(es) ==
    /\ objs' \in Seq(Object) /\ Len(objs') = Len(objs) /\ DOMAIN objs' = DOMAIN objs
    /\ \A c \in DOMAIN objs : /\ objs'[c].conv = objs[c].conv /\ objs'[c].tid = objs[c].tid
                               /\ objs'[c].outgoing = objs[c].outgoing
    /\ \A c \in DOMAIN objs \ es : objs'[c] = objs[c]
    /\ Live' = Live \ es
    /\ Calls' = {c \in Calls : \A e \in es : objs[c].tid # objs[e].tid}
    /\ calls' \in Seq(Live') /\ Once(calls')

\* _ended(): the calls are over, their conversations idle, the dict has the calls of other numbers
LEMMA Ends ==
    ASSUME CallTypes, NEW es, es \subseteq Live, _ended(es)
    PROVE  EndedAs(es)
<1> DEFINE S == {c \in DOMAIN objs : \A e \in es : objs[c].tid # objs[e].tid}
<1>1. /\ Len(objs) \in Nat /\ DOMAIN objs = 1 .. Len(objs)
      /\ Calls \subseteq Live /\ Live \subseteq DOMAIN objs
      /\ \A c \in DOMAIN objs : objs[c] \in Object
      /\ Once(calls)
  BY CallFacts
<1>2. /\ objs' = [c \in DOMAIN objs |-> IF c \in es THEN Over(objs[c]) ELSE objs[c]]
      /\ calls' = Keep(calls, S)
  BY DEF _ended
<1>3. \A c \in DOMAIN objs : objs'[c] = IF c \in es THEN Over(objs[c]) ELSE objs[c]
  BY <1>2
<1>4. ASSUME NEW r \in Object
      PROVE  /\ Over(r) \in Object /\ Over(r).conv = r.conv /\ Over(r).tid = r.tid
             /\ Over(r).outgoing = r.outgoing /\ ~Over(r).live
  BY DEF Over, Object
<1>5. \A c \in DOMAIN objs : objs'[c] \in Object
  BY <1>1, <1>3, <1>4
<1>6. objs' \in Seq(Object) /\ Len(objs') = Len(objs) /\ DOMAIN objs' = DOMAIN objs
  <2>1. PICK n \in Nat : n = Len(objs) /\ DOMAIN objs = 1 .. n
    BY <1>1
  <2>2. PICK f : f = objs'
    OBVIOUS
  <2>3. DOMAIN f = 1 .. n /\ f = [c \in 1 .. n |-> f[c]] /\ \A c \in 1 .. n : f[c] \in Object
    BY <1>2, <1>5, <2>1, <2>2
  <2>4. f \in Seq(Object) /\ Len(f) = n
    BY <2>3
  <2> QED BY <2>1, <2>2, <2>3, <2>4
<1>7. /\ \A c \in DOMAIN objs : /\ objs'[c].conv = objs[c].conv /\ objs'[c].tid = objs[c].tid
                                 /\ objs'[c].outgoing = objs[c].outgoing
      /\ \A c \in DOMAIN objs \ es : objs'[c] = objs[c]
      /\ \A c \in es : ~objs'[c].live
  BY <1>1, <1>3, <1>4
<1>8. Live' = Live \ es
  <2>1. \A c : c \in Live' <=> c \in DOMAIN objs' /\ objs'[c].live
    BY DEF Live
  <2>2. \A c : c \in Live <=> c \in DOMAIN objs /\ objs[c].live
    BY DEF Live
  <2> QED BY <1>1, <1>6, <1>7, <2>1, <2>2
<1>9. /\ calls' \in Seq(Live \cap S) /\ Range(calls') = Range(calls) \cap S
      /\ Once(calls')
  <2>1. calls \in Seq(Live)
    BY DEF CallTypes
  <2> HIDE DEF S
  <2> QED BY <1>1, <1>2, <2>1, DictWithout
<1>10. Calls' = {c \in Calls : \A e \in es : objs[c].tid # objs[e].tid}
  BY <1>1, <1>9 DEF Calls
<1>11. calls' \in Seq(Live')
  <2>1. Live \cap S \subseteq Live'
    BY <1>8
  <2>2. PICK z : z = calls'
    OBVIOUS
  <2>3. PICK A : A = Live \cap S
    OBVIOUS
  <2>4. PICK B : B = Live'
    OBVIOUS
  <2>5. z \in Seq(A) /\ A \subseteq B
    BY <1>9, <2>1, <2>2, <2>3, <2>4
  <2>6. z \in Seq(B)
    BY <2>5
  <2> QED BY <2>2, <2>4, <2>6
<1> QED BY <1>6, <1>7, <1>8, <1>9, <1>10, <1>11 DEF EndedAs

\* A dict without a call twice or a number twice has one place for each number
LEMMA OncePerTid ==
    ASSUME NEW cs, Once(cs), NEW os, \A c, d \in Range(cs) : os[c].tid = os[d].tid => c = d
    PROVE  \A i, j \in DOMAIN cs : os[cs[i]].tid = os[cs[j]].tid => i = j
<1> SUFFICES ASSUME NEW i \in DOMAIN cs, NEW j \in DOMAIN cs, os[cs[i]].tid = os[cs[j]].tid
             PROVE  i = j
  OBVIOUS
<1>1. cs[i] \in Range(cs) /\ cs[j] \in Range(cs)
  BY DEF Range
<1>2. cs[i] = cs[j]
  BY <1>1
<1> QED BY <1>2 DEF Once

\* The parts about calls, as facts to cite.
LEMMA CallPartFacts ==
    ASSUME CallPart
    PROVE  /\ \A c \in DOMAIN objs :
                IF objs[c].outgoing THEN objs[c].tid = <<"c", c>> ELSE objs[c].tid \in TalkdTids
           /\ \A c, d \in Live : c # d /\ objs[c].tid = objs[d].tid => objs[c].tid \in mixed
           /\ \A p \in Peers :
                /\ p \in crossed => LiveWith(p) # {}
                /\ LiveWith(p) = {} => state[p] \in {"", "ended"}
                /\ p \notin crossed => /\ \A c, d \in LiveWith(p) : c = d
                                       /\ \A c \in LiveWith(p) \cap Calls : state[p] \in Fitting(c)
           /\ \A c \in Live : c \in Calls \/ objs[c].tid \in mixed
BY DEF CallPart, NumberedOnce, Shows, CallsAreListed

\* _ended() leaves the calls in order.
EndedNumbers(es) ==
    /\ Waiting' = {t \in Waiting : \A e \in es : t # objs[e].tid}
    /\ Joined' = {t \in Joined : \A e \in es : t # objs[e].tid}
    /\ Held' \subseteq Held

\* When calls end, what is shown and listed of the others stays true
LEMMA EndedCalls ==
    ASSUME CallPart, NEW es, es \subseteq Live, _ended(es), open' \subseteq Peers
    PROVE  CallPart' /\ EndedNumbers(es) /\ Len(objs') = Len(objs) /\ mixed' = mixed
<1>0. CallTypes
  BY DEF CallPart
<1>1. /\ Len(objs) \in Nat /\ DOMAIN objs = 1 .. Len(objs)
      /\ Calls \subseteq Live /\ Live \subseteq DOMAIN objs
      /\ \A c \in DOMAIN objs : objs[c] \in Object
      /\ \A c, d \in Calls : objs[c].tid = objs[d].tid => c = d
  BY <1>0, CallFacts
<1>2. /\ objs' \in Seq(Object) /\ Len(objs') = Len(objs) /\ DOMAIN objs' = DOMAIN objs
      /\ \A c \in DOMAIN objs : /\ objs'[c].conv = objs[c].conv /\ objs'[c].tid = objs[c].tid
                                /\ objs'[c].outgoing = objs[c].outgoing
      /\ \A c \in DOMAIN objs \ es : objs'[c] = objs[c]
      /\ Live' = Live \ es
      /\ Calls' = {c \in Calls : \A e \in es : objs[c].tid # objs[e].tid}
      /\ calls' \in Seq(Live') /\ Once(calls')
  BY <1>0, Ends DEF EndedAs
<1>3. /\ state' = [p \in Peers |-> IF \E e \in es : objs[e].conv = p THEN "ended" ELSE state[p]]
      /\ crossed' = {p \in crossed : LiveWith(p) \ es # {}}
      /\ mixed' = mixed
  BY DEF _ended
<1>4. /\ state \in [Peers -> Shown] /\ crossed \subseteq Peers /\ mixed \subseteq TalkdTids
  BY <1>0 DEF CallTypes
<1>5. \A c \in Calls' : c \in Calls /\ c \notin es /\ objs'[c] = objs[c] /\ c \in Live'
  BY <1>1, <1>2
<1>6. CallTypes'
  <2>1. \A i, j \in DOMAIN calls' : objs'[calls'[i]].tid = objs'[calls'[j]].tid => i = j
    <3>1. PICK cs : cs = calls'
      OBVIOUS
    <3>2. PICK os : os = objs'
      OBVIOUS
    <3>3. \A c, d \in Range(cs) : os[c].tid = os[d].tid => c = d
      <4>1. Range(cs) = Calls'
        BY <3>1 DEF Calls
      <4> QED BY <1>1, <1>5, <3>2, <4>1
    <3>4. \A i, j \in DOMAIN cs : os[cs[i]].tid = os[cs[j]].tid => i = j
      BY <1>2, <3>1, <3>3, OncePerTid
    <3> QED BY <3>1, <3>2, <3>4
  <2>2. state' \in [Peers -> Shown]
    BY <1>3, <1>4 DEF Shown
  <2> QED BY <1>2, <1>3, <1>4, <2>1, <2>2 DEF CallTypes
<1>7. NumberedOnce'
  <2>1. ASSUME NEW c \in DOMAIN objs'
        PROVE  IF objs'[c].outgoing THEN objs'[c].tid = <<"c", c>> ELSE objs'[c].tid \in TalkdTids
    BY <1>2, CallPartFacts
  <2>2. ASSUME NEW c \in Live', NEW d \in Live', c # d, objs'[c].tid = objs'[d].tid
        PROVE  objs'[c].tid \in mixed'
    BY ZenonT(30), <1>1, <1>2, <1>3, <2>2, CallPartFacts
  <2> QED BY <2>1, <2>2 DEF NumberedOnce
<1>8. CallsAreListed'
  <2> SUFFICES ASSUME NEW c \in Live', c \notin Calls' PROVE objs'[c].tid \in mixed'
    BY DEF CallsAreListed
  <2>1. c \in Live /\ c \notin es /\ objs'[c].tid = objs[c].tid
    BY <1>1, <1>2
  <2>2. CASE c \notin Calls
    BY <1>3, <2>1, <2>2, CallPartFacts
  <2>3. CASE \E e \in es : objs[c].tid = objs[e].tid
    BY <1>3, <2>1, <2>3, CallPartFacts
  <2> QED BY <1>2, <2>2, <2>3
<1>9. Shows'
  <2> SUFFICES ASSUME NEW p \in Peers
               PROVE  (/\ p \in crossed => LiveWith(p) # {}
                       /\ LiveWith(p) = {} => state[p] \in {"", "ended"}
                       /\ p \notin crossed =>
                            /\ \A c, d \in LiveWith(p) : c = d
                            /\ \A c \in LiveWith(p) \cap Calls : state[p] \in Fitting(c))'
    BY DEF Shows
  <2>1. LiveWith(p)' = LiveWith(p) \ es
    BY <1>1, <1>2 DEF LiveWith
  <2>2. state'[p] = IF \E e \in es : objs[e].conv = p THEN "ended" ELSE state[p]
    BY <1>3
  <2>3. p \in crossed' <=> p \in crossed /\ LiveWith(p) \ es # {}
    BY <1>3
  <2>4. ASSUME LiveWith(p)' = {} PROVE state'[p] \in {"", "ended"}
    <3>1. CASE \E e \in es : objs[e].conv = p
      BY <2>2, <3>1
    <3>2. CASE ~\E e \in es : objs[e].conv = p
      <4>1. LiveWith(p) = {}
        BY <2>1, <2>4, <3>2 DEF LiveWith
      <4> QED BY <2>2, <3>2, <4>1, CallPartFacts
    <3> QED BY <3>1, <3>2
  <2>5. ASSUME p \notin crossed', NEW c \in LiveWith(p)'
        PROVE  p \notin crossed /\ c \in LiveWith(p) /\ c \notin es
    BY <2>1, <2>3, <2>5
  <2>6. ASSUME p \notin crossed', NEW c \in LiveWith(p)', c \in Calls'
        PROVE  state'[p] \in Fitting(c)'
    <3>1. p \notin crossed /\ c \in LiveWith(p) /\ c \notin es /\ c \in Calls
      BY <1>5, <2>5, <2>6
    <3>2. ~\E e \in es : objs[e].conv = p
      <4>1. \A e \in es : objs[e].conv = p => e \in LiveWith(p)
        BY DEF LiveWith
      <4> QED BY ZenonT(30), <3>1, <4>1, CallPartFacts
    <3>3. state'[p] = state[p] /\ state[p] \in Fitting(c)
      BY <2>2, <3>1, <3>2, CallPartFacts
    <3>4. objs'[c] = objs[c]
      BY <1>5, <2>6
    <3> QED BY <3>3, <3>4 DEF Fitting
  <2>7. ASSUME p \notin crossed', NEW c \in LiveWith(p)', NEW d \in LiveWith(p)'
        PROVE  c = d
    BY <2>5, <2>7, CallPartFacts
  <2> QED BY <2>1, <2>3, <2>4, <2>6, <2>7
<1>10. EndedNumbers(es)
  <2>1. Waiting' = {t \in Waiting : \A e \in es : t # objs[e].tid}
    <3>1. ASSUME NEW t \in Waiting' PROVE t \in Waiting /\ \A e \in es : t # objs[e].tid
      <4>1. PICK c \in Calls' : ~objs'[c].data /\ t = objs'[c].tid
        BY <3>1 DEF Waiting
      <4> QED BY <1>2, <1>5, <4>1 DEF Waiting
    <3>2. ASSUME NEW t \in Waiting, \A e \in es : t # objs[e].tid PROVE t \in Waiting'
      <4>1. PICK c \in Calls : ~objs[c].data /\ t = objs[c].tid
        BY <3>2 DEF Waiting
      <4>2. c \in Calls' /\ objs'[c] = objs[c]
        BY <1>2, <1>5, <3>2, <4>1
      <4> QED BY <4>1, <4>2 DEF Waiting
    <3> QED BY <3>1, <3>2
  <2>2. Joined' = {t \in Joined : \A e \in es : t # objs[e].tid}
    <3>1. ASSUME NEW t \in Joined' PROVE t \in Joined /\ \A e \in es : t # objs[e].tid
      <4>1. PICK c \in Calls' : objs'[c].data /\ t = objs'[c].tid
        BY <3>1 DEF Joined
      <4> QED BY <1>2, <1>5, <4>1 DEF Joined
    <3>2. ASSUME NEW t \in Joined, \A e \in es : t # objs[e].tid PROVE t \in Joined'
      <4>1. PICK c \in Calls : objs[c].data /\ t = objs[c].tid
        BY <3>2 DEF Joined
      <4>2. c \in Calls' /\ objs'[c] = objs[c]
        BY <1>2, <1>5, <3>2, <4>1
      <4> QED BY <4>1, <4>2 DEF Joined
    <3> QED BY <3>1, <3>2
  <2>3. Held' \subseteq Held
    <3> SUFFICES ASSUME NEW t \in Held' PROVE t \in Held
      OBVIOUS
    <3>1. PICK c \in Live' : t = objs'[c].tid
      BY DEF Held
    <3> QED BY <1>1, <1>2, <3>1 DEF Held
  <2> QED BY <2>1, <2>2, <2>3 DEF EndedNumbers
<1> QED BY <1>2, <1>3, <1>6, <1>7, <1>8, <1>9, <1>10 DEF CallPart

\* Steps that change no call's number, direction or life.
Reshaped ==
    /\ objs' \in Seq(Object) /\ Len(objs') = Len(objs) /\ DOMAIN objs' = DOMAIN objs
    /\ \A c \in DOMAIN objs : /\ objs'[c].tid = objs[c].tid
                              /\ objs'[c].outgoing = objs[c].outgoing
                              /\ objs'[c].live = objs[c].live
    /\ calls' = calls /\ mixed \subseteq mixed' /\ mixed' \subseteq TalkdTids
    /\ state' \in [Peers -> Shown] /\ open' \subseteq Peers /\ crossed' \subseteq Peers

\* A step that leaves the dict and the numbers alone leaves what is said of them
LEMMA ReshapedCalls ==
    ASSUME CallPart, Reshaped
    PROVE  /\ CallTypes' /\ NumberedOnce' /\ CallsAreListed'
           /\ Live' = Live /\ Calls' = Calls /\ Held' = Held
<1>0. CallTypes
  BY DEF CallPart
<1>1. /\ Len(objs) \in Nat /\ DOMAIN objs = 1 .. Len(objs)
      /\ Calls \subseteq Live /\ Live \subseteq DOMAIN objs
      /\ \A c, d \in Calls : objs[c].tid = objs[d].tid => c = d
      /\ Once(calls)
  BY <1>0, CallFacts
<1>2. /\ objs' \in Seq(Object) /\ Len(objs') = Len(objs) /\ DOMAIN objs' = DOMAIN objs
      /\ \A c \in DOMAIN objs : objs'[c].tid = objs[c].tid
      /\ \A c \in DOMAIN objs : objs'[c].outgoing = objs[c].outgoing
      /\ \A c \in DOMAIN objs : objs'[c].live = objs[c].live
      /\ calls' = calls /\ mixed \subseteq mixed' /\ mixed' \subseteq TalkdTids
      /\ state' \in [Peers -> Shown] /\ open' \subseteq Peers /\ crossed' \subseteq Peers
  BY DEF Reshaped
<1>3. Live' = Live
  <2>1. \A c : c \in Live' <=> c \in DOMAIN objs' /\ objs'[c].live
    BY DEF Live
  <2>2. \A c : c \in Live <=> c \in DOMAIN objs /\ objs[c].live
    BY DEF Live
  <2> QED BY <1>2, <2>1, <2>2
<1>4. Calls' = Calls
  BY <1>2 DEF Calls
<1>5. CallTypes'
  <2>1. calls \in Seq(Live) /\ \A i, j \in DOMAIN calls : objs[calls[i]].tid = objs[calls[j]].tid => i = j
    BY <1>0 DEF CallTypes
  <2>2. \A i \in DOMAIN calls : calls[i] \in DOMAIN objs
    BY <1>1 DEF Calls, Range
  <2>3. \A i, j \in DOMAIN calls' : objs'[calls'[i]].tid = objs'[calls'[j]].tid => i = j
    BY <1>2, <2>1, <2>2
  <2>4. calls' \in Seq(Live')
    BY <1>2, <1>3, <2>1
  <2> QED BY <1>2, <2>3, <2>4 DEF CallTypes
<1>6. NumberedOnce'
  <2>1. ASSUME NEW c \in DOMAIN objs'
        PROVE  IF objs'[c].outgoing THEN objs'[c].tid = <<"c", c>> ELSE objs'[c].tid \in TalkdTids
    BY <1>2, CallPartFacts
  <2>2. ASSUME NEW c \in Live', NEW d \in Live', c # d, objs'[c].tid = objs'[d].tid
        PROVE  objs'[c].tid \in mixed'
    BY <1>1, <1>2, <1>3, <2>2, CallPartFacts
  <2> QED BY <2>1, <2>2 DEF NumberedOnce
<1>7. CallsAreListed'
  BY <1>1, <1>2, <1>3, <1>4, CallPartFacts DEF CallsAreListed
<1>8. Held' = Held
  <2>1. \A c \in Live : objs'[c].tid = objs[c].tid
    BY <1>1, <1>2
  <2> QED BY <1>3, <2>1 DEF Held
<1> QED BY <1>3, <1>4, <1>5, <1>6, <1>7, <1>8

\* ... nor whether it is connected.
LEMMA ReshapedNumbers ==
    ASSUME CallPart, Reshaped, \A c \in DOMAIN objs : objs'[c].data = objs[c].data
    PROVE  Waiting' = Waiting /\ Joined' = Joined /\ Held' = Held
<1>1. Calls' = Calls /\ Held' = Held
  BY ReshapedCalls
<1>2. Calls \subseteq DOMAIN objs
  BY CallFacts DEF CallPart
<1>3. \A c \in Calls : objs'[c].tid = objs[c].tid
  BY <1>2 DEF Reshaped
<1>4. \A c \in Calls : objs'[c].data <=> objs[c].data
  BY <1>2
<1>7. Waiting' = Waiting
  <2>1. ASSUME NEW t \in Waiting' PROVE t \in Waiting
    <3>1. PICK c \in Calls' : ~objs'[c].data /\ t = objs'[c].tid
      BY <2>1 DEF Waiting
    <3> QED BY <1>1, <1>3, <1>4, <3>1 DEF Waiting
  <2>2. ASSUME NEW t \in Waiting PROVE t \in Waiting'
    <3>1. PICK c \in Calls : ~objs[c].data /\ t = objs[c].tid
      BY <2>2 DEF Waiting
    <3> QED BY <1>1, <1>3, <1>4, <3>1 DEF Waiting
  <2> QED BY <2>1, <2>2
<1>8. Joined' = Joined
  <2>1. ASSUME NEW t \in Joined' PROVE t \in Joined
    <3>1. PICK c \in Calls' : objs'[c].data /\ t = objs'[c].tid
      BY <2>1 DEF Joined
    <3> QED BY <1>1, <1>3, <1>4, <3>1 DEF Joined
  <2>2. ASSUME NEW t \in Joined PROVE t \in Joined'
    <3>1. PICK c \in Calls : objs[c].data /\ t = objs[c].tid
      BY <2>2 DEF Joined
    <3> QED BY <1>1, <1>3, <1>4, <3>1 DEF Joined
  <2> QED BY <2>1, <2>2
<1> QED BY <1>1, <1>7, <1>8

ShowsAt(p) ==
    /\ p \in crossed => LiveWith(p) # {}
    /\ LiveWith(p) = {} => state[p] \in {"", "ended"}
    /\ p \notin crossed => /\ \A c, d \in LiveWith(p) : c = d
                           /\ \A c \in LiveWith(p) \cap Calls : state[p] \in Fitting(c)

\* What is shown of all conversations is what is shown of each
LEMMA ShowsAll == CallPart => \A p \in Peers : ShowsAt(p)
BY DEF CallPart, Shows, ShowsAt
\* The same of the next state
LEMMA ShowsAllNext == (\A p \in Peers : ShowsAt(p)') => Shows'
BY DEF Shows, ShowsAt

\* Where nothing about a conversation changes, it still shows what is true.
LEMMA ShowsStill ==
    ASSUME NEW p \in Peers, ShowsAt(p), LiveWith(p)' = LiveWith(p), Calls' = Calls,
           state'[p] = state[p], p \in crossed' <=> p \in crossed,
           \A c \in LiveWith(p) : /\ objs'[c].data = objs[c].data
                                  /\ objs'[c].outgoing = objs[c].outgoing
    PROVE  ShowsAt(p)'
<1>1. \A c \in LiveWith(p) : Fitting(c)' = Fitting(c)
  BY DEF Fitting
<1> QED BY <1>1 DEF ShowsAt

\* Steps that touch no call.
LEMMA CallsStay ==
    ASSUME CallPart, UNCHANGED <<objs, calls, state, crossed>>, open' \subseteq Peers,
           mixed \subseteq mixed', mixed' \subseteq TalkdTids
    PROVE  CallPart' /\ Waiting' = Waiting /\ Joined' = Joined /\ Held' = Held
<1>1. Reshaped
  BY DEF CallPart, CallTypes, Reshaped
<1>2. CallTypes' /\ NumberedOnce' /\ CallsAreListed' /\ Live' = Live /\ Calls' = Calls
  BY <1>1, ReshapedCalls
<1>3. Waiting' = Waiting /\ Joined' = Joined /\ Held' = Held
  BY <1>1, ReshapedNumbers
<1>4. Shows'
  <2> SUFFICES ASSUME NEW p \in Peers PROVE ShowsAt(p)'
    BY ShowsAllNext
  <2>1. LiveWith(p)' = LiveWith(p)
    BY DEF LiveWith, Live
  <2> QED BY <1>2, <2>1, ShowsAll, ShowsStill
<1> QED BY <1>2, <1>3, <1>4 DEF CallPart

\* The one call that call_of() gives, if any, is a listed one.
LEMMA CallOf ==
    ASSUME CallTypes, NEW p
    PROVE  /\ \A c \in call_of(p) : c \in Calls /\ c \in LiveWith(p) /\ c \in DOMAIN objs
           /\ \A c, d \in call_of(p) : c = d
           /\ call_of(p) = {} => \A c \in Calls : objs[c].conv # p
<1>1. Calls \subseteq Live /\ Live \subseteq DOMAIN objs
  BY CallFacts
<1>2. PICK T : T = Live
  OBVIOUS
<1>3. PICK cs : cs = calls
  OBVIOUS
<1>4. PICK os : os = objs
  OBVIOUS
<1>5. cs \in Seq(T) /\ T \subseteq DOMAIN os
  BY <1>1, <1>2, <1>3, <1>4 DEF CallTypes
<1>6. /\ \A c \in FirstOf(cs, os, p) : c \in Range(cs) /\ os[c].conv = p
      /\ \A c, d \in FirstOf(cs, os, p) : c = d
      /\ FirstOf(cs, os, p) = {} => \A c \in Range(cs) : os[c].conv # p
  BY <1>5, FirstIsTheirs
<1>7. FirstOf(cs, os, p) = call_of(p) /\ Range(cs) = Calls
  BY <1>3, <1>4 DEF call_of, Calls
<1>8. \A c \in call_of(p) : c \in Calls /\ objs[c].conv = p
  BY <1>4, <1>6, <1>7
<1>9. \A c \in call_of(p) : c \in LiveWith(p) /\ c \in DOMAIN objs
  BY <1>1, <1>8 DEF LiveWith
<1>10. \A c, d \in call_of(p) : c = d
  BY <1>6, <1>7
<1>11. call_of(p) = {} => \A c \in Calls : objs[c].conv # p
  BY <1>4, <1>6, <1>7
<1> QED BY <1>8, <1>9, <1>10, <1>11

\* One field of a call.
LEMMA FieldsSet ==
    ASSUME NEW r \in Object
    PROVE  /\ LET s == [r EXCEPT !.accepted = TRUE]
              IN  /\ s \in Object /\ s.conv = r.conv /\ s.tid = r.tid /\ s.outgoing = r.outgoing
                  /\ s.live = r.live /\ s.data = r.data
           /\ LET s == [r EXCEPT !.data = TRUE]
              IN  /\ s \in Object /\ s.conv = r.conv /\ s.tid = r.tid /\ s.outgoing = r.outgoing
                  /\ s.live = r.live /\ s.data
           /\ LET s == [r EXCEPT !.conv = NoPeer]
              IN  /\ s \in Object /\ s.conv = NoPeer /\ s.tid = r.tid /\ s.outgoing = r.outgoing
                  /\ s.live = r.live /\ s.data = r.data
<1>1. r = [conv |-> r.conv, tid |-> r.tid, outgoing |-> r.outgoing, data |-> r.data,
           live |-> r.live, accepted |-> r.accepted]
  BY DEF Object
<1>2. /\ [r EXCEPT !.accepted = TRUE] \in Object
      /\ [r EXCEPT !.data = TRUE] \in Object
      /\ [r EXCEPT !.conv = NoPeer] \in Object
  BY DEF Object
<1>3. /\ [r EXCEPT !.accepted = TRUE].conv = r.conv /\ [r EXCEPT !.accepted = TRUE].tid = r.tid
      /\ [r EXCEPT !.data = TRUE].conv = r.conv /\ [r EXCEPT !.data = TRUE].tid = r.tid
      /\ [r EXCEPT !.conv = NoPeer].conv = NoPeer /\ [r EXCEPT !.conv = NoPeer].tid = r.tid
  BY <1>1
<1>4. /\ [r EXCEPT !.accepted = TRUE].outgoing = r.outgoing
      /\ [r EXCEPT !.data = TRUE].outgoing = r.outgoing
      /\ [r EXCEPT !.conv = NoPeer].outgoing = r.outgoing
  BY <1>1, Zenon
<1>5. /\ [r EXCEPT !.accepted = TRUE].live = r.live
      /\ [r EXCEPT !.data = TRUE].live = r.live
      /\ [r EXCEPT !.conv = NoPeer].live = r.live
  BY <1>1, Zenon
<1>6. /\ [r EXCEPT !.accepted = TRUE].data = r.data
      /\ [r EXCEPT !.data = TRUE].data
      /\ [r EXCEPT !.conv = NoPeer].data = r.data
  BY <1>1, Zenon
<1> QED BY <1>2, <1>3, <1>4, <1>5, <1>6

\* A sequence of objects with the same places.
LEMMA SameLength ==
    ASSUME NEW os \in Seq(Object), NEW f, DOMAIN f = DOMAIN os, f = [c \in DOMAIN os |-> f[c]],
           \A c \in DOMAIN os : f[c] \in Object
    PROVE  f \in Seq(Object) /\ Len(f) = Len(os)
<1>1. PICK n \in Nat : n = Len(os) /\ DOMAIN os = 1 .. n
  OBVIOUS
<1>2. f = [c \in 1 .. n |-> f[c]] /\ \A c \in 1 .. n : f[c] \in Object
  BY <1>1
<1>3. f \in Seq(Object) /\ Len(f) = n
  BY <1>2
<1> QED BY <1>1, <1>3

\* answer: the conversation's call is accepted, and shown as incoming.
LEMMA AcceptCalls ==
    ASSUME CallPart, NEW p \in Peers, NEW c \in call_of(p), Ringing(c), Accept(c)
    PROVE  /\ CallPart' /\ Waiting' = Waiting /\ Joined' = Joined /\ Held' = Held
           /\ objs[c].tid \in Waiting /\ Len(objs') = Len(objs)
<1>0. CallTypes
  BY DEF CallPart
<1>1. objs \in Seq(Object) /\ \A d \in DOMAIN objs : objs[d] \in Object
  BY <1>0, CallFacts DEF CallTypes
<1>2. c \in Calls /\ c \in LiveWith(p) /\ c \in DOMAIN objs /\ objs[c].conv = p
  BY <1>0, CallOf DEF LiveWith
<1>3. ~objs[c].outgoing /\ ~objs[c].data
  BY DEF Ringing
<1>4. /\ objs' = [objs EXCEPT ![c].accepted = TRUE] /\ state' = [state EXCEPT ![p] = "incoming"]
      /\ UNCHANGED <<calls, open, crossed, mixed>>
  BY <1>2 DEF Accept
<1>5. /\ DOMAIN objs' = DOMAIN objs /\ objs' = [d \in DOMAIN objs |-> objs'[d]]
      /\ objs'[c] = [objs[c] EXCEPT !.accepted = TRUE]
      /\ \A d \in DOMAIN objs : d # c => objs'[d] = objs[d]
  BY <1>2, <1>4
<1>6. ASSUME NEW d \in DOMAIN objs
      PROVE  /\ objs'[d] \in Object /\ objs'[d].conv = objs[d].conv /\ objs'[d].tid = objs[d].tid
             /\ objs'[d].outgoing = objs[d].outgoing
             /\ objs'[d].live = objs[d].live /\ objs'[d].data = objs[d].data
  <2>1. CASE d = c
    <3>1. PICK r \in Object : r = objs[c]
      BY <1>1, <1>2
    <3>2. PICK s : s = [r EXCEPT !.accepted = TRUE]
      OBVIOUS
    <3>3. objs'[d] = s /\ objs[d] = r
      BY <1>5, <2>1, <3>1, <3>2
    <3>4. /\ s \in Object /\ s.conv = r.conv /\ s.tid = r.tid /\ s.outgoing = r.outgoing
          /\ s.live = r.live /\ s.data = r.data
      BY <3>2, FieldsSet
    <3> QED BY <3>3, <3>4
  <2>2. CASE d # c
    BY <1>1, <1>5, <2>2
  <2> QED BY <2>1, <2>2
<1>7. objs' \in Seq(Object) /\ Len(objs') = Len(objs)
  BY <1>1, <1>5, <1>6, SameLength
<1>8. Reshaped
  <2>1. /\ state' \in [Peers -> Shown] /\ mixed \subseteq TalkdTids
        /\ open \subseteq Peers /\ crossed \subseteq Peers
    BY <1>0, <1>4 DEF CallTypes, Shown
  <2> QED BY <1>4, <1>5, <1>6, <1>7, <2>1 DEF Reshaped
<1>9. CallTypes' /\ NumberedOnce' /\ CallsAreListed' /\ Live' = Live /\ Calls' = Calls
  BY <1>8, ReshapedCalls
<1>10. Waiting' = Waiting /\ Joined' = Joined /\ Held' = Held
  BY <1>6, <1>8, ReshapedNumbers
<1>11. \A q : LiveWith(q)' = LiveWith(q)
  <2>1. Live \subseteq DOMAIN objs
    BY DEF Live
  <2> QED BY <1>6, <1>9, <2>1 DEF LiveWith
<1>12. Shows'
  <2> SUFFICES ASSUME NEW q \in Peers PROVE ShowsAt(q)'
    BY ShowsAllNext
  <2>1. \A d \in LiveWith(q) : d \in DOMAIN objs
    BY DEF LiveWith, Live
  <2>2. CASE q # p
    <3>1. state'[q] = state[q]
      BY <1>0, <1>4, <2>2 DEF CallTypes
    <3>2. \A d \in LiveWith(q) : objs'[d].data = objs[d].data /\ objs'[d].outgoing = objs[d].outgoing
      BY <1>6, <2>1
    <3> QED BY <1>4, <1>9, <1>11, <3>1, <3>2, ShowsAll, ShowsStill
  <2>3. CASE q = p
    <3>1. state'[q] = "incoming"
      BY <1>0, <1>4, <2>3 DEF CallTypes
    <3>2. Fitting(c)' = {"incoming"}
      BY <1>2, <1>3, <1>6 DEF Fitting
    <3>3. ShowsAt(p) /\ LiveWith(p) # {}
      BY <1>2, ShowsAll
    <3> QED BY <1>2, <1>4, <1>9, <1>11, <2>3, <3>1, <3>2, <3>3 DEF ShowsAt
  <2> QED BY <2>2, <2>3
<1>13. objs[c].tid \in Waiting
  BY <1>2, <1>3 DEF Waiting
<1> QED BY <1>7, <1>9, <1>10, <1>12, <1>13 DEF CallPart

\* A listed call of the number: one, or none.
LEMMA CallsOfOne ==
    ASSUME CallTypes, NEW t
    PROVE  /\ CallsOf(t) \subseteq Calls
           /\ \A c, d \in CallsOf(t) : c = d
           /\ \A c \in CallsOf(t) : objs[c].tid = t /\ c \in DOMAIN objs /\ c \in Live
           /\ t \notin Waiting => \A c \in CallsOf(t) : objs[c].data
           /\ t \notin Joined => \A c \in CallsOf(t) : ~objs[c].data
           /\ CallsOf(t) = {} => t \notin Waiting /\ t \notin Joined
<1>1. /\ Calls \subseteq Live /\ Live \subseteq DOMAIN objs
      /\ \A c, d \in Calls : objs[c].tid = objs[d].tid => c = d
  BY CallFacts
<1>2. \A c \in CallsOf(t) : c \in Calls /\ objs[c].tid = t
  BY DEF CallsOf
<1>3. t \notin Waiting => \A c \in CallsOf(t) : objs[c].data
  BY <1>2 DEF Waiting
<1>4. t \notin Joined => \A c \in CallsOf(t) : ~objs[c].data
  BY <1>2 DEF Joined
<1>5. CallsOf(t) = {} => t \notin Waiting /\ t \notin Joined
  BY DEF Waiting, Joined, CallsOf
<1> QED BY <1>1, <1>2, <1>3, <1>4, <1>5

\* A step that shows `st` for the calls of a set, and no more.
LEMMA ShowsSet ==
    ASSUME CallPart, NEW cs, cs \subseteq Calls, NEW st,
           state' = [p \in Peers |-> IF \E c \in cs : objs[c].conv = p THEN st ELSE state[p]],
           crossed' = crossed, Live' = Live, Calls' = Calls,
           \A c \in DOMAIN objs : objs'[c].conv = objs[c].conv,
           \A c \in DOMAIN objs \ cs : objs'[c].data = objs[c].data /\ objs'[c].outgoing = objs[c].outgoing,
           \A c \in cs : st \in Fitting(c)'
    PROVE  Shows'
<1> SUFFICES ASSUME NEW p \in Peers PROVE ShowsAt(p)'
  BY ShowsAllNext
<1>1. Calls \subseteq Live /\ Live \subseteq DOMAIN objs
  BY CallFacts DEF CallPart
<1>2. LiveWith(p)' = LiveWith(p)
  BY <1>1 DEF LiveWith
<1>3. ShowsAt(p) /\ (p \in crossed' <=> p \in crossed)
  BY ShowsAll
<1>4. CASE \E c \in cs : objs[c].conv = p
  <2>1. PICK c \in cs : objs[c].conv = p
    BY <1>4
  <2>2. state'[p] = st
    BY <1>4
  <2>3. c \in LiveWith(p)
    BY <1>1, <2>1 DEF LiveWith
  <2>4. p \notin crossed => \A d \in LiveWith(p) : d = c
    BY <1>3, <2>3 DEF ShowsAt
  <2>5. st \in Fitting(c)'
    BY <2>1
  <2>6. p \notin crossed' => \A d \in LiveWith(p)' \cap Calls' : state'[p] \in Fitting(d)'
    <3> SUFFICES ASSUME p \notin crossed', NEW d \in LiveWith(p)' PROVE state'[p] \in Fitting(d)'
      OBVIOUS
    <3>1. d = c
      BY <1>2, <1>3, <2>4
    <3> QED BY <2>2, <2>5, <3>1
  <2> QED BY <1>2, <1>3, <2>3, <2>4, <2>6 DEF ShowsAt
<1>5. CASE ~\E c \in cs : objs[c].conv = p
  <2>1. state'[p] = state[p]
    BY <1>5
  <2>2. \A c \in LiveWith(p) : c \in DOMAIN objs \ cs
    BY <1>1, <1>5 DEF LiveWith
  <2> QED BY <1>2, <1>3, <2>1, <2>2, ShowsStill
<1> QED BY <1>4, <1>5

\* STATE: the call of that number is ours, and not connected yet.
LEMMA ToldCalls ==
    ASSUME CallPart, NEW t, NEW st \in {"calling", "ringing"},
           \A c \in CallsOf(t) : objs[c].outgoing /\ ~objs[c].data,
           state' = [p \in Peers |-> IF \E c \in CallsOf(t) : objs[c].conv = p THEN st ELSE state[p]],
           UNCHANGED <<objs, calls, open, crossed, mixed>>
    PROVE  CallPart' /\ Waiting' = Waiting /\ Joined' = Joined /\ Held' = Held
<1>0. CallTypes
  BY DEF CallPart
<1>1. Reshaped
  <2>1. state' \in [Peers -> Shown]
    BY <1>0 DEF CallTypes, Shown
  <2> QED BY <1>0, <2>1 DEF Reshaped, CallTypes
<1>2. CallTypes' /\ NumberedOnce' /\ CallsAreListed' /\ Live' = Live /\ Calls' = Calls
  BY <1>1, ReshapedCalls
<1>3. Waiting' = Waiting /\ Joined' = Joined /\ Held' = Held
  BY <1>1, ReshapedNumbers
<1>4. Shows'
  <2>1. PICK cs : cs = CallsOf(t)
    OBVIOUS
  <2>2. cs \subseteq Calls /\ \A c \in cs : objs[c].outgoing /\ ~objs[c].data
    BY <1>0, <2>1, CallsOfOne
  <2>3. \A c \in cs : st \in Fitting(c)'
    BY <2>2 DEF Fitting
  <2>4. state' = [p \in Peers |-> IF \E c \in cs : objs[c].conv = p THEN st ELSE state[p]]
    BY <2>1
  <2>5. /\ \A c \in DOMAIN objs : objs'[c].conv = objs[c].conv
        /\ \A c \in DOMAIN objs \ cs : objs'[c].data = objs[c].data /\ objs'[c].outgoing = objs[c].outgoing
    OBVIOUS
  <2> QED BY <1>2, <2>2, <2>3, <2>4, <2>5, ShowsSet
<1> QED BY <1>2, <1>3, <1>4 DEF CallPart

\* CONNECT: the call of that number is connected, if one is listed.
LEMMA AttachedCalls ==
    ASSUME CallPart, NEW t, Attached(CallsOf(t)), open' = open
    PROVE  /\ CallPart' /\ Waiting' = Waiting \ {t}
           /\ Joined' \subseteq Joined \cup (Waiting \cap {t})
           /\ Held' = Held /\ Len(objs') = Len(objs) /\ mixed' = mixed
<1>0. CallTypes
  BY DEF CallPart
<1>1. PICK cs : cs = CallsOf(t)
  OBVIOUS
<1>2. /\ objs \in Seq(Object) /\ \A d \in DOMAIN objs : objs[d] \in Object
      /\ Calls \subseteq DOMAIN objs
  BY <1>0, CallFacts DEF CallTypes
<1>3. cs \subseteq Calls /\ \A c \in cs : objs[c].tid = t /\ c \in DOMAIN objs
  BY <1>0, <1>1, CallsOfOne
<1>4. /\ objs' = [c \in DOMAIN objs |->
                    IF c \in cs THEN [objs[c] EXCEPT !.data = TRUE] ELSE objs[c]]
      /\ state' = [p \in Peers |-> IF \E c \in cs : objs[c].conv = p THEN "connected" ELSE state[p]]
      /\ UNCHANGED <<calls, open, crossed, mixed>>
  BY <1>1 DEF Attached
<1>5. /\ DOMAIN objs' = DOMAIN objs /\ objs' = [d \in DOMAIN objs |-> objs'[d]]
      /\ \A d \in DOMAIN objs : d \notin cs => objs'[d] = objs[d]
      /\ \A d \in cs : objs'[d] = [objs[d] EXCEPT !.data = TRUE]
  BY <1>3, <1>4
<1>6. ASSUME NEW d \in DOMAIN objs
      PROVE  /\ objs'[d] \in Object /\ objs'[d].conv = objs[d].conv /\ objs'[d].tid = objs[d].tid
             /\ objs'[d].outgoing = objs[d].outgoing
             /\ objs'[d].live = objs[d].live /\ (d \in cs => objs'[d].data)
  <2>1. CASE d \in cs
    <3>1. PICK r \in Object : r = objs[d]
      BY <1>2
    <3>2. PICK s : s = [r EXCEPT !.data = TRUE]
      OBVIOUS
    <3>3. objs'[d] = s /\ objs[d] = r
      BY <1>5, <2>1, <3>1, <3>2
    <3>4. /\ s \in Object /\ s.conv = r.conv /\ s.tid = r.tid /\ s.outgoing = r.outgoing
          /\ s.live = r.live /\ s.data
      BY <3>2, FieldsSet
    <3> QED BY <3>3, <3>4
  <2>2. CASE d \notin cs
    BY <1>2, <1>5, <2>2
  <2> QED BY <2>1, <2>2
<1>7. objs' \in Seq(Object) /\ Len(objs') = Len(objs)
  BY <1>2, <1>5, <1>6, SameLength
<1>8. Reshaped
  <2>1. /\ state' \in [Peers -> Shown] /\ mixed \subseteq TalkdTids
        /\ open \subseteq Peers /\ crossed \subseteq Peers
    BY <1>0, <1>4 DEF CallTypes, Shown
  <2>2. /\ \A c \in DOMAIN objs : objs'[c].tid = objs[c].tid
        /\ \A c \in DOMAIN objs : objs'[c].outgoing = objs[c].outgoing
        /\ \A c \in DOMAIN objs : objs'[c].live = objs[c].live
    BY <1>6
  <2> QED BY <1>4, <1>5, <1>7, <2>1, <2>2 DEF Reshaped
<1>9. CallTypes' /\ NumberedOnce' /\ CallsAreListed' /\ Live' = Live /\ Calls' = Calls /\ Held' = Held
  BY <1>8, ReshapedCalls
<1>10. Shows'
  <2>1. \A c \in DOMAIN objs : objs'[c].conv = objs[c].conv
    BY <1>6
  <2>2. \A c \in DOMAIN objs \ cs : objs'[c].data = objs[c].data /\ objs'[c].outgoing = objs[c].outgoing
    BY <1>5
  <2>3. \A c \in cs : "connected" \in Fitting(c)'
    BY <1>3, <1>6 DEF Fitting
  <2> QED BY <1>3, <1>4, <1>9, <2>1, <2>2, <2>3, ShowsSet
<1>11. \A c \in Calls : c \in cs <=> objs[c].tid = t
  BY <1>1 DEF CallsOf
<1>12. Waiting' = Waiting \ {t}
  <2>1. ASSUME NEW n \in Waiting' PROVE n \in Waiting \ {t}
    <3>1. PICK c \in Calls' : ~objs'[c].data /\ n = objs'[c].tid
      BY <2>1 DEF Waiting
    <3>2. c \in Calls /\ c \notin cs /\ objs'[c] = objs[c]
      BY <1>2, <1>5, <1>6, <1>9, <3>1
    <3> QED BY <1>11, <3>1, <3>2 DEF Waiting
  <2>2. ASSUME NEW n \in Waiting \ {t} PROVE n \in Waiting'
    <3>1. PICK c \in Calls : ~objs[c].data /\ n = objs[c].tid
      BY <2>2 DEF Waiting
    <3>2. c \in Calls' /\ objs'[c] = objs[c]
      BY <1>2, <1>3, <1>5, <1>9, <2>2, <3>1
    <3> QED BY <3>1, <3>2 DEF Waiting
  <2> QED BY <2>1, <2>2
<1>13. Joined' \subseteq Joined \cup (Waiting \cap {t})
  <2> SUFFICES ASSUME NEW n \in Joined' PROVE n \in Joined \cup (Waiting \cap {t})
    OBVIOUS
  <2>1. PICK c \in Calls' : objs'[c].data /\ n = objs'[c].tid
    BY DEF Joined
  <2>2. c \in Calls /\ c \in DOMAIN objs
    BY <1>2, <1>9, <2>1
  <2>3. CASE c \in cs
    <3>1. n = t /\ objs[c].tid = t
      BY <1>3, <1>6, <2>1, <2>2, <2>3
    <3> QED BY <2>2, <3>1 DEF Waiting, Joined
  <2>4. CASE c \notin cs
    BY <1>5, <2>1, <2>2, <2>4 DEF Joined
  <2> QED BY <2>3, <2>4
<1> QED BY <1>4, <1>7, <1>9, <1>10, <1>12, <1>13 DEF CallPart

\* part without a call: who is left has no call listed any more.
LEMMA LeaveCalls ==
    ASSUME CallPart, NEW p \in Peers, Leave(p), NoPeer \notin Peers
    PROVE  /\ CallPart' /\ Waiting' = Waiting /\ Joined' = Joined /\ Held' = Held
           /\ Len(objs') = Len(objs) /\ mixed' = mixed
<1>0. CallTypes
  BY DEF CallPart
<1>1. /\ objs \in Seq(Object) /\ \A d \in DOMAIN objs : objs[d] \in Object
      /\ Calls \subseteq Live /\ Live \subseteq DOMAIN objs
  BY <1>0, CallFacts DEF CallTypes
<1>2. \A c \in Calls : objs[c].conv # p
  BY <1>0, CallOf DEF Leave
<1>4. /\ objs' = [c \in DOMAIN objs |->
                    IF objs[c].conv = p THEN [objs[c] EXCEPT !.conv = NoPeer] ELSE objs[c]]
      /\ state' = [state EXCEPT ![p] = ""] /\ crossed' = crossed \ {p} /\ open' = open \ {p}
      /\ UNCHANGED <<calls, mixed>>
  BY DEF Leave
<1>5. /\ DOMAIN objs' = DOMAIN objs /\ objs' = [d \in DOMAIN objs |-> objs'[d]]
      /\ \A d \in DOMAIN objs : objs[d].conv # p => objs'[d] = objs[d]
      /\ \A d \in DOMAIN objs : objs[d].conv = p => objs'[d] = [objs[d] EXCEPT !.conv = NoPeer]
  BY <1>4
<1>6. ASSUME NEW d \in DOMAIN objs
      PROVE  /\ objs'[d] \in Object /\ objs'[d].tid = objs[d].tid
             /\ objs'[d].conv = IF objs[d].conv = p THEN NoPeer ELSE objs[d].conv
             /\ objs'[d].outgoing = objs[d].outgoing
             /\ objs'[d].live = objs[d].live /\ objs'[d].data = objs[d].data
  <2>1. CASE objs[d].conv = p
    <3>1. PICK r \in Object : r = objs[d]
      BY <1>1
    <3>2. PICK s : s = [r EXCEPT !.conv = NoPeer]
      OBVIOUS
    <3>3. objs'[d] = s /\ objs[d] = r
      BY <1>5, <2>1, <3>1, <3>2
    <3>4. /\ s \in Object /\ s.conv = NoPeer /\ s.tid = r.tid /\ s.outgoing = r.outgoing
          /\ s.live = r.live /\ s.data = r.data
      BY <3>2, FieldsSet
    <3> QED BY <2>1, <3>3, <3>4
  <2>2. CASE objs[d].conv # p
    BY <1>1, <1>5, <2>2
  <2> QED BY <2>1, <2>2
<1>7. objs' \in Seq(Object) /\ Len(objs') = Len(objs)
  BY <1>1, <1>5, <1>6, SameLength
<1>8. Reshaped
  <2>1. /\ state' \in [Peers -> Shown] /\ mixed \subseteq TalkdTids
        /\ open' \subseteq Peers /\ crossed' \subseteq Peers
    BY <1>0, <1>4 DEF CallTypes, Shown
  <2> QED BY <1>4, <1>5, <1>6, <1>7, <2>1 DEF Reshaped
<1>9. CallTypes' /\ NumberedOnce' /\ CallsAreListed' /\ Live' = Live /\ Calls' = Calls
  BY <1>8, ReshapedCalls
<1>10. Waiting' = Waiting /\ Joined' = Joined /\ Held' = Held
  BY <1>6, <1>8, ReshapedNumbers
<1>11. Shows'
  <2> SUFFICES ASSUME NEW q \in Peers PROVE ShowsAt(q)'
    BY ShowsAllNext
  <2>1. CASE q = p
    <3>1. LiveWith(p)' = {}
      BY <1>1, <1>6, <1>9 DEF LiveWith
    <3>2. state'[p] = "" /\ p \notin crossed'
      BY <1>0, <1>4 DEF CallTypes
    <3> QED BY <2>1, <3>1, <3>2 DEF ShowsAt
  <2>2. CASE q # p
    <3>1. LiveWith(q)' = LiveWith(q)
      BY <1>1, <1>6, <1>9, <2>2 DEF LiveWith
    <3>2. state'[q] = state[q] /\ (q \in crossed' <=> q \in crossed)
      BY <1>0, <1>4, <2>2 DEF CallTypes
    <3>3. \A d \in LiveWith(q) : d \in DOMAIN objs
      BY DEF LiveWith, Live
    <3>4. \A d \in LiveWith(q) : objs'[d].data = objs[d].data /\ objs'[d].outgoing = objs[d].outgoing
      BY <1>6, <3>3
    <3> QED BY <1>9, <3>1, <3>2, <3>4, ShowsAll, ShowsStill
  <2> QED BY <2>1, <2>2
<1> QED BY <1>4, <1>7, <1>9, <1>10, <1>11 DEF CallPart

\* A call put into the dict, in the place of the one that had its number.
Placed(cs, D, x) ==
    IF D = {} THEN Append(cs, x) ELSE [i \in DOMAIN cs |-> IF cs[i] \in D THEN x ELSE cs[i]]
AtMostOne(D) == \A c, d \in D : c = d

\* A call put into the dict takes the place of the one of its number, or the last
LEMMA DictAdded ==
    ASSUME NEW T, NEW cs \in Seq(T), Once(cs), NEW x, x \notin T, NEW D,
           AtMostOne(D), D \subseteq Range(cs)
    PROVE  /\ Placed(cs, D, x) \in Seq(T \cup {x})
           /\ Range(Placed(cs, D, x)) = (Range(cs) \ D) \cup {x} /\ Once(Placed(cs, D, x))
<1>4. PICK z : z = Placed(cs, D, x)
  OBVIOUS
<1>0. PICK n \in Nat : n = Len(cs) /\ DOMAIN cs = 1 .. n
  OBVIOUS
<1>1. \A i \in 1 .. n : cs[i] \in T
  BY <1>0
<1>2. CASE D = {}
  <2>1. PICK y : y = Append(cs, x)
    OBVIOUS
  <2>2. /\ y \in Seq(T \cup {x}) /\ DOMAIN y = 1 .. n + 1 /\ y[n + 1] = x
        /\ \A i \in 1 .. n : y[i] = cs[i]
    <3>1. cs \in Seq(T \cup {x})
      OBVIOUS
    <3> QED BY <1>0, <2>1, <3>1
  <2>3. Range(y) = Range(cs) \cup {x}
    <3>1. ASSUME NEW v \in Range(y) PROVE v \in Range(cs) \cup {x}
      <4>1. PICK i \in 1 .. n + 1 : v = y[i]
        BY <2>2, <3>1 DEF Range
      <4>2. CASE i = n + 1
        BY <2>2, <4>1, <4>2
      <4>3. CASE i \in 1 .. n
        BY <1>0, <2>2, <4>1, <4>3 DEF Range
      <4> QED BY <1>0, <4>2, <4>3
    <3>2. ASSUME NEW v \in Range(cs) PROVE v \in Range(y)
      <4>1. PICK i \in 1 .. n : v = cs[i]
        BY <1>0, <3>2 DEF Range
      <4>2. i \in DOMAIN y /\ y[i] = v
        BY <1>0, <2>2, <4>1
      <4> QED BY <4>2 DEF Range
    <3>3. x \in Range(y)
      <4>1. n + 1 \in DOMAIN y
        BY <1>0, <2>2
      <4> QED BY <2>2, <4>1 DEF Range
    <3> QED BY <3>1, <3>2, <3>3
  <2>4. Once(y)
    <3> SUFFICES ASSUME NEW i \in DOMAIN y, NEW j \in DOMAIN y, y[i] = y[j] PROVE i = j
      BY DEF Once
    <3>1. CASE i = n + 1 \/ j = n + 1
      BY <1>0, <1>1, <2>2, <3>1
    <3>2. CASE i \in 1 .. n /\ j \in 1 .. n
      BY <1>0, <2>2, <3>2 DEF Once
    <3> QED BY <1>0, <2>2, <3>1, <3>2
  <2>5. z = y
    BY <1>2, <1>4, <2>1 DEF Placed
  <2> QED BY <1>2, <1>4, <2>2, <2>3, <2>4, <2>5
<1>3. CASE D # {}
  <2>1. PICK k \in 1 .. n : cs[k] \in D
    BY <1>0, <1>3 DEF Range
  <2>2. /\ DOMAIN z = 1 .. n /\ z = [i \in 1 .. n |-> z[i]]
        /\ \A i \in 1 .. n : z[i] = IF cs[i] \in D THEN x ELSE cs[i]
    BY <1>0, <1>3, <1>4 DEF Placed
  <2>3. \A i \in 1 .. n : cs[i] \in D <=> i = k
    BY <1>0, <2>1 DEF Once, AtMostOne
  <2>4. \A i \in 1 .. n : z[i] \in T \cup {x}
    BY <1>1, <2>2
  <2>5. z \in Seq(T \cup {x})
    BY <1>0, <2>2, <2>4
  <2>6. Range(z) = (Range(cs) \ D) \cup {x}
    <3>1. ASSUME NEW v \in Range(z) PROVE v \in (Range(cs) \ D) \cup {x}
      <4>1. PICK i \in 1 .. n : v = z[i]
        BY <2>2, <3>1 DEF Range
      <4> QED BY <1>0, <2>2, <4>1 DEF Range
    <3>2. ASSUME NEW v \in Range(cs) \ D PROVE v \in Range(z)
      <4>1. PICK i \in 1 .. n : v = cs[i]
        BY <1>0, <3>2 DEF Range
      <4>2. z[i] = v
        BY <2>2, <3>2, <4>1
      <4> QED BY <2>2, <4>2 DEF Range
    <3>3. x \in Range(z)
      <4>1. z[k] = x
        BY <2>1, <2>2
      <4> QED BY <2>2, <4>1 DEF Range
    <3> QED BY <3>1, <3>2, <3>3
  <2>7. Once(z)
    <3> SUFFICES ASSUME NEW i \in 1 .. n, NEW j \in 1 .. n, z[i] = z[j] PROVE i = j
      BY <2>2 DEF Once
    <3>1. CASE i = k \/ j = k
      <4>1. \A m \in 1 .. n : m # k => z[m] # x
        BY <1>1, <2>2, <2>3
      <4>2. z[k] = x
        BY <2>1, <2>2
      <4> QED BY <3>1, <4>1, <4>2
    <3>2. CASE i # k /\ j # k
      <4>1. cs[i] = cs[j]
        BY <2>2, <2>3, <3>2
      <4> QED BY <1>0, <4>1 DEF Once
    <3> QED BY <3>1, <3>2
  <2> QED BY <1>4, <2>5, <2>6, <2>7
<1> QED BY <1>2, <1>3

\* A call made or taken.
Added(p, t, st) ==
    /\ objs' \in Seq(Object) /\ Len(objs') = Len(objs) + 1
    /\ \A c \in DOMAIN objs : /\ objs'[c].conv = objs[c].conv /\ objs'[c].tid = objs[c].tid
                              /\ objs'[c].outgoing = objs[c].outgoing
                              /\ objs'[c].live = objs[c].live /\ objs'[c].data = objs[c].data
    /\ objs'[Len(objs) + 1].conv = p /\ objs'[Len(objs) + 1].tid = t
    /\ objs'[Len(objs) + 1].live /\ ~objs'[Len(objs) + 1].data
    /\ objs'[Len(objs) + 1].outgoing <=> st = "calling"
    /\ calls' = InDict(Len(objs) + 1, t)
    /\ state' = [state EXCEPT ![p] = st] /\ open' = open \cup {p}
    /\ crossed' = IF LiveWith(p) = {} THEN crossed ELSE crossed \cup {p}
    /\ mixed' = mixed

\* A call made or one that rings: it is listed and shown, the others as they were
LEMMA AddedCalls ==
    ASSUME CallPart, NEW p \in Peers, NEW t, NEW st \in {"calling", "incoming"}, Added(p, t, st),
           st = "calling" => t = <<"c", Len(objs) + 1>>, st = "incoming" => t \in TalkdTids,
           t \in Held => t \in mixed
    PROVE  /\ CallPart' /\ Waiting' = Waiting \cup {t} /\ Joined' = Joined \ {t}
           /\ Held' = Held \cup {t}
<1>0. CallTypes
  BY DEF CallPart
<1>1. /\ Len(objs) \in Nat /\ DOMAIN objs = 1 .. Len(objs)
      /\ Calls \subseteq Live /\ Live \subseteq DOMAIN objs
      /\ \A c, d \in Calls : objs[c].tid = objs[d].tid => c = d
      /\ Once(calls)
  BY <1>0, CallFacts
<1>2. PICK m \in Nat : m = Len(objs) + 1 /\ m \notin DOMAIN objs /\ m \notin Live
  BY <1>1
<1>3. /\ objs' \in Seq(Object) /\ Len(objs') = m /\ DOMAIN objs' = DOMAIN objs \cup {m}
      /\ objs'[m].conv = p /\ objs'[m].tid = t /\ objs'[m].live /\ ~objs'[m].data
      /\ objs'[m].outgoing <=> st = "calling"
  BY <1>1, <1>2 DEF Added
<1>4. \A c \in DOMAIN objs : /\ objs'[c].conv = objs[c].conv /\ objs'[c].tid = objs[c].tid
                             /\ objs'[c].outgoing = objs[c].outgoing
                             /\ objs'[c].live = objs[c].live /\ objs'[c].data = objs[c].data
  BY DEF Added
<1>5. /\ calls' = InDict(m, t) /\ state' = [state EXCEPT ![p] = st] /\ open' = open \cup {p}
      /\ crossed' = IF LiveWith(p) = {} THEN crossed ELSE crossed \cup {p}
      /\ mixed' = mixed
  BY <1>2 DEF Added
<1>6. Live' = Live \cup {m}
  <2>1. \A c : c \in Live' <=> c \in DOMAIN objs' /\ objs'[c].live
    BY DEF Live
  <2>2. \A c : c \in Live <=> c \in DOMAIN objs /\ objs[c].live
    BY DEF Live
  <2> QED BY <1>2, <1>3, <1>4, <2>1, <2>2
<1>7. /\ calls' \in Seq(Live') /\ Calls' = (Calls \ CallsOf(t)) \cup {m} /\ Once(calls')
  <2>1. PICK cs : cs = calls
    OBVIOUS
  <2>2. PICK T : T = Live
    OBVIOUS
  <2>3. PICK D : D = CallsOf(t)
    OBVIOUS
  <2>4. PICK z : z = calls'
    OBVIOUS
  <2>5. cs \in Seq(T) /\ Once(cs) /\ m \notin T
    BY <1>0, <1>1, <1>2, <2>1, <2>2 DEF CallTypes
  <2>6. D \subseteq Range(cs) /\ AtMostOne(D)
    BY <1>0, <2>1, <2>3, CallsOfOne DEF Calls, AtMostOne
  <2>7. z = Placed(cs, D, m)
    BY <1>5, <2>1, <2>3, <2>4 DEF InDict, Placed
  <2>9. /\ Placed(cs, D, m) \in Seq(T \cup {m})
        /\ Range(Placed(cs, D, m)) = (Range(cs) \ D) \cup {m} /\ Once(Placed(cs, D, m))
    BY <2>5, <2>6, DictAdded
  <2>8. z \in Seq(T \cup {m}) /\ Range(z) = (Range(cs) \ D) \cup {m} /\ Once(z)
    BY <2>7, <2>9
  <2> QED BY <1>6, <2>1, <2>2, <2>3, <2>4, <2>8 DEF Calls
<1>8. \A c \in CallsOf(t) : c \in Calls /\ objs[c].tid = t
  BY DEF CallsOf
<1>9. \A c \in Calls' : c = m \/ (c \in Calls /\ objs[c].tid # t)
  BY <1>7 DEF CallsOf
<1>10. CallTypes'
  <2>1. \A i, j \in DOMAIN calls' : objs'[calls'[i]].tid = objs'[calls'[j]].tid => i = j
    <3>1. PICK cs : cs = calls'
      OBVIOUS
    <3>2. PICK os : os = objs'
      OBVIOUS
    <3>3. Range(cs) = Calls'
      BY <3>1 DEF Calls
    <3>4. ASSUME NEW c \in Range(cs), NEW d \in Range(cs), os[c].tid = os[d].tid PROVE c = d
      <4>1. c \in Calls => c \in DOMAIN objs /\ os[c].tid = objs[c].tid
        BY <1>1, <1>4, <3>2
      <4>2. d \in Calls => d \in DOMAIN objs /\ os[d].tid = objs[d].tid
        BY <1>1, <1>4, <3>2
      <4>3. os[m].tid = t
        BY <1>3, <3>2
      <4> QED BY <1>1, <1>9, <3>3, <3>4, <4>1, <4>2, <4>3
    <3>5. \A i, j \in DOMAIN cs : os[cs[i]].tid = os[cs[j]].tid => i = j
      BY <1>7, <3>1, <3>4, OncePerTid
    <3> QED BY <3>1, <3>2, <3>5
  <2>2. state' \in [Peers -> Shown] /\ open' \subseteq Peers /\ crossed' \subseteq Peers /\ mixed' \subseteq TalkdTids
    BY <1>0, <1>5 DEF CallTypes, Shown
  <2> QED BY <1>3, <1>7, <2>1, <2>2 DEF CallTypes
<1>11. NumberedOnce'
  <2>1. ASSUME NEW c \in DOMAIN objs'
        PROVE  IF objs'[c].outgoing THEN objs'[c].tid = <<"c", c>> ELSE objs'[c].tid \in TalkdTids
    <3>1. CASE c = m
      BY <1>2, <1>3, <3>1
    <3>2. CASE c \in DOMAIN objs
      BY <1>4, <3>2, CallPartFacts
    <3> QED BY <1>3, <3>1, <3>2
  <2>2. ASSUME NEW c \in Live, objs[c].tid = t PROVE t \in mixed
    BY <2>2 DEF Held
  <2>3. ASSUME NEW c \in Live', NEW d \in Live', c # d, objs'[c].tid = objs'[d].tid
        PROVE  objs'[c].tid \in mixed'
    <3>1. CASE c = m \/ d = m
      BY <1>1, <1>3, <1>4, <1>5, <1>6, <2>2, <2>3, <3>1
    <3>2. CASE c \in Live /\ d \in Live
      <4>1. objs'[c].tid = objs[c].tid /\ objs'[d].tid = objs[d].tid
        BY <1>1, <1>4, <3>2
      <4>2. objs[c].tid \in mixed
        BY <2>3, <3>2, <4>1, CallPartFacts
      <4> QED BY <1>5, <4>1, <4>2
    <3> QED BY <1>6, <3>1, <3>2
  <2> QED BY <2>1, <2>3 DEF NumberedOnce
<1>12. CallsAreListed'
  <2> SUFFICES ASSUME NEW c \in Live', c \notin Calls' PROVE objs'[c].tid \in mixed'
    BY DEF CallsAreListed
  <2>1. c \in Live /\ objs'[c].tid = objs[c].tid
    BY <1>1, <1>4, <1>6, <1>7
  <2>2. CASE c \notin Calls
    BY <1>5, <2>1, <2>2, CallPartFacts
  <2>3. CASE c \in CallsOf(t)
    BY <1>5, <1>8, <2>1, <2>3 DEF Held
  <2> QED BY <1>7, <2>2, <2>3
<1>13. Shows'
  <2> SUFFICES ASSUME NEW q \in Peers PROVE ShowsAt(q)'
    BY ShowsAllNext
  <2>0. \A d \in LiveWith(q) : d \in DOMAIN objs /\ d \in Live
    BY DEF LiveWith, Live
  <2>1. CASE q # p
    <3>1. LiveWith(q)' = LiveWith(q)
      BY <1>1, <1>3, <1>4, <1>6, <2>1 DEF LiveWith
    <3>2. state'[q] = state[q] /\ (q \in crossed' <=> q \in crossed)
      BY <1>0, <1>5, <2>1 DEF CallTypes
    <3>3. \A d \in LiveWith(q) : Fitting(d)' = Fitting(d)
      BY <1>4, <2>0 DEF Fitting
    <3>4. \A d \in LiveWith(q) : d \in Calls' => d \in Calls
      BY <1>2, <1>9, <2>0
    <3>5. ASSUME q \notin crossed', NEW d \in LiveWith(q)', d \in Calls' PROVE state'[q] \in Fitting(d)'
      <4>1. d \in LiveWith(q) /\ d \in Calls /\ q \notin crossed
        BY <3>1, <3>2, <3>4, <3>5
      <4>2. state[q] \in Fitting(d)
        BY <4>1, CallPartFacts
      <4>3. Fitting(d)' = Fitting(d)
        BY <3>3, <4>1
      <4> QED BY <3>2, <4>2, <4>3
    <3>6. ShowsAt(q)
      BY ShowsAll
    <3> QED BY <3>1, <3>2, <3>5, <3>6 DEF ShowsAt
  <2>2. CASE q = p
    <3>1. LiveWith(p)' = LiveWith(p) \cup {m}
      BY <1>1, <1>3, <1>4, <1>6 DEF LiveWith
    <3>2. state'[p] = st
      BY <1>0, <1>5 DEF CallTypes
    <3>3. p \notin crossed' => LiveWith(p) = {}
      BY <1>5
    <3>4. st \in Fitting(m)'
      BY <1>3 DEF Fitting
    <3>5. p \notin crossed' => \A d \in LiveWith(p)' : d = m
      BY <3>1, <3>3
    <3> QED BY <2>2, <3>1, <3>2, <3>4, <3>5 DEF ShowsAt
  <2> QED BY <2>1, <2>2
<1>14. Waiting' = Waiting \cup {t}
  <2>1. ASSUME NEW n \in Waiting' PROVE n \in Waiting \cup {t}
    <3>1. PICK c \in Calls' : ~objs'[c].data /\ n = objs'[c].tid
      BY <2>1 DEF Waiting
    <3>2. CASE c = m
      BY <1>3, <3>1, <3>2
    <3>3. CASE c \in Calls
      <4>1. ~objs[c].data /\ n = objs[c].tid
        BY <1>1, <1>4, <3>1, <3>3
      <4> QED BY <3>3, <4>1 DEF Waiting
    <3> QED BY <1>9, <3>2, <3>3
  <2>2. ASSUME NEW n \in Waiting, n # t PROVE n \in Waiting'
    <3>1. PICK c \in Calls : ~objs[c].data /\ n = objs[c].tid
      BY <2>2 DEF Waiting
    <3>2. c \in Calls'
      BY <1>7, <1>8, <2>2, <3>1
    <3>3. ~objs'[c].data /\ n = objs'[c].tid
      BY <1>1, <1>4, <3>1
    <3> QED BY <3>2, <3>3 DEF Waiting
  <2>3. t \in Waiting'
    BY <1>3, <1>7 DEF Waiting
  <2> QED BY <2>1, <2>2, <2>3
<1>15. Joined' = Joined \ {t}
  <2>1. ASSUME NEW n \in Joined' PROVE n \in Joined \ {t}
    <3>1. PICK c \in Calls' : objs'[c].data /\ n = objs'[c].tid
      BY <2>1 DEF Joined
    <3>2. c \in Calls /\ objs[c].tid # t
      BY <1>3, <1>9, <3>1
    <3>3. objs[c].data /\ n = objs[c].tid
      BY <1>1, <1>4, <3>1, <3>2
    <3> QED BY <3>2, <3>3 DEF Joined
  <2>2. ASSUME NEW n \in Joined, n # t PROVE n \in Joined'
    <3>1. PICK c \in Calls : objs[c].data /\ n = objs[c].tid
      BY <2>2 DEF Joined
    <3>2. c \in Calls'
      BY <1>7, <1>8, <2>2, <3>1
    <3>3. objs'[c].data /\ n = objs'[c].tid
      BY <1>1, <1>4, <3>1
    <3> QED BY <3>2, <3>3 DEF Joined
  <2> QED BY <2>1, <2>2
<1>16. Held' = Held \cup {t}
  <2>1. \A c \in Live : objs'[c].tid = objs[c].tid
    BY <1>1, <1>4
  <2> QED BY <1>3, <1>6, <2>1 DEF Held
<1> QED BY <1>10, <1>11, <1>12, <1>13, <1>14, <1>15, <1>16 DEF CallPart

\* What __init__ of a TalkCall leaves
LEMMA NewCall ==
    ASSUME NEW p \in Peers, NEW t \in Tids
    PROVE  /\ TalkCall(p, t, TRUE) \in Object /\ TalkCall(p, t, FALSE) \in Object
           /\ TalkCall(p, t, TRUE).conv = p /\ TalkCall(p, t, FALSE).conv = p
           /\ TalkCall(p, t, TRUE).tid = t /\ TalkCall(p, t, FALSE).tid = t
           /\ TalkCall(p, t, TRUE).live /\ TalkCall(p, t, FALSE).live
           /\ ~TalkCall(p, t, TRUE).data /\ ~TalkCall(p, t, FALSE).data
           /\ TalkCall(p, t, TRUE).outgoing /\ ~TalkCall(p, t, FALSE).outgoing
BY DEF TalkCall, Object

\* One more call that was ever made
LEMMA OneMore ==
    ASSUME NEW os \in Seq(Object), NEW o \in Object
    PROVE  /\ Append(os, o) \in Seq(Object) /\ Len(Append(os, o)) = Len(os) + 1
           /\ DOMAIN os = 1 .. Len(os) /\ Len(os) \in Nat
           /\ DOMAIN Append(os, o) = DOMAIN os \cup {Len(os) + 1}
           /\ \A c \in DOMAIN os : Append(os, o)[c] = os[c]
           /\ Append(os, o)[Len(os) + 1] = o
<1>1. PICK n \in Nat : n = Len(os) /\ DOMAIN os = 1 .. n
  OBVIOUS
<1>2. PICK z : z = Append(os, o)
  OBVIOUS
<1>3. /\ z \in Seq(Object) /\ Len(z) = n + 1 /\ DOMAIN z = 1 .. n + 1
      /\ \A c \in 1 .. n : z[c] = os[c] /\ z[n + 1] = o
  BY <1>1, <1>2
<1>4. z[n + 1] = o /\ DOMAIN z = DOMAIN os \cup {n + 1}
  BY <1>1, <1>2, <1>3
<1> QED BY <1>1, <1>2, <1>3, <1>4

\* join: a call of ours, of a number nobody has.
LEMMA JoinCalls ==
    ASSUME CallPart, NEW p \in Peers, join(p), Len(objs) + 1 <= MaxCalls, MaxCalls \in Nat,
           NEW t, t = <<"c", Len(objs) + 1>>
    PROVE  /\ CallPart' /\ Waiting' = Waiting \cup {t} /\ Joined' = Joined
           /\ Held' = Held \cup {t} /\ t \notin Held /\ t \notin Waiting /\ t \notin Joined
           /\ Len(objs') = Len(objs) + 1
<1>0. CallTypes
  BY DEF CallPart
<1>1. objs \in Seq(Object) /\ Len(objs) \in Nat /\ DOMAIN objs = 1 .. Len(objs)
      /\ Calls \subseteq Live /\ Live \subseteq DOMAIN objs
  BY <1>0, CallFacts DEF CallTypes
<1>2. t \in Tids
  BY <1>1 DEF Tids
<1>3. PICK o : o = TalkCall(p, t, TRUE)
  OBVIOUS
<1>4. o \in Object /\ o.conv = p /\ o.tid = t /\ o.live /\ ~o.data /\ o.outgoing
  BY <1>2, <1>3, NewCall
<1>5. /\ objs' = Append(objs, o)
      /\ calls' = InDict(Len(objs) + 1, t) /\ open' = open \cup {p}
      /\ state' = [state EXCEPT ![p] = "calling"]
      /\ crossed' = IF LiveWith(p) = {} THEN crossed ELSE crossed \cup {p}
      /\ mixed' = mixed
  BY <1>3 DEF join
<1>6. /\ objs' \in Seq(Object) /\ Len(objs') = Len(objs) + 1
      /\ DOMAIN objs' = DOMAIN objs \cup {Len(objs) + 1}
      /\ \A c \in DOMAIN objs : objs'[c] = objs[c]
      /\ objs'[Len(objs) + 1] = o
  BY <1>1, <1>4, <1>5, OneMore
<1>7. Added(p, t, "calling")
  BY <1>4, <1>5, <1>6 DEF Added
<1>8. t \notin Held
  <2> SUFFICES ASSUME NEW c \in Live, objs[c].tid = t PROVE FALSE
    BY DEF Held
  <2>1. IF objs[c].outgoing THEN objs[c].tid = <<"c", c>> ELSE objs[c].tid \in TalkdTids
    BY <1>1, CallPartFacts
  <2>2. c # Len(objs) + 1
    BY <1>1
  <2>3. <<"c", c>> # <<"c", Len(objs) + 1>>
    BY <2>2
  <2>4. t \notin TalkdTids
    BY DEF TalkdTids
  <2> QED BY <2>1, <2>3, <2>4
<1>9. t \notin Waiting /\ t \notin Joined
  BY <1>1, <1>8 DEF Waiting, Joined, Held
<1>10. CallPart' /\ Waiting' = Waiting \cup {t} /\ Joined' = Joined \ {t} /\ Held' = Held \cup {t}
  BY <1>7, <1>8, AddedCalls
<1> QED BY <1>6, <1>8, <1>9, <1>10

\* RING: a call of theirs, and, when it is answered at once, the first of the
\* conversation, which waits.
LEMMA IncomingCalls ==
    ASSUME CallPart, _incoming, NEW p \in Peers, NEW t \in TalkdTids,
           Head(toUs).peer = p, Head(toUs).tid = t, t \in Held => t \in mixed
    PROVE  /\ CallPart' /\ Waiting' = Waiting \cup {t} /\ Joined' = Joined \ {t}
           /\ Held' = Held \cup {t} /\ Len(objs') = Len(objs) + 1
           /\ \/ toTalkd' = toTalkd
              \/ \E n \in Waiting' : toTalkd' = Append(toTalkd, Speak("ACCEPT", n))
<1>0. CallTypes
  BY DEF CallPart
<1>1. objs \in Seq(Object) /\ Len(objs) \in Nat /\ DOMAIN objs = 1 .. Len(objs)
  BY <1>0, CallFacts DEF CallTypes
<1>2. t \in Tids
  BY DEF Tids, TalkdTids
<1>3. PICK o : o = TalkCall(p, t, FALSE)
  OBVIOUS
<1>4. o \in Object /\ o.conv = p /\ o.tid = t /\ o.live /\ ~o.data /\ ~o.outgoing
  BY <1>2, <1>3 DEF TalkCall, Object
<1>5. PICK os : os = Append(objs, o)
  OBVIOUS
<1>6. /\ os \in Seq(Object) /\ Len(os) = Len(objs) + 1
      /\ DOMAIN os = DOMAIN objs \cup {Len(objs) + 1}
      /\ \A c \in DOMAIN objs : os[c] = objs[c]
      /\ os[Len(objs) + 1] = o
  BY <1>1, <1>4, <1>5, OneMore
<1>7. PICK cs : cs = InDict(Len(os), t)
  OBVIOUS
<1>8. PICK up : up = {c \in FirstOf(cs, os, p) : auto_answer /\ ~os[c].outgoing /\ ~os[c].data}
  OBVIOUS
<1>9. /\ objs' = [c \in DOMAIN os |-> IF c \in up THEN [os[c] EXCEPT !.accepted = TRUE] ELSE os[c]]
      /\ calls' = cs /\ open' = open \cup {p}
      /\ toTalkd' = toTalkd \/ \E c \in up : toTalkd' = Append(toTalkd, Speak("ACCEPT", os[c].tid))
      /\ state' = [state EXCEPT ![p] = "incoming"]
      /\ crossed' = IF LiveWith(p) = {} THEN crossed ELSE crossed \cup {p}
      /\ mixed' = mixed
  <2>1. os = Append(objs, TalkCall(p, t, FALSE))
    BY <1>3, <1>5
  <2>2. objs' = [c \in DOMAIN os |-> IF c \in up THEN [os[c] EXCEPT !.accepted = TRUE] ELSE os[c]]
    BY <1>7, <1>8, <2>1, Zenon DEF _incoming
  <2>3. calls' = cs
    BY <1>7, <2>1, Zenon DEF _incoming
  <2>4. toTalkd' = toTalkd \/ \E c \in up : toTalkd' = Append(toTalkd, Speak("ACCEPT", os[c].tid))
    BY <1>7, <1>8, <2>1, Zenon DEF _incoming
  <2>5. /\ open' = open \cup {p} /\ state' = [state EXCEPT ![p] = "incoming"]
        /\ crossed' = IF LiveWith(p) = {} THEN crossed ELSE crossed \cup {p}
        /\ mixed' = mixed
    BY Zenon DEF _incoming
  <2> QED BY <2>2, <2>3, <2>4, <2>5
<1>10. /\ DOMAIN objs' = DOMAIN os /\ objs' = [d \in DOMAIN os |-> objs'[d]]
       /\ \A d \in DOMAIN os : objs'[d] = IF d \in up THEN [os[d] EXCEPT !.accepted = TRUE] ELSE os[d]
  BY <1>9
<1>11. ASSUME NEW d \in DOMAIN os
       PROVE  /\ objs'[d] \in Object /\ objs'[d].conv = os[d].conv /\ objs'[d].tid = os[d].tid
              /\ objs'[d].outgoing = os[d].outgoing
              /\ objs'[d].live = os[d].live /\ objs'[d].data = os[d].data
  <2>0. PICK r \in Object : r = os[d]
    BY SMTT(20), <1>6
  <2>1. CASE d \in up
    <3>2. PICK s : s = [r EXCEPT !.accepted = TRUE]
      OBVIOUS
    <3>3. objs'[d] = s
      BY <1>10, <2>0, <2>1, <3>2
    <3>4. /\ s \in Object /\ s.conv = r.conv /\ s.tid = r.tid /\ s.outgoing = r.outgoing
          /\ s.live = r.live /\ s.data = r.data
      BY <3>2, FieldsSet
    <3> QED BY <2>0, <3>3, <3>4
  <2>2. CASE d \notin up
    <3>1. objs'[d] = r
      BY <1>10, <2>0, <2>2
    <3> QED BY <2>0, <3>1
  <2> QED BY <2>1, <2>2
<1>12. objs' \in Seq(Object) /\ Len(objs') = Len(objs) + 1
  BY <1>6, <1>10, <1>11, SameLength
<1>13. Added(p, t, "incoming")
  <2>1. PICK m : m = Len(objs) + 1
    OBVIOUS
  <2>2. m \in DOMAIN os /\ os[m] = o /\ calls' = InDict(m, t)
    BY <1>6, <1>7, <1>9, <2>1
  <2>3. /\ objs'[m].conv = p /\ objs'[m].tid = t
        /\ objs'[m].live /\ ~objs'[m].data /\ ~objs'[m].outgoing
    BY <1>4, <1>11, <2>2
  <2>4. ASSUME NEW c \in DOMAIN objs
        PROVE  /\ objs'[c].conv = objs[c].conv /\ objs'[c].tid = objs[c].tid
               /\ objs'[c].outgoing = objs[c].outgoing
               /\ objs'[c].live = objs[c].live /\ objs'[c].data = objs[c].data
    <3>1. c \in DOMAIN os /\ os[c] = objs[c]
      BY <1>6
    <3> QED BY <1>11, <3>1
  <2> QED BY <1>9, <1>12, <2>1, <2>2, <2>3, <2>4 DEF Added
<1>14. CallPart' /\ Waiting' = Waiting \cup {t} /\ Joined' = Joined \ {t} /\ Held' = Held \cup {t}
  BY <1>13, AddedCalls
<1>15. ASSUME NEW c \in up PROVE os[c].tid \in Waiting'
  <2>3. c \in FirstOf(cs, os, p) /\ ~os[c].data
    BY <1>8, <1>15
  <2>4. PICK T : T = Live'
    OBVIOUS
  <2>5. cs \in Seq(T) /\ T \subseteq DOMAIN os
    BY <1>9, <1>10, <1>14, <2>4 DEF CallPart, CallTypes, Live
  <2>6. c \in Range(cs)
    BY <2>3, <2>5, FirstIsTheirs
  <2>7. c \in Calls' /\ c \in DOMAIN os
    <3>1. Calls' = Range(cs)
      BY <1>9 DEF Calls
    <3>2. \A i \in DOMAIN cs : cs[i] \in T
      BY <2>5
    <3> QED BY <2>5, <2>6, <3>1, <3>2 DEF Range
  <2>8. ~objs'[c].data /\ objs'[c].tid = os[c].tid
    BY <1>11, <2>3, <2>7
  <2> QED BY <2>7, <2>8 DEF Waiting
<1> QED BY <1>9, <1>12, <1>14, <1>15

-----------------------------------------------------------------------------
(* The wire: what each step makes of it                                    *)

\* The RINGs on a wire can be counted
LEMMA RingsFew ==
    ASSUME NEW q, q \in Seq(Message)
    PROVE  /\ IsFiniteSet(Rings(q)) /\ Cardinality(Rings(q)) \in Nat
           /\ Rings(q) \subseteq DOMAIN q /\ DOMAIN q \subseteq Nat \ {0}
<1>1. PICK n \in Nat : n = Len(q) /\ DOMAIN q = 1 .. n
  OBVIOUS
<1>2. Rings(q) \subseteq 1 .. n
  BY <1>1 DEF Rings
<1>3. IsFiniteSet(1 .. n)
  BY FS_Interval
<1>4. IsFiniteSet(Rings(q))
  BY <1>2, <1>3, FS_Subset
<1> QED BY <1>1, <1>2, <1>4, FS_CardinalityType

\* Reading a wire leaves no more RINGs on it, and one less when it reads a RING
LEMMA RingsRead ==
    ASSUME NEW q, q \in Seq(Message), q # <<>>
    PROVE  /\ Cardinality(Rings(Tail(q))) <= Cardinality(Rings(q))
           /\ Head(q).word = "RING" => Cardinality(Rings(Tail(q))) + 1 <= Cardinality(Rings(q))
<1>1. PICK z : z = Tail(q)
  OBVIOUS
<1>2. /\ z \in Seq(Message) /\ 1 \in DOMAIN q /\ Head(q) = q[1]
      /\ DOMAIN q \subseteq Nat \ {0} /\ DOMAIN z \subseteq Nat \ {0}
      /\ \A i \in DOMAIN z : i + 1 \in DOMAIN q /\ z[i] = q[i + 1]
  BY <1>1, WireRead
<1>3. PICK R : R = Rings(q) \ {1}
  OBVIOUS
<1>4. /\ IsFiniteSet(Rings(q)) /\ IsFiniteSet(Rings(z))
      /\ Cardinality(Rings(q)) \in Nat /\ Cardinality(Rings(z)) \in Nat
  BY <1>2, RingsFew
<1>5. IsFiniteSet(R) /\ Cardinality(R) = Cardinality(Rings(q)) - IF 1 \in Rings(q) THEN 1 ELSE 0
  BY SMTT(20), <1>3, <1>4, FS_RemoveElement
<1>6. Cardinality(Rings(z)) <= Cardinality(R)
  <2> DEFINE up == [i \in Rings(z) |-> i + 1]
  <2>1. \A i \in Rings(z) : i \in Nat \ {0} /\ i + 1 \in R
    BY <1>2, <1>3 DEF Rings
  <2>2. up \in Injection(Rings(z), R)
    BY <2>1 DEF Injection, IsInjective
  <2> QED BY <1>5, <2>2, FS_Injection
<1>7. Head(q).word = "RING" => 1 \in Rings(q)
  BY <1>2 DEF Rings
<1> QED BY <1>1, <1>4, <1>5, <1>6, <1>7

\* Writing to a wire adds at most one RING
LEMMA RingsWritten ==
    ASSUME NEW q, q \in Seq(Message), NEW m \in Message
    PROVE  /\ Cardinality(Rings(Append(q, m))) <= Cardinality(Rings(q)) + 1
           /\ m.word # "RING" => Rings(Append(q, m)) = Rings(q)
<1>1. PICK z : z = Append(q, m)
  OBVIOUS
<1>2. PICK k \in Nat : k = Len(q) + 1
  OBVIOUS
<1>3. /\ z \in Seq(Message) /\ DOMAIN z = DOMAIN q \cup {k} /\ z[k] = m
      /\ \A i \in DOMAIN q : i < k /\ z[i] = q[i]
  BY <1>1, <1>2, WireWritten
<1>4. Rings(z) \subseteq Rings(q) \cup {k} /\ (m.word # "RING" => Rings(z) = Rings(q))
  BY <1>3 DEF Rings
<1>5. IsFiniteSet(Rings(q)) /\ Cardinality(Rings(q)) \in Nat /\ k \notin Rings(q)
  BY <1>3, RingsFew DEF Rings
<1>6. /\ IsFiniteSet(Rings(q) \cup {k})
      /\ Cardinality(Rings(q) \cup {k}) = Cardinality(Rings(q)) + 1
  BY <1>5, FS_AddElement
<1>7. Cardinality(Rings(z)) <= Cardinality(Rings(q) \cup {k})
  BY <1>4, <1>6, FS_Subset
<1> QED BY <1>1, <1>4, <1>6, <1>7

\* The four ways a wire moves.
LEMMA Heard ==
    ASSUME toUs \in Seq(Message), toUs # <<>>, toUs' = Tail(toUs)
    PROVE  /\ toUs' \in Seq(Message) /\ 1 \in DOMAIN toUs /\ Head(toUs) = toUs[1]
           /\ Head(toUs) \in Message
           /\ \A i \in DOMAIN toUs' : i \in Nat /\ i + 1 \in DOMAIN toUs /\ toUs'[i] = toUs[i + 1]
           /\ \A i \in DOMAIN toUs : i \in Nat /\ i > 0 /\
                (i # 1 => i - 1 \in DOMAIN toUs' /\ toUs'[i - 1] = toUs[i])
           /\ \A ws, t : OnWire(toUs', ws, t) => OnWire(toUs, ws, t)
           /\ \A ws, t : OnWire(toUs, ws, t) =>
                OnWire(toUs', ws, t) \/ (Head(toUs).word \in ws /\ Head(toUs).tid = t)
           /\ Cardinality(Rings(toUs')) <= Cardinality(Rings(toUs))
           /\ Head(toUs).word = "RING" => Cardinality(Rings(toUs')) + 1 <= Cardinality(Rings(toUs))
           /\ Cardinality(Rings(toUs)) \in Nat /\ Cardinality(Rings(toUs')) \in Nat
<1>1. PICK q : q = toUs
  OBVIOUS
<1>2. PICK z : z = Tail(q)
  OBVIOUS
<1>3. /\ z \in Seq(Message) /\ Head(q) \in Message
      /\ 1 \in DOMAIN q /\ Head(q) = q[1] /\ DOMAIN q \subseteq Nat \ {0}
      /\ DOMAIN z \subseteq Nat \ {0}
      /\ \A i \in DOMAIN z : i + 1 \in DOMAIN q /\ z[i] = q[i + 1]
      /\ \A i \in DOMAIN q : i # 1 => i - 1 \in DOMAIN z /\ z[i - 1] = q[i]
      /\ \A ws, t : OnWire(z, ws, t) => OnWire(q, ws, t)
      /\ \A ws, t : OnWire(q, ws, t) => OnWire(z, ws, t) \/ (Head(q).word \in ws /\ Head(q).tid = t)
  BY <1>1, <1>2, WireRead
<1>4. /\ Cardinality(Rings(z)) <= Cardinality(Rings(q))
      /\ Head(q).word = "RING" => Cardinality(Rings(z)) + 1 <= Cardinality(Rings(q))
  BY <1>1, <1>2, RingsRead
<1>5. Cardinality(Rings(q)) \in Nat /\ Cardinality(Rings(z)) \in Nat
  BY <1>1, <1>3, RingsFew
<1>6. \A i \in DOMAIN q : i \in Nat /\ i > 0
  BY <1>3
<1>7. \A i \in DOMAIN z : i \in Nat
  BY <1>3
<1>8. toUs' = z
  BY <1>1, <1>2
<1>9. \A i \in DOMAIN z : i \in Nat /\ i + 1 \in DOMAIN q /\ z[i] = q[i + 1]
  BY <1>3, <1>7
<1>10. \A i \in DOMAIN q : i \in Nat /\ i > 0 /\ (i # 1 => i - 1 \in DOMAIN z /\ z[i - 1] = q[i])
  BY <1>3, <1>6
<1>11. /\ toUs' \in Seq(Message) /\ 1 \in DOMAIN toUs /\ Head(toUs) = toUs[1]
       /\ Head(toUs) \in Message
  BY <1>1, <1>3, <1>8
<1>12. \A i \in DOMAIN toUs' : i \in Nat /\ i + 1 \in DOMAIN toUs /\ toUs'[i] = toUs[i + 1]
  BY <1>1, <1>8, <1>9
<1>13. \A i \in DOMAIN toUs : i \in Nat /\ i > 0 /\
         (i # 1 => i - 1 \in DOMAIN toUs' /\ toUs'[i - 1] = toUs[i])
  BY <1>1, <1>8, <1>10
<1>14. \A ws, t : OnWire(toUs', ws, t) => OnWire(toUs, ws, t)
  BY <1>1, <1>3, <1>8
<1>15. \A ws, t : OnWire(toUs, ws, t) =>
         OnWire(toUs', ws, t) \/ (Head(toUs).word \in ws /\ Head(toUs).tid = t)
  <2> SUFFICES ASSUME NEW ws, NEW t, OnWire(toUs, ws, t)
               PROVE  OnWire(toUs', ws, t) \/ (Head(toUs).word \in ws /\ Head(toUs).tid = t)
    OBVIOUS
  <2>1. OnWire(q, ws, t)
    BY <1>1
  <2>2. OnWire(z, ws, t) \/ (Head(q).word \in ws /\ Head(q).tid = t)
    BY <1>3, <2>1
  <2>3. CASE OnWire(z, ws, t)
    BY <1>8, <2>3
  <2>4. CASE Head(q).word \in ws /\ Head(q).tid = t
    BY <1>1, <2>4
  <2> QED BY <2>2, <2>3, <2>4
<1>16. /\ Cardinality(Rings(toUs')) <= Cardinality(Rings(toUs))
       /\ Head(toUs).word = "RING" => Cardinality(Rings(toUs')) + 1 <= Cardinality(Rings(toUs))
       /\ Cardinality(Rings(toUs)) \in Nat /\ Cardinality(Rings(toUs')) \in Nat
  BY <1>1, <1>4, <1>5, <1>8
<1> QED BY <1>11, <1>12, <1>13, <1>14, <1>15, <1>16

\* What is left of the wire to talkd when it has read a message
LEMMA TalkdHeard ==
    ASSUME toTalkd \in Seq(Message), toTalkd # <<>>, toTalkd' = Tail(toTalkd)
    PROVE  /\ toTalkd' \in Seq(Message) /\ 1 \in DOMAIN toTalkd /\ Head(toTalkd) = toTalkd[1]
           /\ Head(toTalkd) \in Message
           /\ \A i \in DOMAIN toTalkd' :
                i \in Nat /\ i + 1 \in DOMAIN toTalkd /\ toTalkd'[i] = toTalkd[i + 1]
           /\ \A i \in DOMAIN toTalkd : i \in Nat /\ i > 0 /\
                (i # 1 => i - 1 \in DOMAIN toTalkd' /\ toTalkd'[i - 1] = toTalkd[i])
           /\ \A ws, t : OnWire(toTalkd', ws, t) => OnWire(toTalkd, ws, t)
           /\ \A ws, t : OnWire(toTalkd, ws, t) =>
                OnWire(toTalkd', ws, t) \/ (Head(toTalkd).word \in ws /\ Head(toTalkd).tid = t)
<1>1. PICK q : q = toTalkd
  OBVIOUS
<1>2. PICK z : z = Tail(q)
  OBVIOUS
<1>3. /\ z \in Seq(Message) /\ Head(q) \in Message
      /\ 1 \in DOMAIN q /\ Head(q) = q[1] /\ DOMAIN q \subseteq Nat \ {0}
      /\ DOMAIN z \subseteq Nat \ {0}
      /\ \A i \in DOMAIN z : i + 1 \in DOMAIN q /\ z[i] = q[i + 1]
      /\ \A i \in DOMAIN q : i # 1 => i - 1 \in DOMAIN z /\ z[i - 1] = q[i]
      /\ \A ws, t : OnWire(z, ws, t) => OnWire(q, ws, t)
      /\ \A ws, t : OnWire(q, ws, t) => OnWire(z, ws, t) \/ (Head(q).word \in ws /\ Head(q).tid = t)
  BY <1>1, <1>2, WireRead
<1>6. \A i \in DOMAIN q : i \in Nat /\ i > 0
  BY <1>3
<1>7. \A i \in DOMAIN z : i \in Nat
  BY <1>3
<1>8. toTalkd' = z
  BY <1>1, <1>2
<1>9. \A i \in DOMAIN z : i \in Nat /\ i + 1 \in DOMAIN q /\ z[i] = q[i + 1]
  BY <1>3, <1>7
<1>10. \A i \in DOMAIN q : i \in Nat /\ i > 0 /\ (i # 1 => i - 1 \in DOMAIN z /\ z[i - 1] = q[i])
  BY <1>3, <1>6
<1>11. /\ toTalkd' \in Seq(Message) /\ 1 \in DOMAIN toTalkd /\ Head(toTalkd) = toTalkd[1]
       /\ Head(toTalkd) \in Message
  BY <1>1, <1>3, <1>8
<1>12. \A i \in DOMAIN toTalkd' : i \in Nat /\ i + 1 \in DOMAIN toTalkd /\ toTalkd'[i] = toTalkd[i + 1]
  BY <1>1, <1>8, <1>9
<1>13. \A i \in DOMAIN toTalkd : i \in Nat /\ i > 0 /\
         (i # 1 => i - 1 \in DOMAIN toTalkd' /\ toTalkd'[i - 1] = toTalkd[i])
  BY <1>1, <1>8, <1>10
<1>14. \A ws, t : OnWire(toTalkd', ws, t) => OnWire(toTalkd, ws, t)
  BY <1>1, <1>3, <1>8
<1>15. \A ws, t : OnWire(toTalkd, ws, t) =>
         OnWire(toTalkd', ws, t) \/ (Head(toTalkd).word \in ws /\ Head(toTalkd).tid = t)
  <2> SUFFICES ASSUME NEW ws, NEW t, OnWire(toTalkd, ws, t)
               PROVE  OnWire(toTalkd', ws, t) \/ (Head(toTalkd).word \in ws /\ Head(toTalkd).tid = t)
    OBVIOUS
  <2>1. OnWire(q, ws, t)
    BY <1>1
  <2>2. OnWire(z, ws, t) \/ (Head(q).word \in ws /\ Head(q).tid = t)
    BY <1>3, <2>1
  <2>3. CASE OnWire(z, ws, t)
    BY <1>8, <2>3
  <2>4. CASE Head(q).word \in ws /\ Head(q).tid = t
    BY <1>1, <2>4
  <2> QED BY <2>2, <2>3, <2>4
<1> QED BY <1>11, <1>12, <1>13, <1>14, <1>15

\* What is on the wire to talkd when one more message is
LEMMA SaidTo ==
    ASSUME toTalkd \in Seq(Message), NEW m \in Message, toTalkd' = Append(toTalkd, m)
    PROVE  /\ toTalkd' \in Seq(Message)
           /\ \E k \in Nat :
                /\ DOMAIN toTalkd' = DOMAIN toTalkd \cup {k} /\ toTalkd'[k] = m
                /\ \A i \in DOMAIN toTalkd : i \in Nat /\ i < k /\ toTalkd'[i] = toTalkd[i]
           /\ \A ws, t : OnWire(toTalkd', ws, t)
                           <=> OnWire(toTalkd, ws, t) \/ (m.word \in ws /\ m.tid = t)
<1>1. PICK q : q = toTalkd
  OBVIOUS
<1>2. PICK z : z = Append(q, m)
  OBVIOUS
<1>3. PICK k \in Nat : k = Len(q) + 1
  BY <1>1
<1>4. /\ z \in Seq(Message) /\ DOMAIN q \subseteq Nat \ {0}
      /\ DOMAIN z = DOMAIN q \cup {k} /\ z[k] = m
      /\ \A i \in DOMAIN q : i < k /\ z[i] = q[i]
      /\ \A ws, t : OnWire(z, ws, t) <=> OnWire(q, ws, t) \/ (m.word \in ws /\ m.tid = t)
  BY <1>1, <1>2, <1>3, WireWritten
<1>5. \A i \in DOMAIN q : i \in Nat
  BY <1>4
<1>6. toTalkd' = z
  BY <1>1, <1>2
<1> QED BY <1>1, <1>4, <1>5, <1>6

\* What is on the wire from talkd when one more message is
LEMMA SaidUs ==
    ASSUME toUs \in Seq(Message), NEW m \in Message, toUs' = Append(toUs, m)
    PROVE  /\ toUs' \in Seq(Message)
           /\ \E k \in Nat :
                /\ DOMAIN toUs' = DOMAIN toUs \cup {k} /\ toUs'[k] = m
                /\ \A i \in DOMAIN toUs : i \in Nat /\ i < k /\ toUs'[i] = toUs[i]
           /\ \A ws, t : OnWire(toUs', ws, t)
                           <=> OnWire(toUs, ws, t) \/ (m.word \in ws /\ m.tid = t)
           /\ Cardinality(Rings(toUs')) <= Cardinality(Rings(toUs)) + 1
           /\ m.word # "RING" => Cardinality(Rings(toUs')) = Cardinality(Rings(toUs))
           /\ Cardinality(Rings(toUs)) \in Nat /\ Cardinality(Rings(toUs')) \in Nat
<1>1. PICK q : q = toUs
  OBVIOUS
<1>2. PICK z : z = Append(q, m)
  OBVIOUS
<1>3. PICK k \in Nat : k = Len(q) + 1
  BY <1>1
<1>4. /\ z \in Seq(Message) /\ DOMAIN q \subseteq Nat \ {0}
      /\ DOMAIN z = DOMAIN q \cup {k} /\ z[k] = m
      /\ \A i \in DOMAIN q : i < k /\ z[i] = q[i]
      /\ \A ws, t : OnWire(z, ws, t) <=> OnWire(q, ws, t) \/ (m.word \in ws /\ m.tid = t)
  BY <1>1, <1>2, <1>3, WireWritten
<1>5. \A i \in DOMAIN q : i \in Nat
  BY <1>4
<1>6. toUs' = z
  BY <1>1, <1>2
<1>7. /\ Cardinality(Rings(z)) <= Cardinality(Rings(q)) + 1
      /\ m.word # "RING" => Rings(z) = Rings(q)
  BY <1>1, <1>2, RingsWritten
<1>8. Cardinality(Rings(q)) \in Nat /\ Cardinality(Rings(z)) \in Nat
  BY <1>1, <1>4, RingsFew
<1> QED BY <1>1, <1>4, <1>5, <1>6, <1>7, <1>8

\* The conjuncts of the invariant
LEMMA InvParts ==
    ASSUME TalkInv
    PROVE  /\ CallPart /\ WireTypes /\ GivenOut /\ Offline /\ OneLine /\ SameNumber
           /\ Asked /\ RingKnown /\ SaidLast /\ Progress /\ Real /\ Unseen
BY DEF TalkInv, WirePart

\* The types the invariant keeps
LEMMA InvTypes ==
    ASSUME TalkInv
    PROVE  /\ Len(objs) \in Nat /\ nextT \in Nat /\ nextT \in 1 .. MaxCalls + 1
           /\ toUs \in Seq(Message) /\ toTalkd \in Seq(Message)
           /\ Cardinality(Rings(toUs)) \in Nat
           /\ Len(objs) + Cardinality(Rings(toUs)) <= MaxCalls
           /\ MaxCalls \in Nat /\ NoPeer \notin Peers
<1>1. Len(objs) \in Nat
  BY InvParts, CallFacts DEF CallPart
<1>2. /\ nextT \in 1 .. MaxCalls + 1 /\ toUs \in Seq(Message) /\ toTalkd \in Seq(Message)
      /\ Len(objs) + Cardinality(Rings(toUs)) <= MaxCalls
  BY InvParts DEF WireTypes
<1>3. Cardinality(Rings(toUs)) \in Nat
  <2>1. PICK q : q = toUs
    OBVIOUS
  <2> QED BY <1>2, <2>1, RingsFew
<1>4. MaxCalls \in Nat /\ NoPeer \notin Peers
  BY TalkAssumption
<1> QED BY <1>1, <1>2, <1>3, <1>4

\* A number is waiting or joined, not both, and held by a call.
LEMMA WaitOrJoin ==
    ASSUME TalkInv
    PROVE  /\ \A t \in Waiting : t \notin Joined /\ t \in Held
           /\ \A t \in Joined : t \in Held
<1>1. /\ Calls \subseteq Live /\ \A c, d \in Calls : objs[c].tid = objs[d].tid => c = d
  BY InvParts, CallFacts DEF CallPart
<1> QED BY <1>1 DEF Waiting, Joined, Held

\* Whose number is whose.
LEMMA TwoKinds ==
    ASSUME TalkInv
    PROVE  /\ Ours(Len(objs)) \subseteq Tids /\ Theirs(nextT) \subseteq TalkdTids
           /\ TalkdTids \subseteq Tids
           /\ \A t \in Ours(Len(objs)) : t \notin TalkdTids /\ t \notin mixed
<1>1. PICK n \in Nat : n = Len(objs)
  BY InvTypes
<1>2. PICK k \in Nat : k = nextT
  BY InvTypes
<1>3. n <= MaxCalls /\ k <= MaxCalls + 1 /\ MaxCalls \in Nat
  BY <1>1, <1>2, InvTypes
<1>4. /\ Ours(n) \subseteq Tids
  BY <1>3 DEF Ours, Tids
<1>5. Theirs(k) \subseteq TalkdTids
  BY <1>3 DEF Theirs, TalkdTids
<1>6. TalkdTids \subseteq Tids
  BY DEF TalkdTids, Tids
<1>7. \A t \in Ours(n) : t \notin TalkdTids
  BY DEF Ours, TalkdTids
<1>8. mixed \subseteq TalkdTids
  BY InvParts DEF CallPart, CallTypes
<1> QED BY <1>1, <1>2, <1>4, <1>5, <1>6, <1>7, <1>8

\* Nothing is on a wire that was just opened or is lost
LEMMA EmptyWire ==
    /\ <<>> \in Seq(Message) /\ Rings(<<>>) = {} /\ Cardinality(Rings(<<>>)) = 0
    /\ \A ws, t : ~OnWire(<<>>, ws, t)
<1>1. Rings(<<>>) = {} /\ \A ws, t : ~OnWire(<<>>, ws, t)
  BY DEF Rings, OnWire
<1> QED BY <1>1, FS_EmptySet

\* _close(): nothing is left.
LEMMA WireCleared ==
    ASSUME TalkInv, lines' = {}, toTalkd' = <<>>, toUs' = <<>>, nextT' \in {nextT, 1},
           auto_answer' = auto_answer, phase' \in {"down", "connecting", "hello", "up"},
           acct' \in {"disconnected", "connecting", "connected", "error"},
           Len(objs') = Len(objs), Waiting' = {}
    PROVE  WirePart'
<1>1. nextT' \in 1 .. MaxCalls + 1 /\ auto_answer \in BOOLEAN
  BY InvTypes, InvParts DEF WireTypes
<1>2. /\ toUs' \in Seq(Message) /\ toTalkd' \in Seq(Message) /\ Cardinality(Rings(toUs')) = 0
      /\ DOMAIN toUs' = {} /\ DOMAIN toTalkd' = {}
      /\ \A ws, t : ~OnWire(toUs', ws, t)
  BY EmptyWire
<1>3. Len(objs') + Cardinality(Rings(toUs')) <= MaxCalls
  BY <1>2, InvTypes
<1>4. WireTypes'
  BY <1>1, <1>2, <1>3 DEF WireTypes
<1>5. GivenOut' /\ Offline' /\ OneLine'
  BY <1>2 DEF GivenOut, Offline, OneLine
<1>6. SameNumber'
  <2>1. \A ws, t : ~OnWire(toTalkd', ws, t)
    BY EmptyWire
  <2> QED BY <1>2, <2>1 DEF SameNumber
<1>7. Asked' /\ RingKnown' /\ SaidLast' /\ Progress' /\ Real' /\ Unseen'
  BY <1>2 DEF Asked, RingKnown, SaidLast, Progress, Real, Unseen
<1> QED BY <1>4, <1>5, <1>6, <1>7 DEF WirePart

\* Nothing is said, and calls only end, of which talkd needs to hear no more.
LEMMA WireStays ==
    ASSUME TalkInv, UNCHANGED <<talkd, toTalkd, toUs, auto_answer>>,
           phase' \in {"down", "connecting", "hello", "up"}, phase' # "up" => phase # "up",
           acct' \in {"disconnected", "connecting", "connected", "error"},
           Len(objs') = Len(objs), mixed' = mixed, Waiting' \subseteq Waiting,
           \A t \in Waiting : t \in Waiting' \/ t \in mixed,
           Joined' \subseteq Joined, Held' \subseteq Held
    PROVE  WirePart'
<1>0. UNCHANGED <<nextT, lines, toTalkd, toUs, auto_answer>>
  BY DEF talkd
<1>1. WireTypes'
  BY <1>0, InvParts DEF WireTypes
<1>2. GivenOut'
  BY <1>0, InvParts DEF GivenOut, Given
<1>3. Offline'
  BY <1>0, InvParts DEF Offline
<1>4. OneLine'
  BY <1>0, InvParts DEF OneLine
<1>5. SameNumber'
  BY <1>0, InvParts DEF SameNumber
<1>6. Asked'
  <2> SUFFICES ASSUME NEW i \in DOMAIN toTalkd, toTalkd[i].word = "CALL"
               PROVE  /\ ~Known(toTalkd[i].tid)' /\ ~OnWire(toUs, Tells, toTalkd[i].tid)
                      /\ \A j \in DOMAIN toTalkd :
                           toTalkd[j].word = "CALL" /\ toTalkd[j].tid = toTalkd[i].tid => i = j
                      /\ \/ toTalkd[i].tid \in Waiting'
                         \/ \E j \in DOMAIN toTalkd :
                              i < j /\ toTalkd[j].word = "HANGUP" /\ toTalkd[j].tid = toTalkd[i].tid
    BY <1>0 DEF Asked, Known
  <2>1. toTalkd[i].tid \notin mixed
    BY InvParts, TwoKinds DEF GivenOut
  <2> QED BY <1>0, <2>1, InvParts DEF Asked, Known
<1>7. RingKnown' /\ SaidLast' /\ Progress'
  BY <1>0, InvParts DEF RingKnown, Known, SaidLast, Progress
<1>8. Real'
  BY <1>0, InvParts DEF Real, Known
<1>9. Unseen'
  BY <1>0, InvParts DEF Unseen
<1> QED BY <1>1, <1>2, <1>3, <1>4, <1>5, <1>6, <1>7, <1>8, <1>9 DEF WirePart

\* What RingKnown and SaidLast say of what is still to be read, stays.
LEMMA StillToRead ==
    ASSUME TalkInv, toUs # <<>>, toUs' = Tail(toUs), lines' = lines, mixed' = mixed
    PROVE  RingKnown' /\ SaidLast'
<1>0. UNCHANGED <<lines, mixed>>
  OBVIOUS
<1>1. /\ \A i \in DOMAIN toUs' : i \in Nat /\ i + 1 \in DOMAIN toUs /\ toUs'[i] = toUs[i + 1]
      /\ \A i \in DOMAIN toUs : i \in Nat /\ i > 0 /\
           (i # 1 => i - 1 \in DOMAIN toUs' /\ toUs'[i - 1] = toUs[i])
  BY InvTypes, Heard
<1>2. RingKnown'
  <2> SUFFICES ASSUME NEW i \in DOMAIN toUs', toUs'[i].word = "RING"
               PROVE  \/ toUs'[i].tid \in mixed \/ Known(toUs'[i].tid)
                      \/ \E j \in DOMAIN toUs' :
                           i < j /\ toUs'[j].word \in Settles /\ toUs'[j].tid = toUs'[i].tid
    BY <1>0 DEF RingKnown, Known
  <2>1. i \in Nat /\ i + 1 \in DOMAIN toUs /\ toUs'[i] = toUs[i + 1]
    BY <1>1
  <2>2. \/ toUs[i + 1].tid \in mixed \/ Known(toUs[i + 1].tid)
        \/ \E j \in DOMAIN toUs :
             i + 1 < j /\ toUs[j].word \in Settles /\ toUs[j].tid = toUs[i + 1].tid
    BY <2>1, InvParts DEF RingKnown
  <2>3. ASSUME NEW j \in DOMAIN toUs, i + 1 < j, toUs[j].word \in Settles, toUs[j].tid = toUs[i + 1].tid
        PROVE  \E k \in DOMAIN toUs' :
                 i < k /\ toUs'[k].word \in Settles /\ toUs'[k].tid = toUs'[i].tid
    <3>1. j \in Nat /\ j # 1 /\ i < j - 1
      BY <1>1, <2>1, <2>3
    <3>2. j - 1 \in DOMAIN toUs' /\ toUs'[j - 1] = toUs[j]
      BY <1>1, <3>1
    <3> QED BY <2>1, <2>3, <3>1, <3>2
  <2> QED BY <2>1, <2>2, <2>3
<1>3. SaidLast'
  <2> SUFFICES ASSUME NEW j \in DOMAIN toUs', toUs'[j].word \in Settles
               PROVE  /\ \A ln \in lines : ln.tid = toUs'[j].tid => ln.st = "linked"
                      /\ \A i \in DOMAIN toUs' : toUs'[i].word = "STATE" /\ toUs'[i].tid = toUs'[j].tid => i < j
    BY <1>0 DEF SaidLast
  <2>1. j \in Nat /\ j + 1 \in DOMAIN toUs /\ toUs'[j] = toUs[j + 1]
    BY <1>1
  <2>2. /\ \A ln \in lines : ln.tid = toUs[j + 1].tid => ln.st = "linked"
        /\ \A i \in DOMAIN toUs : toUs[i].word = "STATE" /\ toUs[i].tid = toUs[j + 1].tid => i < j + 1
    BY <2>1, InvParts DEF SaidLast
  <2>3. ASSUME NEW i \in DOMAIN toUs', toUs'[i].word = "STATE", toUs'[i].tid = toUs'[j].tid PROVE i < j
    <3>1. i \in Nat /\ i + 1 \in DOMAIN toUs /\ toUs'[i] = toUs[i + 1]
      BY <1>1
    <3>2. i + 1 < j + 1
      BY <2>1, <2>2, <2>3, <3>1
    <3> QED BY <2>1, <3>1, <3>2
  <2> QED BY <2>1, <2>2, <2>3
<1> QED BY <1>2, <1>3

\* STATE, CONNECT and GONE: one message less, and after the last two the call
\* of that number waits no more.
LEMMA WireHeard ==
    ASSUME TalkInv, UNCHANGED <<adapter, talkd, toTalkd>>, toUs # <<>>, toUs' = Tail(toUs),
           Head(toUs).word \in {"STATE", "CONNECT", "GONE"}, NEW t, t = Head(toUs).tid,
           Len(objs') = Len(objs), mixed' = mixed, Held' \subseteq Held,
           \/ Head(toUs).word = "STATE" /\ Waiting' = Waiting /\ Joined' = Joined
           \/ Head(toUs).word \in Settles /\ Waiting' = Waiting \ {t}
              /\ Joined' \subseteq Joined \cup (Waiting \cap {t})
    PROVE  WirePart'
<1>0. UNCHANGED <<auto_answer, phase, acct, nextT, lines, toTalkd>>
  BY DEF adapter, talkd
<1>1. /\ toUs' \in Seq(Message) /\ 1 \in DOMAIN toUs /\ Head(toUs) = toUs[1]
      /\ \A i \in DOMAIN toUs' : i \in Nat /\ i + 1 \in DOMAIN toUs /\ toUs'[i] = toUs[i + 1]
      /\ \A i \in DOMAIN toUs : i \in Nat /\ i > 0 /\
           (i # 1 => i - 1 \in DOMAIN toUs' /\ toUs'[i - 1] = toUs[i])
      /\ \A ws, n : OnWire(toUs', ws, n) => OnWire(toUs, ws, n)
      /\ \A ws, n : OnWire(toUs, ws, n) =>
           OnWire(toUs', ws, n) \/ (Head(toUs).word \in ws /\ Head(toUs).tid = n)
      /\ Cardinality(Rings(toUs')) <= Cardinality(Rings(toUs))
      /\ Cardinality(Rings(toUs)) \in Nat /\ Cardinality(Rings(toUs')) \in Nat
  BY InvTypes, Heard
<1>2. toUs[1].word = Head(toUs).word /\ toUs[1].tid = t
  BY <1>1
<1>3. Waiting' \subseteq Waiting
  OBVIOUS
<1>4. WireTypes'
  BY <1>0, <1>1, InvTypes, InvParts DEF WireTypes
<1>5. GivenOut'
  <2>1. Given' = Given /\ Ours(Len(objs))' = Ours(Len(objs)) /\ Theirs(nextT)' = Theirs(nextT)
    BY <1>0 DEF Given
  <2>2. \A i \in DOMAIN toUs' :
         /\ toUs'[i].word \in Tells
         /\ toUs'[i].word = "RING" => toUs'[i].tid \in Theirs(nextT) /\ toUs'[i].peer \in Peers
         /\ toUs'[i].word = "STATE" => toUs'[i].tid \in Ours(Len(objs))
         /\ toUs'[i].tid \in Given
    BY <1>1, InvParts DEF GivenOut
  <2>3. /\ Waiting' \subseteq Given
        /\ \A ln \in lines : /\ ln.tid \in Given
                             /\ ln.st = "calling" => ln.tid \in Ours(Len(objs))
        /\ \A i \in DOMAIN toTalkd :
             /\ toTalkd[i].word \in Asks
             /\ toTalkd[i].word = "CALL" => toTalkd[i].tid \in Ours(Len(objs)) /\ toTalkd[i].peer \in Peers
             /\ toTalkd[i].word = "DECLINE" => toTalkd[i].tid \in Theirs(nextT)
             /\ toTalkd[i].tid \in Ours(Len(objs)) \cup TalkdTids
    BY <1>3, InvParts DEF GivenOut
  <2> QED BY <1>0, <2>1, <2>2, <2>3 DEF GivenOut
<1>6. phase = "up"
  BY InvParts DEF Offline
<1>7. Offline' /\ OneLine'
  BY <1>0, <1>6, InvParts DEF Offline, OneLine
<1>8. SameNumber'
  <2>1. ASSUME NEW i \in DOMAIN toUs', toUs'[i].word = "RING"
        PROVE  /\ toUs'[i].tid \in Held' => toUs'[i].tid \in mixed'
               /\ OnWire(toTalkd', Refuses, toUs'[i].tid) => toUs'[i].tid \in mixed'
               /\ \A j \in DOMAIN toUs' : toUs'[j].word = "RING" /\ toUs'[j].tid = toUs'[i].tid => i = j
    <3>1. i + 1 \in DOMAIN toUs /\ toUs'[i] = toUs[i + 1]
      BY <1>1
    <3>2. /\ toUs[i + 1].tid \in Held => toUs[i + 1].tid \in mixed
          /\ OnWire(toTalkd, Refuses, toUs[i + 1].tid) => toUs[i + 1].tid \in mixed
          /\ \A j \in DOMAIN toUs : toUs[j].word = "RING" /\ toUs[j].tid = toUs[i + 1].tid => i + 1 = j
      BY <2>1, <3>1, InvParts DEF SameNumber
    <3>3. ASSUME NEW j \in DOMAIN toUs', toUs'[j].word = "RING", toUs'[j].tid = toUs'[i].tid PROVE i = j
      <4>1. j + 1 \in DOMAIN toUs /\ toUs'[j] = toUs[j + 1] /\ i \in Nat /\ j \in Nat
        BY <1>1
      <4>2. i + 1 = j + 1
        BY <3>1, <3>2, <3>3, <4>1
      <4> QED BY <4>1, <4>2
    <3> QED BY <1>0, <3>1, <3>2, <3>3
  <2>2. ASSUME NEW n \in Waiting' \cup Joined', OnWire(toTalkd', Refuses, n) PROVE n \in mixed'
    <3>1. n \in Waiting \cup Joined
      BY <1>3, <2>2
    <3> QED BY <1>0, <2>2, <3>1, InvParts DEF SameNumber
  <2> QED BY <2>1, <2>2 DEF SameNumber
<1>9. Asked'
  <2> SUFFICES ASSUME NEW i \in DOMAIN toTalkd, toTalkd[i].word = "CALL"
               PROVE  /\ ~Known(toTalkd[i].tid) /\ ~OnWire(toUs', Tells, toTalkd[i].tid)
                      /\ \A j \in DOMAIN toTalkd :
                           toTalkd[j].word = "CALL" /\ toTalkd[j].tid = toTalkd[i].tid => i = j
                      /\ \/ toTalkd[i].tid \in Waiting'
                         \/ \E j \in DOMAIN toTalkd :
                              i < j /\ toTalkd[j].word = "HANGUP" /\ toTalkd[j].tid = toTalkd[i].tid
    BY <1>0 DEF Asked, Known
  <2>1. /\ ~Known(toTalkd[i].tid) /\ ~OnWire(toUs, Tells, toTalkd[i].tid)
        /\ \A j \in DOMAIN toTalkd :
             toTalkd[j].word = "CALL" /\ toTalkd[j].tid = toTalkd[i].tid => i = j
        /\ \/ toTalkd[i].tid \in Waiting
           \/ \E j \in DOMAIN toTalkd :
                i < j /\ toTalkd[j].word = "HANGUP" /\ toTalkd[j].tid = toTalkd[i].tid
    BY InvParts DEF Asked
  <2>2. toTalkd[i].tid # t
    BY <1>1, <1>2, <2>1 DEF OnWire, Tells
  <2> QED BY <1>1, <2>1, <2>2
<1>10. RingKnown' /\ SaidLast'
  BY <1>0, StillToRead
<1>12. Progress'
  <2> SUFFICES ASSUME NEW n \in Joined'
               PROVE  /\ \A ln \in lines : ln.tid = n => ln.st # "calling"
                      /\ ~OnWire(toUs', {"STATE"}, n)
    BY <1>0 DEF Progress
  <2>1. CASE n \in Joined
    BY <1>1, <2>1, InvParts DEF Progress
  <2>2. CASE n \notin Joined
    <3>1. Head(toUs).word \in Settles /\ n = t
      BY <2>2
    <3>2. /\ \A ln \in lines : ln.tid = t => ln.st = "linked"
          /\ \A i \in DOMAIN toUs : toUs[i].word = "STATE" /\ toUs[i].tid = t => i < 1
      BY <1>1, <1>2, <3>1, InvParts DEF SaidLast
    <3>3. ~OnWire(toUs', {"STATE"}, t)
      <4> SUFFICES ASSUME NEW i \in DOMAIN toUs', toUs'[i].word = "STATE", toUs'[i].tid = t PROVE FALSE
        BY DEF OnWire
      <4>1. i \in Nat /\ i + 1 \in DOMAIN toUs /\ toUs'[i] = toUs[i + 1]
        BY <1>1
      <4>2. i + 1 < 1
        BY <3>2, <4>1
      <4> QED BY <4>1, <4>2
    <3> QED BY <3>1, <3>2, <3>3
  <2> QED BY <2>1, <2>2
<1>13. Real'
  <2> SUFFICES ASSUME NEW n \in Waiting', n \notin mixed
               PROVE  Known(n) \/ OnWire(toTalkd, {"CALL"}, n) \/ OnWire(toUs', Settles, n)
    BY <1>0 DEF Real, Known
  <2>1. Known(n) \/ OnWire(toTalkd, {"CALL"}, n) \/ OnWire(toUs, Settles, n)
    BY <1>3, InvParts DEF Real
  <2>2. Head(toUs).word \in Settles => n # t
    BY DEF Settles
  <2> QED BY <1>1, <2>1, <2>2
<1>14. Unseen'
  <2> SUFFICES ASSUME NEW ln \in lines, ln.st # "linked"
               PROVE  \/ ln.tid \in Waiting' \/ OnWire(toUs', {"RING"}, ln.tid)
                      \/ OnWire(toTalkd, Refuses, ln.tid) \/ ln.tid \in mixed
    BY <1>0 DEF Unseen
  <2>1. \/ ln.tid \in Waiting \/ OnWire(toUs, {"RING"}, ln.tid)
        \/ OnWire(toTalkd, Refuses, ln.tid) \/ ln.tid \in mixed
    BY InvParts DEF Unseen
  <2>2. Head(toUs).word \in Settles => ln.tid # t
    BY <1>1, <1>2, InvParts DEF SaidLast
  <2>3. OnWire(toUs, {"RING"}, ln.tid) => OnWire(toUs', {"RING"}, ln.tid)
    BY <1>1
  <2> QED BY <2>1, <2>2, <2>3
<1> QED BY <1>4, <1>5, <1>7, <1>8, <1>9, <1>10, <1>12, <1>13, <1>14 DEF WirePart

\* What is said with a word, a number and a person
LEMMA SaidOf ==
    ASSUME NEW w \in Words, NEW t \in Tids, NEW p \in Peers
    PROVE  /\ Say(w, t, p) \in Message /\ Say(w, t, p).word = w /\ Say(w, t, p).tid = t
           /\ Say(w, t, p).peer = p
BY DEF Say, Message

\* What say() makes of a word and a number
LEMMA Spoken ==
    ASSUME NEW w \in Words, NEW t \in Tids
    PROVE  Speak(w, t) \in Message /\ Speak(w, t).word = w /\ Speak(w, t).tid = t
BY DEF Speak, Say, Message

\* ACCEPT, and a refusal, after which talkd will hear no more of the call.
LEMMA WireSpoken ==
    ASSUME TalkInv, UNCHANGED <<adapter, talkd, toUs>>, phase = "up", NEW t,
           NEW w \in {"ACCEPT", "DECLINE", "HANGUP"}, toTalkd' = Append(toTalkd, Speak(w, t)),
           Len(objs') = Len(objs), mixed' = mixed, Held' \subseteq Held, t \in Held,
           t \in Ours(Len(objs)) \cup TalkdTids,
           w = "DECLINE" => t \in Waiting /\ t \in TalkdTids,
           \/ w = "ACCEPT" /\ Waiting' = Waiting /\ Joined' = Joined
           \/ w \in Refuses /\ Waiting' = Waiting \ {t} /\ Joined' = Joined \ {t}
    PROVE  WirePart'
<1>0. UNCHANGED <<auto_answer, phase, acct, nextT, lines, toUs>>
  BY DEF adapter, talkd
<1>1. w \in Words /\ t \in Tids
  BY TwoKinds DEF Words
<1>2. PICK m \in Message : m = Speak(w, t) /\ m.word = w /\ m.tid = t
  BY <1>1, Spoken
<1>3. /\ toTalkd' \in Seq(Message)
      /\ \E k \in Nat :
           /\ DOMAIN toTalkd' = DOMAIN toTalkd \cup {k} /\ toTalkd'[k] = m
           /\ \A i \in DOMAIN toTalkd : i \in Nat /\ i < k /\ toTalkd'[i] = toTalkd[i]
      /\ \A ws, n : OnWire(toTalkd', ws, n) <=> OnWire(toTalkd, ws, n) \/ (m.word \in ws /\ m.tid = n)
  BY <1>2, InvTypes, SaidTo
<1>4. PICK k \in Nat :
           /\ DOMAIN toTalkd' = DOMAIN toTalkd \cup {k} /\ toTalkd'[k] = m
           /\ \A i \in DOMAIN toTalkd : i \in Nat /\ i < k /\ toTalkd'[i] = toTalkd[i]
  BY <1>3
<1>5. Waiting' \subseteq Waiting /\ Joined' \subseteq Joined
  OBVIOUS
<1>6. \A n : OnWire(toTalkd, {"CALL"}, n) <=> OnWire(toTalkd', {"CALL"}, n)
  BY <1>2, <1>3
<1>7. WireTypes'
  BY <1>0, <1>3, InvTypes, InvParts DEF WireTypes
<1>8. GivenOut'
  <2>1. Given' = Given /\ Ours(Len(objs))' = Ours(Len(objs)) /\ Theirs(nextT)' = Theirs(nextT)
    BY <1>0 DEF Given
  <2>2. w = "DECLINE" => t \in Theirs(nextT)
    <3> SUFFICES ASSUME w = "DECLINE" PROVE t \in Theirs(nextT)
      OBVIOUS
    <3>1. t \in Given
      BY InvParts DEF GivenOut
    <3> QED BY <3>1, TwoKinds DEF Given
  <2>3. \A i \in DOMAIN toTalkd' :
         /\ toTalkd'[i].word \in Asks
         /\ toTalkd'[i].word = "CALL" => toTalkd'[i].tid \in Ours(Len(objs)) /\ toTalkd'[i].peer \in Peers
         /\ toTalkd'[i].word = "DECLINE" => toTalkd'[i].tid \in Theirs(nextT)
         /\ toTalkd'[i].tid \in Ours(Len(objs)) \cup TalkdTids
    <3> SUFFICES ASSUME NEW i \in DOMAIN toTalkd'
                 PROVE  /\ toTalkd'[i].word \in Asks
                        /\ toTalkd'[i].word = "CALL" =>
                             toTalkd'[i].tid \in Ours(Len(objs)) /\ toTalkd'[i].peer \in Peers
                        /\ toTalkd'[i].word = "DECLINE" => toTalkd'[i].tid \in Theirs(nextT)
                        /\ toTalkd'[i].tid \in Ours(Len(objs)) \cup TalkdTids
      OBVIOUS
    <3>1. CASE i \in DOMAIN toTalkd
      BY <1>4, <3>1, InvParts DEF GivenOut
    <3>2. CASE i = k
      BY <1>2, <1>4, <2>2, <3>2 DEF Asks
    <3> QED BY <1>4, <3>1, <3>2
  <2>4. /\ Waiting' \subseteq Given
        /\ \A ln \in lines : /\ ln.tid \in Given
                             /\ ln.st = "calling" => ln.tid \in Ours(Len(objs))
        /\ \A i \in DOMAIN toUs :
             /\ toUs[i].word \in Tells
             /\ toUs[i].word = "RING" => toUs[i].tid \in Theirs(nextT) /\ toUs[i].peer \in Peers
             /\ toUs[i].word = "STATE" => toUs[i].tid \in Ours(Len(objs))
             /\ toUs[i].tid \in Given
    BY <1>5, InvParts DEF GivenOut
  <2> QED BY <1>0, <2>1, <2>3, <2>4 DEF GivenOut
<1>9. Offline' /\ OneLine'
  BY <1>0, InvParts DEF Offline, OneLine
<1>10. SameNumber'
  <2>1. ASSUME NEW i \in DOMAIN toUs, toUs[i].word = "RING"
        PROVE  /\ toUs[i].tid \in Held' => toUs[i].tid \in mixed'
               /\ OnWire(toTalkd', Refuses, toUs[i].tid) => toUs[i].tid \in mixed'
               /\ \A j \in DOMAIN toUs : toUs[j].word = "RING" /\ toUs[j].tid = toUs[i].tid => i = j
    <3>1. /\ toUs[i].tid \in Held => toUs[i].tid \in mixed
          /\ OnWire(toTalkd, Refuses, toUs[i].tid) => toUs[i].tid \in mixed
          /\ \A j \in DOMAIN toUs : toUs[j].word = "RING" /\ toUs[j].tid = toUs[i].tid => i = j
      BY <2>1, InvParts DEF SameNumber
    <3> QED BY <1>2, <1>3, <3>1
  <2>2. ASSUME NEW n \in Waiting' \cup Joined', OnWire(toTalkd', Refuses, n) PROVE n \in mixed'
    <3>1. n \in Waiting \cup Joined
      BY <1>5, <2>2
    <3>2. OnWire(toTalkd, Refuses, n)
      BY <1>2, <1>3, <2>2 DEF Refuses
    <3> QED BY <3>1, <3>2, InvParts DEF SameNumber
  <2> QED BY <1>0, <2>1, <2>2 DEF SameNumber
<1>11. Asked'
  <2> SUFFICES ASSUME NEW i \in DOMAIN toTalkd', toTalkd'[i].word = "CALL"
               PROVE  /\ ~Known(toTalkd'[i].tid) /\ ~OnWire(toUs, Tells, toTalkd'[i].tid)
                      /\ \A j \in DOMAIN toTalkd' :
                           toTalkd'[j].word = "CALL" /\ toTalkd'[j].tid = toTalkd'[i].tid => i = j
                      /\ \/ toTalkd'[i].tid \in Waiting'
                         \/ \E j \in DOMAIN toTalkd' :
                              i < j /\ toTalkd'[j].word = "HANGUP" /\ toTalkd'[j].tid = toTalkd'[i].tid
    BY <1>0 DEF Asked, Known
  <2>1. i \in DOMAIN toTalkd /\ i \in Nat /\ i < k /\ toTalkd'[i] = toTalkd[i]
    BY <1>2, <1>4
  <2>2. /\ ~Known(toTalkd[i].tid) /\ ~OnWire(toUs, Tells, toTalkd[i].tid)
        /\ \A j \in DOMAIN toTalkd :
             toTalkd[j].word = "CALL" /\ toTalkd[j].tid = toTalkd[i].tid => i = j
        /\ \/ toTalkd[i].tid \in Waiting
           \/ \E j \in DOMAIN toTalkd :
                i < j /\ toTalkd[j].word = "HANGUP" /\ toTalkd[j].tid = toTalkd[i].tid
    BY <2>1, InvParts DEF Asked
  <2>3. \A j \in DOMAIN toTalkd' :
          toTalkd'[j].word = "CALL" /\ toTalkd'[j].tid = toTalkd'[i].tid => i = j
    BY <1>2, <1>4, <2>1, <2>2
  <2>4. CASE toTalkd[i].tid \in Waiting /\ toTalkd[i].tid # t
    BY <2>1, <2>2, <2>3, <2>4
  <2>5. CASE toTalkd[i].tid \in Waiting /\ toTalkd[i].tid = t
    <3>1. t \in Ours(Len(objs))
      BY <2>1, <2>5, InvParts DEF GivenOut
    <3>2. w # "DECLINE"
      BY <3>1, TwoKinds
    <3>3. CASE w = "ACCEPT"
      BY <2>1, <2>2, <2>3, <2>5, <3>3 DEF Refuses
    <3>4. CASE w = "HANGUP"
      BY <1>2, <1>4, <2>1, <2>2, <2>3, <2>5, <3>4
    <3> QED BY <3>2, <3>3, <3>4
  <2>6. CASE \E j \in DOMAIN toTalkd :
                i < j /\ toTalkd[j].word = "HANGUP" /\ toTalkd[j].tid = toTalkd[i].tid
    BY <1>4, <2>1, <2>2, <2>3, <2>6
  <2> QED BY <2>2, <2>4, <2>5, <2>6
<1>12. RingKnown' /\ SaidLast'
  BY <1>0, InvParts DEF RingKnown, Known, SaidLast
<1>13. Progress'
  BY <1>0, <1>5, InvParts DEF Progress
<1>14. Real'
  <2> SUFFICES ASSUME NEW n \in Waiting', n \notin mixed
               PROVE  Known(n) \/ OnWire(toTalkd', {"CALL"}, n) \/ OnWire(toUs, Settles, n)
    BY <1>0 DEF Real, Known
  <2> QED BY <1>5, <1>6, InvParts DEF Real
<1>15. Unseen'
  <2> SUFFICES ASSUME NEW ln \in lines, ln.st # "linked"
               PROVE  \/ ln.tid \in Waiting' \/ OnWire(toUs, {"RING"}, ln.tid)
                      \/ OnWire(toTalkd', Refuses, ln.tid) \/ ln.tid \in mixed
    BY <1>0 DEF Unseen
  <2>1. \/ ln.tid \in Waiting \/ OnWire(toUs, {"RING"}, ln.tid)
        \/ OnWire(toTalkd, Refuses, ln.tid) \/ ln.tid \in mixed
    BY InvParts DEF Unseen
  <2> QED BY <1>2, <1>3, <2>1
<1> QED BY <1>7, <1>8, <1>9, <1>10, <1>11, <1>12, <1>13, <1>14, <1>15 DEF WirePart

\* Asked in the next state, from what the wire to talkd then has: nothing talkd has or says changed
LEMMA AskedNext ==
    ASSUME lines' = lines, toUs' = toUs,
           \A i \in DOMAIN toTalkd' : toTalkd'[i].word = "CALL" =>
             /\ ~Known(toTalkd'[i].tid) /\ ~OnWire(toUs, Tells, toTalkd'[i].tid)
             /\ \A j \in DOMAIN toTalkd' :
                  toTalkd'[j].word = "CALL" /\ toTalkd'[j].tid = toTalkd'[i].tid => i = j
             /\ \/ toTalkd'[i].tid \in Waiting'
                \/ \E j \in DOMAIN toTalkd' :
                     i < j /\ toTalkd'[j].word = "HANGUP" /\ toTalkd'[j].tid = toTalkd'[i].tid
    PROVE  Asked'
BY DEF Asked, Known

\* join: CALL goes out with a number that nobody has.
LEMMA WireJoined ==
    ASSUME TalkInv, UNCHANGED <<adapter, talkd, toUs>>, phase = "up", NEW p \in Peers,
           NEW t, t = <<"c", Len(objs) + 1>>, toTalkd' = Append(toTalkd, Say("CALL", t, p)),
           Len(objs') = Len(objs) + 1, Len(objs) + Cardinality(Rings(toUs)) < MaxCalls,
           mixed' = mixed, Waiting' = Waiting \cup {t}, Joined' = Joined, Held' = Held \cup {t},
           t \notin Held
    PROVE  WirePart'
<1>0. UNCHANGED <<auto_answer, phase, acct, nextT, lines, toUs>>
  BY DEF adapter, talkd
<1>1. PICK l \in Nat : l = Len(objs) /\ l + 1 <= MaxCalls /\ Len(objs') = l + 1
  BY InvTypes
<1>2. /\ Ours(l) \subseteq Ours(l + 1) /\ t \in Ours(l + 1) /\ t \notin Ours(l)
      /\ t \notin TalkdTids /\ t \in Tids
  <2>1. t = <<"c", l + 1>>
    BY <1>1
  <2>2. t \notin TalkdTids /\ t \in Tids
    BY <1>1, <2>1, InvTypes DEF TalkdTids, Tids
  <2>3. Ours(l) \subseteq Ours(l + 1) /\ <<"c", l + 1>> \in Ours(l + 1) /\ <<"c", l + 1>> \notin Ours(l)
    BY <1>1 DEF Ours
  <2> QED BY <2>1, <2>2, <2>3
<1>3. t \notin Theirs(nextT) /\ t \notin mixed /\ t \notin Given
  BY <1>1, <1>2, TwoKinds, InvParts DEF Given, CallPart, CallTypes
<1>4. PICK m \in Message : m = Say("CALL", t, p) /\ m.word = "CALL" /\ m.tid = t /\ m.peer = p
  <2>1. "CALL" \in Words
    BY DEF Words
  <2> QED BY <1>2, <2>1, SaidOf
<1>5. /\ toTalkd' \in Seq(Message)
      /\ \E k \in Nat :
           /\ DOMAIN toTalkd' = DOMAIN toTalkd \cup {k} /\ toTalkd'[k] = m
           /\ \A i \in DOMAIN toTalkd : i \in Nat /\ i < k /\ toTalkd'[i] = toTalkd[i]
      /\ \A ws, n : OnWire(toTalkd', ws, n) <=> OnWire(toTalkd, ws, n) \/ (m.word \in ws /\ m.tid = n)
  BY <1>4, InvTypes, SaidTo
<1>6. PICK k \in Nat :
           /\ DOMAIN toTalkd' = DOMAIN toTalkd \cup {k} /\ toTalkd'[k] = m
           /\ \A i \in DOMAIN toTalkd : i \in Nat /\ i < k /\ toTalkd'[i] = toTalkd[i]
  BY <1>5
<1>7. \A n : OnWire(toTalkd', Refuses, n) <=> OnWire(toTalkd, Refuses, n)
  BY <1>4, <1>5 DEF Refuses
<1>8. Given \subseteq Given' /\ Ours(Len(objs)) \subseteq Ours(Len(objs))' /\ t \in Ours(Len(objs))'
  BY <1>0, <1>1, <1>2 DEF Given
<1>9. WireTypes'
  <2>1. Len(objs') + Cardinality(Rings(toUs)) <= MaxCalls
    BY <1>1, InvTypes
  <2> QED BY <1>0, <1>5, <2>1, InvTypes, InvParts DEF WireTypes
<1>10. GivenOut'
  <2>1. \A i \in DOMAIN toTalkd' :
         /\ toTalkd'[i].word \in Asks
         /\ toTalkd'[i].word = "CALL" => toTalkd'[i].tid \in Ours(Len(objs))' /\ toTalkd'[i].peer \in Peers
         /\ toTalkd'[i].word = "DECLINE" => toTalkd'[i].tid \in Theirs(nextT)
         /\ toTalkd'[i].tid \in Ours(Len(objs))' \cup TalkdTids
    <3> SUFFICES ASSUME NEW i \in DOMAIN toTalkd'
                 PROVE  /\ toTalkd'[i].word \in Asks
                        /\ toTalkd'[i].word = "CALL" =>
                             toTalkd'[i].tid \in Ours(Len(objs))' /\ toTalkd'[i].peer \in Peers
                        /\ toTalkd'[i].word = "DECLINE" => toTalkd'[i].tid \in Theirs(nextT)
                        /\ toTalkd'[i].tid \in Ours(Len(objs))' \cup TalkdTids
      OBVIOUS
    <3>1. CASE i \in DOMAIN toTalkd
      BY <1>6, <1>8, <3>1, InvParts DEF GivenOut
    <3>2. CASE i = k
      BY <1>4, <1>6, <1>8, <3>2 DEF Asks
    <3> QED BY <1>6, <3>1, <3>2
  <2>2. Waiting' \subseteq Given'
    BY <1>8, InvParts DEF GivenOut, Given
  <2>3. \A ln \in lines : /\ ln.tid \in Given'
                          /\ ln.st = "calling" => ln.tid \in Ours(Len(objs))'
    BY <1>8, InvParts DEF GivenOut
  <2>4. \A i \in DOMAIN toUs :
             /\ toUs[i].word \in Tells
             /\ toUs[i].word = "RING" => toUs[i].tid \in Theirs(nextT) /\ toUs[i].peer \in Peers
             /\ toUs[i].word = "STATE" => toUs[i].tid \in Ours(Len(objs))'
             /\ toUs[i].tid \in Given'
    BY <1>8, InvParts DEF GivenOut
  <2> QED BY <1>0, <2>1, <2>2, <2>3, <2>4 DEF GivenOut
<1>11. Offline' /\ OneLine'
  BY <1>0, InvParts DEF Offline, OneLine
<1>12. SameNumber'
  <2>1. ASSUME NEW i \in DOMAIN toUs, toUs[i].word = "RING"
        PROVE  /\ toUs[i].tid \in Held' => toUs[i].tid \in mixed'
               /\ OnWire(toTalkd', Refuses, toUs[i].tid) => toUs[i].tid \in mixed'
               /\ \A j \in DOMAIN toUs : toUs[j].word = "RING" /\ toUs[j].tid = toUs[i].tid => i = j
    <3>1. /\ toUs[i].tid \in Held => toUs[i].tid \in mixed
          /\ OnWire(toTalkd, Refuses, toUs[i].tid) => toUs[i].tid \in mixed
          /\ \A j \in DOMAIN toUs : toUs[j].word = "RING" /\ toUs[j].tid = toUs[i].tid => i = j
      BY <2>1, InvParts DEF SameNumber
    <3>2. toUs[i].tid # t
      BY <1>3, <2>1, InvParts DEF GivenOut
    <3> QED BY <1>7, <3>1, <3>2
  <2>2. ASSUME NEW n \in Waiting' \cup Joined', OnWire(toTalkd', Refuses, n) PROVE n \in mixed'
    <3>1. OnWire(toTalkd, Refuses, n)
      BY <1>7, <2>2
    <3>2. n # t
      BY <1>1, <1>2, <3>1, InvParts DEF OnWire, GivenOut
    <3> QED BY <2>2, <3>1, <3>2, InvParts DEF SameNumber
  <2> QED BY <1>0, <2>1, <2>2 DEF SameNumber
<1>13. Asked'
  <2>0. \A j \in DOMAIN toTalkd : toTalkd[j].tid # t
    BY <1>1, <1>2, InvParts DEF GivenOut
  <2>1. ASSUME NEW i \in DOMAIN toTalkd', toTalkd'[i].word = "CALL"
        PROVE  /\ ~Known(toTalkd'[i].tid) /\ ~OnWire(toUs, Tells, toTalkd'[i].tid)
               /\ \A j \in DOMAIN toTalkd' :
                    toTalkd'[j].word = "CALL" /\ toTalkd'[j].tid = toTalkd'[i].tid => i = j
               /\ \/ toTalkd'[i].tid \in Waiting'
                  \/ \E j \in DOMAIN toTalkd' :
                       i < j /\ toTalkd'[j].word = "HANGUP" /\ toTalkd'[j].tid = toTalkd'[i].tid
    <3>1. CASE i \in DOMAIN toTalkd
      <4>1. i \in Nat /\ i < k /\ toTalkd'[i] = toTalkd[i]
        BY <1>6, <3>1
      <4>2. /\ ~Known(toTalkd[i].tid) /\ ~OnWire(toUs, Tells, toTalkd[i].tid)
            /\ \A j \in DOMAIN toTalkd :
                 toTalkd[j].word = "CALL" /\ toTalkd[j].tid = toTalkd[i].tid => i = j
            /\ \/ toTalkd[i].tid \in Waiting
               \/ \E j \in DOMAIN toTalkd :
                    i < j /\ toTalkd[j].word = "HANGUP" /\ toTalkd[j].tid = toTalkd[i].tid
        BY <2>1, <3>1, <4>1, InvParts DEF Asked
      <4>3. \A j \in DOMAIN toTalkd' :
              toTalkd'[j].word = "CALL" /\ toTalkd'[j].tid = toTalkd'[i].tid => i = j
        <5> SUFFICES ASSUME NEW j \in DOMAIN toTalkd',
                            toTalkd'[j].word = "CALL", toTalkd'[j].tid = toTalkd'[i].tid
                     PROVE  i = j
          OBVIOUS
        <5>1. CASE j = k
          BY <1>4, <1>6, <2>0, <3>1, <4>1, <5>1
        <5>2. CASE j \in DOMAIN toTalkd
          <6>1. toTalkd'[j] = toTalkd[j]
            BY <1>6, <5>2
          <6> QED BY <4>1, <4>2, <5>2, <6>1
        <5> QED BY <1>6, <5>1, <5>2
      <4>4. CASE toTalkd[i].tid \in Waiting
        BY <4>1, <4>2, <4>3, <4>4
      <4>5. CASE \E j \in DOMAIN toTalkd :
                    i < j /\ toTalkd[j].word = "HANGUP" /\ toTalkd[j].tid = toTalkd[i].tid
        <5>1. PICK j \in DOMAIN toTalkd :
                    i < j /\ toTalkd[j].word = "HANGUP" /\ toTalkd[j].tid = toTalkd[i].tid
          BY <4>5
        <5>2. j \in DOMAIN toTalkd' /\ toTalkd'[j] = toTalkd[j]
          BY <1>6
        <5> QED BY <4>1, <4>2, <4>3, <5>1, <5>2
      <4> QED BY <4>2, <4>4, <4>5
    <3>2. CASE i = k
      <4>1. toTalkd'[i].tid = t
        BY <1>4, <1>6, <3>2
      <4>2. ~Known(t) /\ ~OnWire(toUs, Tells, t)
        BY <1>3, InvParts DEF Known, OnWire, GivenOut
      <4>3. \A j \in DOMAIN toTalkd' : toTalkd'[j].tid = t => j = k
        BY <1>6, <2>0
      <4> QED BY <3>2, <4>1, <4>2, <4>3
    <3> QED BY <1>6, <3>1, <3>2
  <2> QED BY <1>0, <2>1, AskedNext
<1>14. RingKnown' /\ SaidLast' /\ Progress'
  BY <1>0, InvParts DEF RingKnown, Known, SaidLast, Progress
<1>15. Real'
  <2> SUFFICES ASSUME NEW n \in Waiting', n \notin mixed
               PROVE  Known(n) \/ OnWire(toTalkd', {"CALL"}, n) \/ OnWire(toUs, Settles, n)
    BY <1>0 DEF Real, Known
  <2>1. CASE n = t
    BY <1>4, <1>5, <2>1
  <2>2. CASE n # t
    <3>1. Known(n) \/ OnWire(toTalkd, {"CALL"}, n) \/ OnWire(toUs, Settles, n)
      BY <2>2, InvParts DEF Real
    <3> QED BY <1>5, <3>1
  <2> QED BY <2>1, <2>2
<1>16. Unseen'
  BY <1>0, <1>7, InvParts DEF Unseen
<1> QED BY <1>9, <1>10, <1>11, <1>12, <1>13, <1>14, <1>15, <1>16 DEF WirePart

\* Nothing but an ACCEPT is added to what talkd is told.
OnlyAccepts ==
    /\ toTalkd' \in Seq(Message)
    /\ \A i \in DOMAIN toTalkd : i \in DOMAIN toTalkd' /\ toTalkd'[i] = toTalkd[i]
    /\ \A i \in DOMAIN toTalkd' : i \notin DOMAIN toTalkd =>
         toTalkd'[i].word = "ACCEPT" /\ toTalkd'[i].tid \in Ours(Len(objs)) \cup TalkdTids
    /\ \A n : OnWire(toTalkd', {"CALL"}, n) <=> OnWire(toTalkd, {"CALL"}, n)
    /\ \A n : OnWire(toTalkd', Refuses, n) <=> OnWire(toTalkd, Refuses, n)

\* An answer puts at most an ACCEPT on the wire, of a call that waits or just rang
LEMMA AcceptsSaid ==
    ASSUME TalkInv, NEW t \in TalkdTids,
           \/ toTalkd' = toTalkd
           \/ \E n \in Waiting \cup {t} : toTalkd' = Append(toTalkd, Speak("ACCEPT", n))
    PROVE  OnlyAccepts
<1>1. CASE toTalkd' = toTalkd
  BY <1>1, InvTypes DEF OnlyAccepts
<1>2. CASE \E n \in Waiting \cup {t} : toTalkd' = Append(toTalkd, Speak("ACCEPT", n))
  <2>1. PICK n \in Waiting \cup {t} : toTalkd' = Append(toTalkd, Speak("ACCEPT", n))
    BY <1>2
  <2>2. n \in Ours(Len(objs)) \cup TalkdTids
    BY InvParts, TwoKinds DEF GivenOut, Given
  <2>3. n \in Tids /\ "ACCEPT" \in Words
    BY <2>2, TwoKinds DEF Words
  <2>4. PICK m \in Message : m = Speak("ACCEPT", n) /\ m.word = "ACCEPT" /\ m.tid = n
    BY <2>3, Spoken
  <2>5. /\ toTalkd' \in Seq(Message)
        /\ \E k \in Nat :
             /\ DOMAIN toTalkd' = DOMAIN toTalkd \cup {k} /\ toTalkd'[k] = m
             /\ \A i \in DOMAIN toTalkd : i \in Nat /\ i < k /\ toTalkd'[i] = toTalkd[i]
        /\ \A ws, x : OnWire(toTalkd', ws, x) <=> OnWire(toTalkd, ws, x) \/ (m.word \in ws /\ m.tid = x)
    BY <2>1, <2>4, InvTypes, SaidTo
  <2>6. /\ \A i \in DOMAIN toTalkd : i \in DOMAIN toTalkd' /\ toTalkd'[i] = toTalkd[i]
        /\ \A i \in DOMAIN toTalkd' : i \notin DOMAIN toTalkd =>
             toTalkd'[i].word = "ACCEPT" /\ toTalkd'[i].tid \in Ours(Len(objs)) \cup TalkdTids
    BY <2>2, <2>4, <2>5
  <2>7. \A x : OnWire(toTalkd', {"CALL"}, x) <=> OnWire(toTalkd, {"CALL"}, x)
    BY <2>4, <2>5
  <2>8. \A x : OnWire(toTalkd', Refuses, x) <=> OnWire(toTalkd, Refuses, x)
    BY <2>4, <2>5 DEF Refuses
  <2> QED BY <2>5, <2>6, <2>7, <2>8 DEF OnlyAccepts
<1> QED BY <1>1, <1>2

\* RING: the call is now ours to answer.
LEMMA WireIncoming ==
    ASSUME TalkInv, UNCHANGED <<adapter, talkd>>, toUs # <<>>, toUs' = Tail(toUs),
           Head(toUs).word = "RING", NEW t \in TalkdTids, t = Head(toUs).tid, OnlyAccepts,
           Len(objs') = Len(objs) + 1, mixed' = mixed, Waiting' = Waiting \cup {t},
           Joined' = Joined \ {t}, Held' = Held \cup {t}
    PROVE  WirePart'
<1>0. UNCHANGED <<auto_answer, phase, acct, nextT, lines>>
  BY DEF adapter, talkd
<1>1. /\ toUs' \in Seq(Message) /\ 1 \in DOMAIN toUs /\ Head(toUs) = toUs[1]
      /\ \A i \in DOMAIN toUs' : i \in Nat /\ i + 1 \in DOMAIN toUs /\ toUs'[i] = toUs[i + 1]
      /\ \A i \in DOMAIN toUs : i \in Nat /\ i > 0 /\
           (i # 1 => i - 1 \in DOMAIN toUs' /\ toUs'[i - 1] = toUs[i])
      /\ \A ws, n : OnWire(toUs', ws, n) => OnWire(toUs, ws, n)
      /\ \A ws, n : OnWire(toUs, ws, n) =>
           OnWire(toUs', ws, n) \/ (Head(toUs).word \in ws /\ Head(toUs).tid = n)
      /\ Cardinality(Rings(toUs')) + 1 <= Cardinality(Rings(toUs))
      /\ Cardinality(Rings(toUs)) \in Nat /\ Cardinality(Rings(toUs')) \in Nat
  BY InvTypes, Heard
<1>2. toUs[1].word = "RING" /\ toUs[1].tid = t
  BY <1>1
<1>3. /\ toTalkd' \in Seq(Message)
      /\ \A i \in DOMAIN toTalkd : i \in DOMAIN toTalkd' /\ toTalkd'[i] = toTalkd[i]
      /\ \A i \in DOMAIN toTalkd' : i \notin DOMAIN toTalkd =>
           toTalkd'[i].word = "ACCEPT" /\ toTalkd'[i].tid \in Ours(Len(objs)) \cup TalkdTids
      /\ \A n : OnWire(toTalkd', {"CALL"}, n) <=> OnWire(toTalkd, {"CALL"}, n)
      /\ \A n : OnWire(toTalkd', Refuses, n) <=> OnWire(toTalkd, Refuses, n)
  BY DEF OnlyAccepts
<1>4. Given \subseteq Given' /\ Ours(Len(objs)) \subseteq Ours(Len(objs))' /\ t \in Given
  <2>1. PICK l \in Nat : l = Len(objs) /\ Len(objs') = l + 1
    BY InvTypes
  <2>2. Ours(l) \subseteq Ours(l + 1)
    BY DEF Ours
  <2>3. t \in Given
    BY <1>1, <1>2, InvParts DEF GivenOut
  <2> QED BY <1>0, <2>1, <2>2, <2>3 DEF Given
<1>5. WireTypes'
  BY SMTT(20), <1>0, <1>1, <1>3, InvTypes, InvParts DEF WireTypes
<1>6. GivenOut'
  <2>1. \A i \in DOMAIN toUs' :
         /\ toUs'[i].word \in Tells
         /\ toUs'[i].word = "RING" => toUs'[i].tid \in Theirs(nextT) /\ toUs'[i].peer \in Peers
         /\ toUs'[i].word = "STATE" => toUs'[i].tid \in Ours(Len(objs))'
         /\ toUs'[i].tid \in Given'
    BY <1>1, <1>4, InvParts DEF GivenOut
  <2>2. \A ln \in lines : /\ ln.tid \in Given'
                          /\ ln.st = "calling" => ln.tid \in Ours(Len(objs))'
    BY <1>4, InvParts DEF GivenOut
  <2>3. \A i \in DOMAIN toTalkd' :
             /\ toTalkd'[i].word \in Asks
             /\ toTalkd'[i].word = "CALL" => toTalkd'[i].tid \in Ours(Len(objs))' /\ toTalkd'[i].peer \in Peers
             /\ toTalkd'[i].word = "DECLINE" => toTalkd'[i].tid \in Theirs(nextT)
             /\ toTalkd'[i].tid \in Ours(Len(objs))' \cup TalkdTids
    <3> SUFFICES ASSUME NEW i \in DOMAIN toTalkd'
                 PROVE  /\ toTalkd'[i].word \in Asks
                        /\ toTalkd'[i].word = "CALL" => toTalkd'[i].tid \in Ours(Len(objs))' /\ toTalkd'[i].peer \in Peers
                        /\ toTalkd'[i].word = "DECLINE" => toTalkd'[i].tid \in Theirs(nextT)
                        /\ toTalkd'[i].tid \in Ours(Len(objs))' \cup TalkdTids
      OBVIOUS
    <3>1. CASE i \in DOMAIN toTalkd
      BY <1>3, <1>4, <3>1, InvParts DEF GivenOut
    <3>2. CASE i \notin DOMAIN toTalkd
      BY <1>3, <1>4, <3>2 DEF Asks
    <3> QED BY <3>1, <3>2
  <2>4. Waiting' \subseteq Given'
    BY <1>4, InvParts DEF GivenOut
  <2> QED BY <1>0, <2>1, <2>2, <2>3, <2>4 DEF GivenOut
<1>7. phase = "up"
  BY InvParts DEF Offline
<1>8. Offline' /\ OneLine'
  BY <1>0, <1>7, InvParts DEF Offline, OneLine
<1>9. SameNumber'
  <2>1. ASSUME NEW i \in DOMAIN toUs', toUs'[i].word = "RING"
        PROVE  /\ toUs'[i].tid \in Held' => toUs'[i].tid \in mixed'
               /\ OnWire(toTalkd', Refuses, toUs'[i].tid) => toUs'[i].tid \in mixed'
               /\ \A j \in DOMAIN toUs' : toUs'[j].word = "RING" /\ toUs'[j].tid = toUs'[i].tid => i = j
    <3>1. i \in Nat /\ i + 1 \in DOMAIN toUs /\ toUs'[i] = toUs[i + 1]
      BY <1>1
    <3>2. /\ toUs[i + 1].tid \in Held => toUs[i + 1].tid \in mixed
          /\ OnWire(toTalkd, Refuses, toUs[i + 1].tid) => toUs[i + 1].tid \in mixed
          /\ \A j \in DOMAIN toUs : toUs[j].word = "RING" /\ toUs[j].tid = toUs[i + 1].tid => i + 1 = j
      BY <2>1, <3>1, InvParts DEF SameNumber
    <3>3. toUs[i + 1].tid # t
      <4>1. DOMAIN toUs \subseteq Nat /\ i + 1 # 1
        BY <1>1, <3>1
      <4> QED BY <1>1, <1>2, <3>2, <4>1
    <3>4. ASSUME NEW j \in DOMAIN toUs', toUs'[j].word = "RING", toUs'[j].tid = toUs'[i].tid PROVE i = j
      <4>1. j + 1 \in DOMAIN toUs /\ toUs'[j] = toUs[j + 1] /\ j \in Nat
        BY <1>1
      <4>2. i + 1 = j + 1
        BY <3>1, <3>2, <3>4, <4>1
      <4> QED BY <3>1, <4>1, <4>2
    <3> QED BY <1>3, <3>1, <3>2, <3>3, <3>4
  <2>2. ASSUME NEW n \in Waiting' \cup Joined', OnWire(toTalkd', Refuses, n) PROVE n \in mixed'
    <3>1. OnWire(toTalkd, Refuses, n)
      BY <1>3, <2>2
    <3>2. CASE n = t
      <4>1. OnWire(toTalkd, Refuses, toUs[1].tid) => toUs[1].tid \in mixed
        BY <1>1, <1>2, InvParts DEF SameNumber
      <4> QED BY <1>2, <3>1, <3>2, <4>1
    <3>3. CASE n # t
      BY <2>2, <3>1, <3>3, InvParts DEF SameNumber
    <3> QED BY <3>2, <3>3
  <2> QED BY <2>1, <2>2 DEF SameNumber
<1>10. Asked'
  <2>1. ASSUME NEW i \in DOMAIN toTalkd', toTalkd'[i].word = "CALL"
        PROVE  /\ ~Known(toTalkd'[i].tid) /\ ~OnWire(toUs', Tells, toTalkd'[i].tid)
               /\ \A j \in DOMAIN toTalkd' :
                    toTalkd'[j].word = "CALL" /\ toTalkd'[j].tid = toTalkd'[i].tid => i = j
               /\ \/ toTalkd'[i].tid \in Waiting'
                  \/ \E j \in DOMAIN toTalkd' :
                       i < j /\ toTalkd'[j].word = "HANGUP" /\ toTalkd'[j].tid = toTalkd'[i].tid
    <3>1. i \in DOMAIN toTalkd /\ toTalkd'[i] = toTalkd[i]
      BY <1>3, <2>1
    <3>2. /\ ~Known(toTalkd[i].tid) /\ ~OnWire(toUs, Tells, toTalkd[i].tid)
          /\ \A j \in DOMAIN toTalkd :
               toTalkd[j].word = "CALL" /\ toTalkd[j].tid = toTalkd[i].tid => i = j
          /\ \/ toTalkd[i].tid \in Waiting
             \/ \E j \in DOMAIN toTalkd :
                  i < j /\ toTalkd[j].word = "HANGUP" /\ toTalkd[j].tid = toTalkd[i].tid
      BY <2>1, <3>1, InvParts DEF Asked
    <3>3. \A j \in DOMAIN toTalkd' :
            toTalkd'[j].word = "CALL" /\ toTalkd'[j].tid = toTalkd'[i].tid => i = j
      <4> SUFFICES ASSUME NEW j \in DOMAIN toTalkd', toTalkd'[j].word = "CALL",
                          toTalkd'[j].tid = toTalkd'[i].tid
                   PROVE  i = j
        OBVIOUS
      <4>1. j \in DOMAIN toTalkd /\ toTalkd'[j] = toTalkd[j]
        BY <1>3
      <4> QED BY <3>1, <3>2, <4>1
    <3>4. ~Known(toTalkd'[i].tid) /\ ~OnWire(toUs', Tells, toTalkd'[i].tid)
      BY <1>1, <3>1, <3>2
    <3>5. CASE toTalkd[i].tid \in Waiting
      BY <3>1, <3>3, <3>4, <3>5
    <3>6. CASE \E j \in DOMAIN toTalkd :
                  i < j /\ toTalkd[j].word = "HANGUP" /\ toTalkd[j].tid = toTalkd[i].tid
      <4>1. PICK j \in DOMAIN toTalkd :
                  i < j /\ toTalkd[j].word = "HANGUP" /\ toTalkd[j].tid = toTalkd[i].tid
        BY <3>6
      <4>2. j \in DOMAIN toTalkd' /\ toTalkd'[j] = toTalkd[j]
        BY <1>3
      <4> QED BY <3>1, <3>3, <3>4, <4>1, <4>2
    <3> QED BY <3>2, <3>5, <3>6
  <2> QED BY <1>0, <2>1 DEF Asked, Known
<1>11. RingKnown' /\ SaidLast'
  BY <1>0, StillToRead
<1>12. Progress'
  <2> SUFFICES ASSUME NEW n \in Joined'
               PROVE  /\ \A ln \in lines : ln.tid = n => ln.st # "calling"
                      /\ ~OnWire(toUs', {"STATE"}, n)
    BY <1>0 DEF Progress
  <2>1. n \in Joined
    OBVIOUS
  <2> QED BY <1>1, <2>1, InvParts DEF Progress
<1>13. Real'
  <2> SUFFICES ASSUME NEW n \in Waiting', n \notin mixed
               PROVE  Known(n) \/ OnWire(toTalkd', {"CALL"}, n) \/ OnWire(toUs', Settles, n)
    BY <1>0 DEF Real, Known
  <2>1. CASE n = t
    <3>1. \/ Known(t)
          \/ \E j \in DOMAIN toUs : 1 < j /\ toUs[j].word \in Settles /\ toUs[j].tid = t
      BY <1>1, <1>2, <2>1, InvParts DEF RingKnown
    <3>2. (\E j \in DOMAIN toUs : 1 < j /\ toUs[j].word \in Settles /\ toUs[j].tid = t)
             => OnWire(toUs', Settles, t)
      <4> SUFFICES ASSUME NEW j \in DOMAIN toUs, 1 < j, toUs[j].word \in Settles, toUs[j].tid = t
                   PROVE  OnWire(toUs', Settles, t)
        OBVIOUS
      <4>1. j - 1 \in DOMAIN toUs' /\ toUs'[j - 1] = toUs[j]
        BY <1>1
      <4> QED BY <4>1 DEF OnWire
    <3> QED BY <2>1, <3>1, <3>2
  <2>2. CASE n # t
    <3>1. Known(n) \/ OnWire(toTalkd, {"CALL"}, n) \/ OnWire(toUs, Settles, n)
      BY <2>2, InvParts DEF Real
    <3> QED BY <1>1, <1>3, <2>2, <3>1
  <2> QED BY <2>1, <2>2
<1>14. Unseen'
  <2> SUFFICES ASSUME NEW ln \in lines, ln.st # "linked"
               PROVE  \/ ln.tid \in Waiting' \/ OnWire(toUs', {"RING"}, ln.tid)
                      \/ OnWire(toTalkd', Refuses, ln.tid) \/ ln.tid \in mixed
    BY <1>0 DEF Unseen
  <2>1. \/ ln.tid \in Waiting \/ OnWire(toUs, {"RING"}, ln.tid)
        \/ OnWire(toTalkd, Refuses, ln.tid) \/ ln.tid \in mixed
    BY InvParts DEF Unseen
  <2>2. OnWire(toUs, {"RING"}, ln.tid) => OnWire(toUs', {"RING"}, ln.tid) \/ ln.tid = t
    BY <1>1
  <2> QED BY <1>3, <2>1, <2>2
<1> QED BY <1>5, <1>6, <1>8, <1>9, <1>10, <1>11, <1>12, <1>13, <1>14 DEF WirePart

\* The part about calls stays: talkd is at work.
TalkdsTurn == /\ UNCHANGED <<auto_answer, phase, acct, Waiting, Joined, Held>>
              /\ Len(objs') = Len(objs) /\ Ours(Len(objs))' = Ours(Len(objs))

\* Somebody calls, with a number that this talkd has not given yet.
LEMMA WireRings ==
    ASSUME TalkInv, NEW p \in Peers, TalkdRings(p), TalkdsTurn
    PROVE  WirePart' /\ mixed \subseteq mixed' /\ mixed' \subseteq TalkdTids
<1>0. /\ UNCHANGED <<auto_answer, phase, acct, Waiting, Joined, Held, toTalkd>>
      /\ Len(objs') = Len(objs) /\ Ours(Len(objs))' = Ours(Len(objs))
  BY DEF TalkdsTurn, TalkdRings
<1>1. PICK n \in Nat : n = nextT /\ n >= 1 /\ n <= MaxCalls /\ nextT' = n + 1
  BY InvTypes DEF TalkdRings
<1>2. PICK t : t = <<"t", nextT>>
  OBVIOUS
<1>3. /\ phase = "up" /\ Len(objs) + Cardinality(Rings(toUs)) < MaxCalls
      /\ toUs' = Append(toUs, Say("RING", t, p)) /\ lines' = lines \cup {Line(t, p, "offered")}
      /\ mixed' = IF (\E c \in Live : objs[c].tid = t) \/ OnWire(toTalkd, {"HANGUP"}, t)
                  THEN mixed \cup {t} ELSE mixed
  BY <1>2 DEF TalkdRings, Room, TalkdSays
<1>4. /\ t \in TalkdTids /\ t \in Tids /\ t \notin Theirs(nextT) /\ t \in Theirs(nextT)'
      /\ Theirs(nextT) \subseteq Theirs(nextT)' /\ t \notin Ours(Len(objs))
  <2>1. t = <<"t", n>> /\ MaxCalls \in Nat
    BY <1>1, <1>2, InvTypes
  <2>2. t \in TalkdTids
    BY <1>1, <2>1 DEF TalkdTids
  <2>3. t \notin Theirs(n) /\ t \in Theirs(n + 1) /\ Theirs(n) \subseteq Theirs(n + 1)
    BY <1>1, <2>1 DEF Theirs
  <2> QED BY <1>1, <2>2, <2>3, TwoKinds
<1>5. t \notin Given /\ Given \subseteq Given' /\ t \in Given'
  BY <1>0, <1>4 DEF Given
<1>6. /\ mixed \subseteq mixed' /\ mixed' \subseteq mixed \cup {t} /\ mixed' \subseteq TalkdTids
      /\ t \in Held => t \in mixed'
  BY <1>3, <1>4, InvParts DEF CallPart, CallTypes, Held
<1>7. OnWire(toTalkd, Refuses, t) => t \in mixed'
  <2> SUFFICES ASSUME NEW i \in DOMAIN toTalkd, toTalkd[i].word \in Refuses, toTalkd[i].tid = t
               PROVE  t \in mixed'
    BY DEF OnWire
  <2>1. toTalkd[i].word # "DECLINE"
    BY <1>4, InvParts DEF GivenOut
  <2>2. OnWire(toTalkd, {"HANGUP"}, t)
    BY <2>1 DEF OnWire, Refuses
  <2> QED BY <1>3, <2>2
<1>8. PICK m \in Message : m = Say("RING", t, p) /\ m.word = "RING" /\ m.tid = t /\ m.peer = p
  BY <1>4, SaidOf DEF Words
<1>9. /\ toUs' \in Seq(Message)
      /\ \E k \in Nat :
           /\ DOMAIN toUs' = DOMAIN toUs \cup {k} /\ toUs'[k] = m
           /\ \A i \in DOMAIN toUs : i \in Nat /\ i < k /\ toUs'[i] = toUs[i]
      /\ \A ws, x : OnWire(toUs', ws, x) <=> OnWire(toUs, ws, x) \/ (m.word \in ws /\ m.tid = x)
      /\ Cardinality(Rings(toUs')) <= Cardinality(Rings(toUs)) + 1
      /\ Cardinality(Rings(toUs)) \in Nat /\ Cardinality(Rings(toUs')) \in Nat
  BY <1>3, <1>8, InvTypes, SaidUs
<1>10. PICK k \in Nat :
           /\ DOMAIN toUs' = DOMAIN toUs \cup {k} /\ toUs'[k] = m
           /\ \A i \in DOMAIN toUs : i \in Nat /\ i < k /\ toUs'[i] = toUs[i]
  BY <1>9
<1>11. /\ Line(t, p, "offered").tid = t /\ Line(t, p, "offered").st = "offered"
       /\ Line(t, p, "offered") \in [tid : Tids, peer : Peers,
                                     st : {"offered", "calling", "answered", "linked"}]
  BY <1>4 DEF Line
<1>12. PICK o : o = Line(t, p, "offered")
  OBVIOUS
<1>13. /\ lines' = lines \cup {o} /\ o.tid = t /\ o.st = "offered"
       /\ \A ln \in lines : ln.tid # t
       /\ \A i \in DOMAIN toUs : toUs[i].tid # t
  BY <1>3, <1>5, <1>11, <1>12, InvParts DEF GivenOut
<1>14. WireTypes'
  <2>1. nextT' \in 1 .. MaxCalls + 1
    BY <1>1, InvTypes
  <2>2. Len(objs') + Cardinality(Rings(toUs')) <= MaxCalls
    BY <1>0, <1>3, <1>9, InvTypes
  <2> QED BY <1>0, <1>3, <1>9, <1>11, <2>1, <2>2, InvTypes, InvParts DEF WireTypes
<1>15. GivenOut'
  <2>1. \A i \in DOMAIN toUs' :
         /\ toUs'[i].word \in Tells
         /\ toUs'[i].word = "RING" => toUs'[i].tid \in Theirs(nextT)' /\ toUs'[i].peer \in Peers
         /\ toUs'[i].word = "STATE" => toUs'[i].tid \in Ours(Len(objs))
         /\ toUs'[i].tid \in Given'
    <3> SUFFICES ASSUME NEW i \in DOMAIN toUs'
                 PROVE  /\ toUs'[i].word \in Tells
                        /\ toUs'[i].word = "RING" => toUs'[i].tid \in Theirs(nextT)' /\ toUs'[i].peer \in Peers
                        /\ toUs'[i].word = "STATE" => toUs'[i].tid \in Ours(Len(objs))
                        /\ toUs'[i].tid \in Given'
      OBVIOUS
    <3>1. CASE i = k
      BY <1>4, <1>5, <1>8, <1>10, <3>1 DEF Tells
    <3>2. CASE i \in DOMAIN toUs
      BY <1>4, <1>5, <1>10, <3>2, InvParts DEF GivenOut
    <3> QED BY <1>10, <3>1, <3>2
  <2>2. \A ln \in lines' : /\ ln.tid \in Given'
                           /\ ln.st = "calling" => ln.tid \in Ours(Len(objs))
    BY <1>5, <1>13, InvParts DEF GivenOut
  <2>3. /\ Waiting \subseteq Given'
        /\ \A i \in DOMAIN toTalkd :
             /\ toTalkd[i].word \in Asks
             /\ toTalkd[i].word = "CALL" => toTalkd[i].tid \in Ours(Len(objs)) /\ toTalkd[i].peer \in Peers
             /\ toTalkd[i].word = "DECLINE" => toTalkd[i].tid \in Theirs(nextT)'
             /\ toTalkd[i].tid \in Ours(Len(objs)) \cup TalkdTids
    BY <1>4, <1>5, InvParts DEF GivenOut
  <2> QED BY <1>0, <2>1, <2>2, <2>3 DEF GivenOut
<1>16. Offline' /\ OneLine'
  BY <1>0, <1>3, <1>13, InvParts DEF Offline, OneLine
<1>17. SameNumber'
  <2>1. ASSUME NEW i \in DOMAIN toUs', toUs'[i].word = "RING"
        PROVE  /\ toUs'[i].tid \in Held => toUs'[i].tid \in mixed'
               /\ OnWire(toTalkd, Refuses, toUs'[i].tid) => toUs'[i].tid \in mixed'
               /\ \A j \in DOMAIN toUs' : toUs'[j].word = "RING" /\ toUs'[j].tid = toUs'[i].tid => i = j
    <3>1. CASE i = k
      BY <1>6, <1>7, <1>8, <1>10, <1>13, <3>1
    <3>2. CASE i \in DOMAIN toUs
      <4>1. /\ toUs[i].tid \in Held => toUs[i].tid \in mixed
            /\ OnWire(toTalkd, Refuses, toUs[i].tid) => toUs[i].tid \in mixed
            /\ \A j \in DOMAIN toUs : toUs[j].word = "RING" /\ toUs[j].tid = toUs[i].tid => i = j
        BY <1>10, <2>1, <3>2, InvParts DEF SameNumber
      <4>2. toUs'[i] = toUs[i] /\ toUs[i].tid # t
        BY <1>10, <1>13, <3>2
      <4>3. ASSUME NEW j \in DOMAIN toUs', toUs'[j].word = "RING", toUs'[j].tid = toUs'[i].tid PROVE i = j
        <5>1. j # k
          BY <1>8, <1>10, <4>2, <4>3
        <5>2. j \in DOMAIN toUs /\ toUs'[j] = toUs[j]
          BY <1>10, <5>1
        <5> QED BY <4>1, <4>2, <4>3, <5>2
      <4> QED BY <1>6, <4>1, <4>2, <4>3
    <3> QED BY <1>10, <3>1, <3>2
  <2>2. ASSUME NEW x \in Waiting \cup Joined, OnWire(toTalkd, Refuses, x) PROVE x \in mixed'
    BY <1>6, <2>2, InvParts DEF SameNumber
  <2> QED BY <1>0, <2>1, <2>2 DEF SameNumber
<1>18. Asked'
  <2>1. ASSUME NEW i \in DOMAIN toTalkd, toTalkd[i].word = "CALL"
        PROVE  /\ \A ln \in lines' : ln.tid # toTalkd[i].tid
               /\ ~OnWire(toUs', Tells, toTalkd[i].tid)
               /\ \A j \in DOMAIN toTalkd :
                    toTalkd[j].word = "CALL" /\ toTalkd[j].tid = toTalkd[i].tid => i = j
               /\ \/ toTalkd[i].tid \in Waiting
                  \/ \E j \in DOMAIN toTalkd :
                       i < j /\ toTalkd[j].word = "HANGUP" /\ toTalkd[j].tid = toTalkd[i].tid
    <3>1. toTalkd[i].tid # t
      BY <1>4, <2>1, InvParts DEF GivenOut
    <3>2. /\ \A ln \in lines : ln.tid # toTalkd[i].tid
          /\ ~OnWire(toUs, Tells, toTalkd[i].tid)
          /\ \A j \in DOMAIN toTalkd :
               toTalkd[j].word = "CALL" /\ toTalkd[j].tid = toTalkd[i].tid => i = j
          /\ \/ toTalkd[i].tid \in Waiting
             \/ \E j \in DOMAIN toTalkd :
                  i < j /\ toTalkd[j].word = "HANGUP" /\ toTalkd[j].tid = toTalkd[i].tid
      BY <2>1, InvParts DEF Asked, Known
    <3> QED BY <1>8, <1>9, <1>13, <3>1, <3>2
  <2> QED BY <1>0, <2>1 DEF Asked, Known
<1>19. RingKnown'
  <2>1. ASSUME NEW i \in DOMAIN toUs', toUs'[i].word = "RING"
        PROVE  \/ toUs'[i].tid \in mixed' \/ \E ln \in lines' : ln.tid = toUs'[i].tid
               \/ \E j \in DOMAIN toUs' : i < j /\ toUs'[j].word \in Settles /\ toUs'[j].tid = toUs'[i].tid
    <3>1. CASE i = k
      BY <1>8, <1>10, <1>13, <3>1
    <3>2. CASE i \in DOMAIN toUs
      <4>1. \/ toUs[i].tid \in mixed \/ \E ln \in lines : ln.tid = toUs[i].tid
            \/ \E j \in DOMAIN toUs : i < j /\ toUs[j].word \in Settles /\ toUs[j].tid = toUs[i].tid
        BY <1>10, <2>1, <3>2, InvParts DEF RingKnown, Known
      <4>2. CASE \E j \in DOMAIN toUs : i < j /\ toUs[j].word \in Settles /\ toUs[j].tid = toUs[i].tid
        <5>1. PICK j \in DOMAIN toUs : i < j /\ toUs[j].word \in Settles /\ toUs[j].tid = toUs[i].tid
          BY <4>2
        <5> QED BY <1>10, <3>2, <5>1
      <4>3. CASE toUs[i].tid \in mixed
        BY <1>6, <1>10, <3>2, <4>3
      <4>4. CASE \E ln \in lines : ln.tid = toUs[i].tid
        BY <1>10, <1>13, <3>2, <4>4
      <4> QED BY <4>1, <4>2, <4>3, <4>4
    <3> QED BY <1>10, <3>1, <3>2
  <2> QED BY <2>1 DEF RingKnown, Known
<1>20. SaidLast'
  <2>1. ASSUME NEW j \in DOMAIN toUs', toUs'[j].word \in Settles
        PROVE  /\ \A ln \in lines' : ln.tid = toUs'[j].tid => ln.st = "linked"
               /\ \A i \in DOMAIN toUs' : toUs'[i].word = "STATE" /\ toUs'[i].tid = toUs'[j].tid => i < j
    <3>1. j # k
      BY <1>8, <1>10, <2>1 DEF Settles
    <3>2. j \in DOMAIN toUs /\ toUs'[j] = toUs[j] /\ toUs[j].tid # t
      BY <1>10, <1>13, <3>1
    <3>3. /\ \A ln \in lines : ln.tid = toUs[j].tid => ln.st = "linked"
          /\ \A i \in DOMAIN toUs : toUs[i].word = "STATE" /\ toUs[i].tid = toUs[j].tid => i < j
      BY <2>1, <3>2, InvParts DEF SaidLast
    <3>4. ASSUME NEW i \in DOMAIN toUs', toUs'[i].word = "STATE", toUs'[i].tid = toUs'[j].tid PROVE i < j
      <4>1. i \in DOMAIN toUs /\ toUs'[i] = toUs[i]
        BY <1>8, <1>10, <3>4
      <4> QED BY <3>2, <3>3, <3>4, <4>1
    <3>5. \A ln \in lines' : ln.tid = toUs'[j].tid => ln.st = "linked"
      BY <1>13, <3>2, <3>3
    <3> QED BY <3>4, <3>5
  <2> QED BY <2>1 DEF SaidLast
<1>21. Progress'
  <2>1. ASSUME NEW x \in Joined
        PROVE  /\ \A ln \in lines' : ln.tid = x => ln.st # "calling"
               /\ ~OnWire(toUs', {"STATE"}, x)
    BY <1>8, <1>9, <1>13, InvParts DEF Progress
  <2> QED BY <1>0, <2>1 DEF Progress
<1>22. Real'
  <2>1. ASSUME NEW x \in Waiting \ mixed'
        PROVE  \/ \E ln \in lines' : ln.tid = x
               \/ OnWire(toTalkd, {"CALL"}, x) \/ OnWire(toUs', Settles, x)
    <3>1. x \in Waiting \ mixed
      BY <1>6
    <3> QED BY <1>9, <1>13, <3>1, InvParts DEF Real, Known
  <2> QED BY <1>0, <2>1 DEF Real, Known
<1>23. Unseen'
  <2>1. ASSUME NEW ln \in lines', ln.st # "linked"
        PROVE  \/ ln.tid \in Waiting \/ OnWire(toUs', {"RING"}, ln.tid)
               \/ OnWire(toTalkd, Refuses, ln.tid) \/ ln.tid \in mixed'
    <3>1. CASE ln \in lines
      BY <1>6, <1>9, <2>1, <3>1, InvParts DEF Unseen
    <3>2. CASE ln = o
      BY <1>8, <1>9, <1>13, <3>2
    <3> QED BY <1>13, <3>1, <3>2
  <2> QED BY <1>0, <2>1 DEF Unseen
<1>24. WirePart'
  BY <1>14, <1>15, <1>16, <1>17, <1>18, <1>19, <1>20, <1>21, <1>22, <1>23 DEF WirePart
<1> QED BY <1>6, <1>24

\* talkd reads: what holds whatever it makes of the message, if it gets no
\* line of a call that we are still to ask for.
LEMMA WireReads ==
    ASSUME TalkInv, TalkdsTurn, nextT' = nextT, toUs' = toUs, mixed' = mixed,
           toTalkd # <<>>, toTalkd' = Tail(toTalkd),
           lines' \subseteq [tid : Tids, peer : Peers,
                             st : {"offered", "calling", "answered", "linked"}],
           \A ln \in lines' : /\ ln.tid \in Given
                              /\ ln.st = "calling" => ln.tid \in Ours(Len(objs)),
           \A i \in DOMAIN toTalkd : i # 1 /\ toTalkd[i].word = "CALL" =>
             \A ln \in lines' : ln.tid # toTalkd[i].tid
    PROVE  WireTypes' /\ GivenOut' /\ Offline' /\ SameNumber' /\ Asked'
<1>0. /\ UNCHANGED <<auto_answer, phase, acct, Waiting, Joined, Held, nextT, toUs, mixed>>
      /\ Len(objs') = Len(objs) /\ Ours(Len(objs))' = Ours(Len(objs))
  BY DEF TalkdsTurn
<1>1. /\ toTalkd' \in Seq(Message) /\ 1 \in DOMAIN toTalkd /\ Head(toTalkd) = toTalkd[1]
      /\ \A i \in DOMAIN toTalkd' :
           i \in Nat /\ i + 1 \in DOMAIN toTalkd /\ toTalkd'[i] = toTalkd[i + 1]
      /\ \A i \in DOMAIN toTalkd : i \in Nat /\ i > 0 /\
           (i # 1 => i - 1 \in DOMAIN toTalkd' /\ toTalkd'[i - 1] = toTalkd[i])
      /\ \A ws, t : OnWire(toTalkd', ws, t) => OnWire(toTalkd, ws, t)
  BY InvTypes, TalkdHeard
<1>2. phase = "up"
  BY InvParts DEF Offline
<1>3. WireTypes'
  BY <1>0, <1>1, InvTypes, InvParts DEF WireTypes
<1>4. GivenOut'
  <2>1. Given' = Given /\ Theirs(nextT)' = Theirs(nextT)
    BY <1>0 DEF Given
  <2>2. \A i \in DOMAIN toTalkd' :
         /\ toTalkd'[i].word \in Asks
         /\ toTalkd'[i].word = "CALL" => toTalkd'[i].tid \in Ours(Len(objs)) /\ toTalkd'[i].peer \in Peers
         /\ toTalkd'[i].word = "DECLINE" => toTalkd'[i].tid \in Theirs(nextT)
         /\ toTalkd'[i].tid \in Ours(Len(objs)) \cup TalkdTids
    BY <1>1, InvParts DEF GivenOut
  <2>3. /\ Waiting \subseteq Given
        /\ \A i \in DOMAIN toUs :
             /\ toUs[i].word \in Tells
             /\ toUs[i].word = "RING" => toUs[i].tid \in Theirs(nextT) /\ toUs[i].peer \in Peers
             /\ toUs[i].word = "STATE" => toUs[i].tid \in Ours(Len(objs))
             /\ toUs[i].tid \in Given
    BY InvParts DEF GivenOut
  <2> QED BY <1>0, <2>1, <2>2, <2>3 DEF GivenOut
<1>5. Offline'
  BY <1>0, <1>2 DEF Offline
<1>6. SameNumber'
  <2>1. ASSUME NEW i \in DOMAIN toUs, toUs[i].word = "RING"
        PROVE  /\ toUs[i].tid \in Held => toUs[i].tid \in mixed
               /\ OnWire(toTalkd', Refuses, toUs[i].tid) => toUs[i].tid \in mixed
               /\ \A j \in DOMAIN toUs : toUs[j].word = "RING" /\ toUs[j].tid = toUs[i].tid => i = j
    BY <1>1, <2>1, InvParts DEF SameNumber
  <2>2. ASSUME NEW x \in Waiting \cup Joined, OnWire(toTalkd', Refuses, x) PROVE x \in mixed
    BY <1>1, <2>2, InvParts DEF SameNumber
  <2> QED BY <1>0, <2>1, <2>2 DEF SameNumber
<1>7. Asked'
  <2>1. ASSUME NEW i \in DOMAIN toTalkd', toTalkd'[i].word = "CALL"
        PROVE  /\ \A ln \in lines' : ln.tid # toTalkd'[i].tid
               /\ ~OnWire(toUs, Tells, toTalkd'[i].tid)
               /\ \A j \in DOMAIN toTalkd' :
                    toTalkd'[j].word = "CALL" /\ toTalkd'[j].tid = toTalkd'[i].tid => i = j
               /\ \/ toTalkd'[i].tid \in Waiting
                  \/ \E j \in DOMAIN toTalkd' :
                       i < j /\ toTalkd'[j].word = "HANGUP" /\ toTalkd'[j].tid = toTalkd'[i].tid
    <3>1. i \in Nat /\ i + 1 \in DOMAIN toTalkd /\ toTalkd'[i] = toTalkd[i + 1] /\ i + 1 # 1
      <4>1. i \in Nat /\ i + 1 \in DOMAIN toTalkd /\ toTalkd'[i] = toTalkd[i + 1]
        BY <1>1
      <4>3. i # 0
        BY <1>1, InvTypes
      <4> QED BY <4>1, <4>3
    <3>2. /\ ~OnWire(toUs, Tells, toTalkd[i + 1].tid)
          /\ \A j \in DOMAIN toTalkd :
               toTalkd[j].word = "CALL" /\ toTalkd[j].tid = toTalkd[i + 1].tid => i + 1 = j
          /\ \/ toTalkd[i + 1].tid \in Waiting
             \/ \E j \in DOMAIN toTalkd :
                  i + 1 < j /\ toTalkd[j].word = "HANGUP" /\ toTalkd[j].tid = toTalkd[i + 1].tid
      BY <2>1, <3>1, InvParts DEF Asked
    <3>3. \A ln \in lines' : ln.tid # toTalkd'[i].tid
      BY <2>1, <3>1
    <3>4. ASSUME NEW j \in DOMAIN toTalkd', toTalkd'[j].word = "CALL", toTalkd'[j].tid = toTalkd'[i].tid
          PROVE  i = j
      <4>1. j \in Nat /\ j + 1 \in DOMAIN toTalkd /\ toTalkd'[j] = toTalkd[j + 1]
        BY <1>1
      <4>2. i + 1 = j + 1
        BY <3>1, <3>2, <3>4, <4>1
      <4> QED BY <3>1, <4>1, <4>2
    <3>5. CASE toTalkd[i + 1].tid \in Waiting
      BY <3>1, <3>2, <3>3, <3>4, <3>5
    <3>6. CASE \E j \in DOMAIN toTalkd :
                  i + 1 < j /\ toTalkd[j].word = "HANGUP" /\ toTalkd[j].tid = toTalkd[i + 1].tid
      <4>1. PICK j \in DOMAIN toTalkd :
                  i + 1 < j /\ toTalkd[j].word = "HANGUP" /\ toTalkd[j].tid = toTalkd[i + 1].tid
        BY <3>6
      <4>2. j \in Nat /\ j # 1 /\ i < j - 1
        BY <1>1, <3>1, <4>1
      <4>3. j - 1 \in DOMAIN toTalkd' /\ toTalkd'[j - 1] = toTalkd[j]
        BY <1>1, <4>2
      <4> QED BY <3>1, <3>2, <3>3, <3>4, <4>1, <4>2, <4>3
    <3> QED BY <3>2, <3>5, <3>6
  <2> QED BY <1>0, <2>1 DEF Asked, Known
<1> QED BY <1>3, <1>4, <1>5, <1>6, <1>7

\* CALL: talkd gets to know a call of ours, which waits or is hung up already.
LEMMA WireAsked ==
    ASSUME TalkInv, TalkdsTurn, TalkdReads, Head(toTalkd).word = "CALL", mixed' = mixed
    PROVE  WirePart'
<1>0. /\ UNCHANGED <<auto_answer, phase, acct, Waiting, Joined, Held, nextT, toUs, mixed>>
      /\ toTalkd # <<>> /\ toTalkd' = Tail(toTalkd)
  BY DEF TalkdsTurn, TalkdReads
<1>1. /\ 1 \in DOMAIN toTalkd /\ Head(toTalkd) = toTalkd[1]
      /\ \A i \in DOMAIN toTalkd : i \in Nat /\ i > 0 /\
           (i # 1 => i - 1 \in DOMAIN toTalkd' /\ toTalkd'[i - 1] = toTalkd[i])
      /\ \A ws, x : OnWire(toTalkd, ws, x) =>
           OnWire(toTalkd', ws, x) \/ (Head(toTalkd).word \in ws /\ Head(toTalkd).tid = x)
  BY <1>0, InvTypes, TalkdHeard
<1>2. PICK t, p : t = Head(toTalkd).tid /\ p = Head(toTalkd).peer
  OBVIOUS
<1>3. toTalkd[1].word = "CALL" /\ toTalkd[1].tid = t /\ toTalkd[1].peer = p
  BY <1>1, <1>2
<1>4. lines' = lines \cup {Line(t, p, "calling")}
  BY <1>2 DEF TalkdReads
<1>5. t \in Ours(Len(objs)) /\ p \in Peers /\ t \in Tids /\ t \in Given /\ t \notin mixed
  BY <1>1, <1>3, InvParts, TwoKinds DEF GivenOut, Given
<1>6. /\ \A ln \in lines : ln.tid # t
      /\ ~OnWire(toUs, Tells, t)
      /\ \A j \in DOMAIN toTalkd : toTalkd[j].word = "CALL" /\ toTalkd[j].tid = t => 1 = j
      /\ \/ t \in Waiting
         \/ \E j \in DOMAIN toTalkd : 1 < j /\ toTalkd[j].word = "HANGUP" /\ toTalkd[j].tid = t
  BY <1>1, <1>3, InvParts DEF Asked, Known
<1>7. /\ Line(t, p, "calling").tid = t /\ Line(t, p, "calling").st = "calling"
      /\ Line(t, p, "calling") \in [tid : Tids, peer : Peers,
                                     st : {"offered", "calling", "answered", "linked"}]
  BY <1>5 DEF Line
<1>8. PICK o : o = Line(t, p, "calling")
  OBVIOUS
<1>9. /\ lines' = lines \cup {o} /\ o.tid = t /\ o.st = "calling"
      /\ o \in [tid : Tids, peer : Peers, st : {"offered", "calling", "answered", "linked"}]
  BY <1>4, <1>7, <1>8
<1>10. t \in Waiting \/ OnWire(toTalkd', Refuses, t)
  <2> SUFFICES ASSUME NEW j \in DOMAIN toTalkd, 1 < j, toTalkd[j].word = "HANGUP", toTalkd[j].tid = t
               PROVE  OnWire(toTalkd', Refuses, t)
    BY <1>6
  <2>1. j - 1 \in DOMAIN toTalkd' /\ toTalkd'[j - 1] = toTalkd[j]
    BY <1>1
  <2> QED BY <2>1 DEF OnWire, Refuses
<1>11. t \notin Joined
  <2>1. CASE t \in Waiting
    BY <2>1, WaitOrJoin
  <2>2. CASE \E j \in DOMAIN toTalkd : 1 < j /\ toTalkd[j].word = "HANGUP" /\ toTalkd[j].tid = t
    <3>1. OnWire(toTalkd, Refuses, t)
      BY <2>2 DEF OnWire, Refuses
    <3> QED BY <1>5, <3>1, InvParts DEF SameNumber
  <2> QED BY <1>6, <2>1, <2>2
<1>12. WireTypes' /\ GivenOut' /\ Offline' /\ SameNumber' /\ Asked'
  <2>1. lines' \subseteq [tid : Tids, peer : Peers, st : {"offered", "calling", "answered", "linked"}]
    BY <1>9, InvParts DEF WireTypes
  <2>2. \A ln \in lines' : /\ ln.tid \in Given
                           /\ ln.st = "calling" => ln.tid \in Ours(Len(objs))
    BY <1>5, <1>9, InvParts DEF GivenOut
  <2>3. \A i \in DOMAIN toTalkd : i # 1 /\ toTalkd[i].word = "CALL" =>
          \A ln \in lines' : ln.tid # toTalkd[i].tid
    BY <1>6, <1>9, InvParts DEF Asked, Known
  <2> QED BY <1>0, <2>1, <2>2, <2>3, WireReads
<1>13. OneLine'
  BY <1>6, <1>9, InvParts DEF OneLine
<1>14. RingKnown'
  BY <1>0, <1>9, InvParts DEF RingKnown, Known
<1>15. SaidLast'
  <2>1. ASSUME NEW j \in DOMAIN toUs, toUs[j].word \in Settles
        PROVE  /\ \A ln \in lines' : ln.tid = toUs[j].tid => ln.st = "linked"
               /\ \A i \in DOMAIN toUs : toUs[i].word = "STATE" /\ toUs[i].tid = toUs[j].tid => i < j
    <3>1. toUs[j].tid # t
      BY <1>6, <2>1 DEF OnWire, Settles, Tells
    <3> QED BY <1>9, <2>1, <3>1, InvParts DEF SaidLast
  <2> QED BY <1>0, <2>1 DEF SaidLast
<1>16. Progress'
  <2>1. ASSUME NEW x \in Joined
        PROVE  /\ \A ln \in lines' : ln.tid = x => ln.st # "calling"
               /\ ~OnWire(toUs, {"STATE"}, x)
    BY <1>9, <1>11, InvParts DEF Progress
  <2> QED BY <1>0, <2>1 DEF Progress
<1>17. Real'
  <2>1. ASSUME NEW x \in Waiting \ mixed
        PROVE  \/ \E ln \in lines' : ln.tid = x
               \/ OnWire(toTalkd', {"CALL"}, x) \/ OnWire(toUs, Settles, x)
    <3>1. \/ \E ln \in lines : ln.tid = x
          \/ OnWire(toTalkd, {"CALL"}, x) \/ OnWire(toUs, Settles, x)
      BY InvParts DEF Real, Known
    <3> QED BY <1>1, <1>2, <1>9, <3>1
  <2> QED BY <1>0, <2>1 DEF Real, Known
<1>18. Unseen'
  <2>1. ASSUME NEW ln \in lines', ln.st # "linked"
        PROVE  \/ ln.tid \in Waiting \/ OnWire(toUs, {"RING"}, ln.tid)
               \/ OnWire(toTalkd', Refuses, ln.tid) \/ ln.tid \in mixed
    <3>1. CASE ln \in lines
      <4>1. \/ ln.tid \in Waiting \/ OnWire(toUs, {"RING"}, ln.tid)
            \/ OnWire(toTalkd, Refuses, ln.tid) \/ ln.tid \in mixed
        BY <2>1, <3>1, InvParts DEF Unseen
      <4>2. OnWire(toTalkd, Refuses, ln.tid) => OnWire(toTalkd', Refuses, ln.tid)
        BY <1>1 DEF Refuses
      <4> QED BY <4>1, <4>2
    <3>2. CASE ln = o
      BY <1>9, <1>10, <3>2
    <3> QED BY <1>9, <3>1, <3>2
  <2> QED BY <1>0, <2>1 DEF Unseen
<1> QED BY <1>12, <1>13, <1>14, <1>15, <1>16, <1>17, <1>18 DEF WirePart

\* DECLINE and HANGUP: talkd forgets the call, and so have we.
LEMMA WireRefused ==
    ASSUME TalkInv, TalkdsTurn, TalkdReads, Head(toTalkd).word \in Refuses, mixed' = mixed
    PROVE  WirePart'
<1>0. /\ UNCHANGED <<auto_answer, phase, acct, Waiting, Joined, Held, nextT, toUs, mixed>>
      /\ toTalkd # <<>> /\ toTalkd' = Tail(toTalkd)
  BY DEF TalkdsTurn, TalkdReads
<1>1. /\ 1 \in DOMAIN toTalkd /\ Head(toTalkd) = toTalkd[1]
      /\ \A ws, x : OnWire(toTalkd, ws, x) =>
           OnWire(toTalkd', ws, x) \/ (Head(toTalkd).word \in ws /\ Head(toTalkd).tid = x)
  BY <1>0, InvTypes, TalkdHeard
<1>2. PICK t : t = Head(toTalkd).tid
  OBVIOUS
<1>3. lines' = {ln \in lines : ln.tid # t}
  <2>1. Head(toTalkd).word # "CALL" /\ Head(toTalkd).word # "ACCEPT"
    BY DEF Refuses
  <2>2. lines' = lines \ {ln \in lines : ln.tid = t}
    BY <1>2, <2>1 DEF TalkdReads
  <2> QED BY <2>2
<1>4. OnWire(toTalkd, Refuses, t)
  BY <1>1, <1>2 DEF OnWire
<1>5. WireTypes' /\ GivenOut' /\ Offline' /\ SameNumber' /\ Asked'
  <2>1. lines' \subseteq [tid : Tids, peer : Peers, st : {"offered", "calling", "answered", "linked"}]
    BY <1>3, InvParts DEF WireTypes
  <2>2. \A ln \in lines' : /\ ln.tid \in Given
                           /\ ln.st = "calling" => ln.tid \in Ours(Len(objs))
    BY <1>3, InvParts DEF GivenOut
  <2>3. \A i \in DOMAIN toTalkd : i # 1 /\ toTalkd[i].word = "CALL" =>
          \A ln \in lines' : ln.tid # toTalkd[i].tid
    BY <1>3, InvParts DEF Asked, Known
  <2> QED BY <1>0, <2>1, <2>2, <2>3, WireReads
<1>6. OneLine' /\ SaidLast' /\ Progress'
  BY <1>0, <1>3, InvParts DEF OneLine, SaidLast, Progress
<1>7. RingKnown'
  <2>1. ASSUME NEW i \in DOMAIN toUs, toUs[i].word = "RING"
        PROVE  \/ toUs[i].tid \in mixed \/ \E ln \in lines' : ln.tid = toUs[i].tid
               \/ \E j \in DOMAIN toUs : i < j /\ toUs[j].word \in Settles /\ toUs[j].tid = toUs[i].tid
    <3>1. CASE toUs[i].tid = t
      BY <1>4, <2>1, <3>1, InvParts DEF SameNumber
    <3>2. CASE toUs[i].tid # t
      <4>1. \/ toUs[i].tid \in mixed \/ \E ln \in lines : ln.tid = toUs[i].tid
            \/ \E j \in DOMAIN toUs : i < j /\ toUs[j].word \in Settles /\ toUs[j].tid = toUs[i].tid
        BY <2>1, InvParts DEF RingKnown, Known
      <4> QED BY <1>3, <3>2, <4>1
    <3> QED BY <3>1, <3>2
  <2> QED BY <1>0, <2>1 DEF RingKnown, Known
<1>8. Real'
  <2>1. ASSUME NEW x \in Waiting \ mixed
        PROVE  \/ \E ln \in lines' : ln.tid = x
               \/ OnWire(toTalkd', {"CALL"}, x) \/ OnWire(toUs, Settles, x)
    <3>1. \/ \E ln \in lines : ln.tid = x
          \/ OnWire(toTalkd, {"CALL"}, x) \/ OnWire(toUs, Settles, x)
      BY InvParts DEF Real, Known
    <3>2. x # t
      BY <1>4, InvParts DEF SameNumber
    <3> QED BY <1>1, <1>2, <1>3, <3>1, <3>2
  <2> QED BY <1>0, <2>1 DEF Real, Known
<1>9. Unseen'
  <2>1. ASSUME NEW ln \in lines', ln.st # "linked"
        PROVE  \/ ln.tid \in Waiting \/ OnWire(toUs, {"RING"}, ln.tid)
               \/ OnWire(toTalkd', Refuses, ln.tid) \/ ln.tid \in mixed
    <3>1. ln \in lines /\ ln.tid # t
      BY <1>3
    <3> QED BY <1>1, <1>2, <2>1, <3>1, InvParts DEF Unseen
  <2> QED BY <1>0, <2>1 DEF Unseen
<1> QED BY <1>5, <1>6, <1>7, <1>8, <1>9 DEF WirePart

\* ACCEPT: the lines are the same, but that one is answered.
LEMMA WireAccepted ==
    ASSUME TalkInv, TalkdsTurn, TalkdReads, Head(toTalkd).word = "ACCEPT", mixed' = mixed
    PROVE  WirePart'
<1>0. /\ UNCHANGED <<auto_answer, phase, acct, Waiting, Joined, Held, nextT, toUs, mixed>>
      /\ toTalkd # <<>> /\ toTalkd' = Tail(toTalkd)
  BY DEF TalkdsTurn, TalkdReads
<1>1. \A ws, x : OnWire(toTalkd, ws, x) =>
        OnWire(toTalkd', ws, x) \/ (Head(toTalkd).word \in ws /\ Head(toTalkd).tid = x)
  BY <1>0, InvTypes, TalkdHeard
<1>2. PICK t : t = Head(toTalkd).tid
  OBVIOUS
<1>3. PICK its : its = {ln \in lines : ln.tid = t}
  OBVIOUS
<1>4. lines' = (lines \ its) \cup {Answered(ln) : ln \in its}
  BY <1>2, <1>3 DEF TalkdReads
<1>5. lines \subseteq [tid : Tids, peer : Peers, st : {"offered", "calling", "answered", "linked"}]
  BY InvParts DEF WireTypes
<1>6. ASSUME NEW ln \in lines
      PROVE  /\ Answered(ln) \in [tid : Tids, peer : Peers,
                                  st : {"offered", "calling", "answered", "linked"}]
             /\ Answered(ln).tid = ln.tid
             /\ Answered(ln).st = "calling" <=> ln.st = "calling"
             /\ Answered(ln).st = "linked" <=> ln.st = "linked"
  <2>1. ln \in [tid : Tids, peer : Peers, st : {"offered", "calling", "answered", "linked"}]
    BY <1>5
  <2> QED BY <2>1 DEF Answered
<1>7. \A l \in lines' : \E ln \in lines :
        /\ l = IF ln \in its THEN Answered(ln) ELSE ln
        /\ l.tid = ln.tid /\ (l.st = "calling" <=> ln.st = "calling")
        /\ (l.st = "linked" <=> ln.st = "linked")
        /\ l \in [tid : Tids, peer : Peers, st : {"offered", "calling", "answered", "linked"}]
  <2> SUFFICES ASSUME NEW l \in lines'
               PROVE  \E ln \in lines :
                        /\ l = IF ln \in its THEN Answered(ln) ELSE ln
                        /\ l.tid = ln.tid /\ (l.st = "calling" <=> ln.st = "calling")
                        /\ (l.st = "linked" <=> ln.st = "linked")
                        /\ l \in [tid : Tids, peer : Peers,
                                  st : {"offered", "calling", "answered", "linked"}]
    OBVIOUS
  <2>1. CASE l \in lines \ its
    BY <1>5, <2>1
  <2>2. CASE l \in {Answered(ln) : ln \in its}
    <3>1. PICK ln \in its : l = Answered(ln)
      BY <2>2
    <3>2. ln \in lines
      BY <1>3
    <3> QED BY <1>6, <3>1, <3>2
  <2> QED BY <1>4, <2>1, <2>2
<1>8. \A ln \in lines : \E l \in lines' : l.tid = ln.tid
  <2> SUFFICES ASSUME NEW ln \in lines PROVE \E l \in lines' : l.tid = ln.tid
    OBVIOUS
  <2>1. CASE ln \in its
    BY <1>4, <1>6, <2>1
  <2>2. CASE ln \notin its
    BY <1>4, <2>2
  <2> QED BY <2>1, <2>2
<1>9. WireTypes' /\ GivenOut' /\ Offline' /\ SameNumber' /\ Asked'
  <2>1. lines' \subseteq [tid : Tids, peer : Peers, st : {"offered", "calling", "answered", "linked"}]
    BY <1>7
  <2>2. \A ln \in lines' : /\ ln.tid \in Given
                           /\ ln.st = "calling" => ln.tid \in Ours(Len(objs))
    BY <1>7, InvParts DEF GivenOut
  <2>3. \A i \in DOMAIN toTalkd : i # 1 /\ toTalkd[i].word = "CALL" =>
          \A ln \in lines' : ln.tid # toTalkd[i].tid
    BY <1>7, InvParts DEF Asked, Known
  <2> QED BY <1>0, <2>1, <2>2, <2>3, WireReads
<1>10. OneLine'
  <2> SUFFICES ASSUME NEW k \in lines', NEW l \in lines', k.tid = l.tid PROVE k = l
    BY DEF OneLine
  <2>1. PICK a \in lines : k = (IF a \in its THEN Answered(a) ELSE a) /\ k.tid = a.tid
    BY <1>7
  <2>2. PICK b \in lines : l = (IF b \in its THEN Answered(b) ELSE b) /\ l.tid = b.tid
    BY <1>7
  <2>3. a = b
    BY <2>1, <2>2, InvParts DEF OneLine
  <2> QED BY <2>1, <2>2, <2>3
<1>11. SaidLast'
  <2>1. ASSUME NEW j \in DOMAIN toUs, toUs[j].word \in Settles
        PROVE  /\ \A ln \in lines' : ln.tid = toUs[j].tid => ln.st = "linked"
               /\ \A i \in DOMAIN toUs : toUs[i].word = "STATE" /\ toUs[i].tid = toUs[j].tid => i < j
    BY <1>7, <2>1, InvParts DEF SaidLast
  <2> QED BY <1>0, <2>1 DEF SaidLast
<1>12. Progress'
  <2>1. ASSUME NEW x \in Joined
        PROVE  /\ \A ln \in lines' : ln.tid = x => ln.st # "calling"
               /\ ~OnWire(toUs, {"STATE"}, x)
    BY <1>7, InvParts DEF Progress
  <2> QED BY <1>0, <2>1 DEF Progress
<1>13. RingKnown'
  <2>1. ASSUME NEW i \in DOMAIN toUs, toUs[i].word = "RING"
        PROVE  \/ toUs[i].tid \in mixed \/ \E ln \in lines' : ln.tid = toUs[i].tid
               \/ \E j \in DOMAIN toUs : i < j /\ toUs[j].word \in Settles /\ toUs[j].tid = toUs[i].tid
    <3>1. \/ toUs[i].tid \in mixed \/ \E ln \in lines : ln.tid = toUs[i].tid
          \/ \E j \in DOMAIN toUs : i < j /\ toUs[j].word \in Settles /\ toUs[j].tid = toUs[i].tid
      BY <2>1, InvParts DEF RingKnown, Known
    <3>2. (\E ln \in lines : ln.tid = toUs[i].tid) => \E ln \in lines' : ln.tid = toUs[i].tid
      BY <1>8
    <3> QED BY <3>1, <3>2
  <2> QED BY <1>0, <2>1 DEF RingKnown, Known
<1>14. Real'
  <2>1. ASSUME NEW x \in Waiting \ mixed
        PROVE  \/ \E ln \in lines' : ln.tid = x
               \/ OnWire(toTalkd', {"CALL"}, x) \/ OnWire(toUs, Settles, x)
    <3>1. \/ \E ln \in lines : ln.tid = x
          \/ OnWire(toTalkd, {"CALL"}, x) \/ OnWire(toUs, Settles, x)
      BY InvParts DEF Real, Known
    <3>2. (\E ln \in lines : ln.tid = x) => \E ln \in lines' : ln.tid = x
      BY <1>8
    <3> QED BY <1>1, <3>1, <3>2
  <2> QED BY <1>0, <2>1 DEF Real, Known
<1>15. Unseen'
  <2>1. ASSUME NEW l \in lines', l.st # "linked"
        PROVE  \/ l.tid \in Waiting \/ OnWire(toUs, {"RING"}, l.tid)
               \/ OnWire(toTalkd', Refuses, l.tid) \/ l.tid \in mixed
    <3>1. PICK ln \in lines : l.tid = ln.tid /\ ln.st # "linked"
      BY <1>7, <2>1
    <3>2. \/ ln.tid \in Waiting \/ OnWire(toUs, {"RING"}, ln.tid)
          \/ OnWire(toTalkd, Refuses, ln.tid) \/ ln.tid \in mixed
      BY <3>1, InvParts DEF Unseen
    <3>3. OnWire(toTalkd, Refuses, ln.tid) => OnWire(toTalkd', Refuses, ln.tid)
      BY <1>1 DEF Refuses
    <3> QED BY <3>1, <3>2, <3>3
  <2> QED BY <1>0, <2>1 DEF Unseen
<1> QED BY <1>9, <1>10, <1>11, <1>12, <1>13, <1>14, <1>15 DEF WirePart

\* STATE, CONNECT and GONE, said of a line that talkd has.
LEMMA WireTold ==
    ASSUME TalkInv, TalkdsTurn, UNCHANGED <<nextT, mixed, toTalkd>>, NEW ln \in lines,
           NEW w \in {"STATE", "CONNECT", "GONE"}, TalkdSays(Speak(w, ln.tid)),
           w = "STATE" => ln.st = "calling" /\ lines' = lines,
           \A l \in lines' : l \in lines \/ (l.tid = ln.tid /\ l.peer = ln.peer /\ l.st = "linked"),
           \A l \in lines : l.tid # ln.tid => l \in lines',
           \A k, l \in lines' : k.tid = l.tid => k = l,
           lines' \subseteq [tid : Tids, peer : Peers,
                             st : {"offered", "calling", "answered", "linked"}],
           w # "STATE" => \A l \in lines' : l.tid = ln.tid => l.st = "linked"
    PROVE  WirePart'
<1>0. /\ UNCHANGED <<auto_answer, phase, acct, Waiting, Joined, Held, nextT, mixed, toTalkd>>
      /\ Len(objs') = Len(objs) /\ Ours(Len(objs))' = Ours(Len(objs))
  BY DEF TalkdsTurn
<1>1. PICK t : t = ln.tid
  OBVIOUS
<1>2. t \in Given /\ t \in Tids /\ (w = "STATE" => t \in Ours(Len(objs)))
  BY <1>1, InvParts, TwoKinds DEF GivenOut, Given
<1>3. PICK m \in Message : m = Speak(w, t) /\ m.word = w /\ m.tid = t
  <2>1. w \in Words
    BY DEF Words
  <2> QED BY <1>2, <2>1, Spoken
<1>4. toUs' = Append(toUs, m)
  BY <1>1, <1>3 DEF TalkdSays
<1>5. /\ toUs' \in Seq(Message)
      /\ \E k \in Nat :
           /\ DOMAIN toUs' = DOMAIN toUs \cup {k} /\ toUs'[k] = m
           /\ \A i \in DOMAIN toUs : i \in Nat /\ i < k /\ toUs'[i] = toUs[i]
      /\ \A ws, x : OnWire(toUs', ws, x) <=> OnWire(toUs, ws, x) \/ (m.word \in ws /\ m.tid = x)
      /\ m.word # "RING" => Cardinality(Rings(toUs')) = Cardinality(Rings(toUs))
  BY <1>4, InvTypes, SaidUs
<1>6. PICK k \in Nat :
           /\ DOMAIN toUs' = DOMAIN toUs \cup {k} /\ toUs'[k] = m
           /\ \A i \in DOMAIN toUs : i \in Nat /\ i < k /\ toUs'[i] = toUs[i]
  BY <1>5
<1>7. \A l \in lines' : \E o \in lines : o.tid = l.tid /\ (l.st # "linked" => o = l)
  BY <1>1
<1>8. m.word # "RING" /\ phase = "up"
  BY <1>3, InvParts DEF Offline
<1>9. WireTypes'
  BY <1>0, <1>5, <1>8, InvTypes, InvParts DEF WireTypes
<1>10. GivenOut'
  <2>1. Given' = Given /\ Theirs(nextT)' = Theirs(nextT)
    BY <1>0 DEF Given
  <2>2. \A i \in DOMAIN toUs' :
         /\ toUs'[i].word \in Tells
         /\ toUs'[i].word = "RING" => toUs'[i].tid \in Theirs(nextT) /\ toUs'[i].peer \in Peers
         /\ toUs'[i].word = "STATE" => toUs'[i].tid \in Ours(Len(objs))
         /\ toUs'[i].tid \in Given
    <3> SUFFICES ASSUME NEW i \in DOMAIN toUs'
                 PROVE  /\ toUs'[i].word \in Tells
                        /\ toUs'[i].word = "RING" => toUs'[i].tid \in Theirs(nextT) /\ toUs'[i].peer \in Peers
                        /\ toUs'[i].word = "STATE" => toUs'[i].tid \in Ours(Len(objs))
                        /\ toUs'[i].tid \in Given
      OBVIOUS
    <3>1. CASE i = k
      BY <1>2, <1>3, <1>6, <1>8, <3>1 DEF Tells
    <3>2. CASE i \in DOMAIN toUs
      BY <1>6, <3>2, InvParts DEF GivenOut
    <3> QED BY <1>6, <3>1, <3>2
  <2>3. \A l \in lines' : /\ l.tid \in Given
                          /\ l.st = "calling" => l.tid \in Ours(Len(objs))
    BY <1>7, InvParts DEF GivenOut
  <2>4. /\ Waiting \subseteq Given
        /\ \A i \in DOMAIN toTalkd :
             /\ toTalkd[i].word \in Asks
             /\ toTalkd[i].word = "CALL" => toTalkd[i].tid \in Ours(Len(objs)) /\ toTalkd[i].peer \in Peers
             /\ toTalkd[i].word = "DECLINE" => toTalkd[i].tid \in Theirs(nextT)
             /\ toTalkd[i].tid \in Ours(Len(objs)) \cup TalkdTids
    BY InvParts DEF GivenOut
  <2> QED BY <1>0, <2>1, <2>2, <2>3, <2>4 DEF GivenOut
<1>11. Offline' /\ OneLine'
  BY <1>0, <1>8 DEF Offline, OneLine
<1>12. SameNumber'
  <2>1. ASSUME NEW i \in DOMAIN toUs', toUs'[i].word = "RING"
        PROVE  /\ toUs'[i].tid \in Held => toUs'[i].tid \in mixed
               /\ OnWire(toTalkd, Refuses, toUs'[i].tid) => toUs'[i].tid \in mixed
               /\ \A j \in DOMAIN toUs' : toUs'[j].word = "RING" /\ toUs'[j].tid = toUs'[i].tid => i = j
    <3>1. i \in DOMAIN toUs /\ toUs'[i] = toUs[i]
      BY <1>6, <1>8, <2>1
    <3>2. /\ toUs[i].tid \in Held => toUs[i].tid \in mixed
          /\ OnWire(toTalkd, Refuses, toUs[i].tid) => toUs[i].tid \in mixed
          /\ \A j \in DOMAIN toUs : toUs[j].word = "RING" /\ toUs[j].tid = toUs[i].tid => i = j
      BY <2>1, <3>1, InvParts DEF SameNumber
    <3>3. ASSUME NEW j \in DOMAIN toUs', toUs'[j].word = "RING", toUs'[j].tid = toUs'[i].tid PROVE i = j
      <4>1. j \in DOMAIN toUs /\ toUs'[j] = toUs[j]
        BY <1>6, <1>8, <3>3
      <4> QED BY <3>1, <3>2, <3>3, <4>1
    <3> QED BY <3>1, <3>2, <3>3
  <2>2. ASSUME NEW x \in Waiting \cup Joined, OnWire(toTalkd, Refuses, x) PROVE x \in mixed
    BY <2>2, InvParts DEF SameNumber
  <2> QED BY <1>0, <2>1, <2>2 DEF SameNumber
<1>13. Asked'
  <2>1. ASSUME NEW i \in DOMAIN toTalkd, toTalkd[i].word = "CALL"
        PROVE  /\ \A l \in lines' : l.tid # toTalkd[i].tid
               /\ ~OnWire(toUs', Tells, toTalkd[i].tid)
               /\ \A j \in DOMAIN toTalkd :
                    toTalkd[j].word = "CALL" /\ toTalkd[j].tid = toTalkd[i].tid => i = j
               /\ \/ toTalkd[i].tid \in Waiting
                  \/ \E j \in DOMAIN toTalkd :
                       i < j /\ toTalkd[j].word = "HANGUP" /\ toTalkd[j].tid = toTalkd[i].tid
    <3>1. /\ \A l \in lines : l.tid # toTalkd[i].tid
          /\ ~OnWire(toUs, Tells, toTalkd[i].tid)
          /\ \A j \in DOMAIN toTalkd :
               toTalkd[j].word = "CALL" /\ toTalkd[j].tid = toTalkd[i].tid => i = j
          /\ \/ toTalkd[i].tid \in Waiting
             \/ \E j \in DOMAIN toTalkd :
                  i < j /\ toTalkd[j].word = "HANGUP" /\ toTalkd[j].tid = toTalkd[i].tid
      BY <2>1, InvParts DEF Asked, Known
    <3>2. toTalkd[i].tid # t
      BY <1>1, <3>1
    <3> QED BY <1>3, <1>5, <1>7, <3>1, <3>2
  <2> QED BY <1>0, <2>1 DEF Asked, Known
<1>14. RingKnown'
  <2>1. ASSUME NEW i \in DOMAIN toUs', toUs'[i].word = "RING"
        PROVE  \/ toUs'[i].tid \in mixed \/ \E l \in lines' : l.tid = toUs'[i].tid
               \/ \E j \in DOMAIN toUs' : i < j /\ toUs'[j].word \in Settles /\ toUs'[j].tid = toUs'[i].tid
    <3>1. i \in DOMAIN toUs /\ toUs'[i] = toUs[i] /\ i < k
      BY <1>6, <1>8, <2>1
    <3>2. \/ toUs[i].tid \in mixed \/ \E l \in lines : l.tid = toUs[i].tid
          \/ \E j \in DOMAIN toUs : i < j /\ toUs[j].word \in Settles /\ toUs[j].tid = toUs[i].tid
      BY <2>1, <3>1, InvParts DEF RingKnown, Known
    <3>3. CASE toUs[i].tid \in mixed
      BY <3>1, <3>3
    <3>4. CASE \E j \in DOMAIN toUs : i < j /\ toUs[j].word \in Settles /\ toUs[j].tid = toUs[i].tid
      <4>1. PICK j \in DOMAIN toUs : i < j /\ toUs[j].word \in Settles /\ toUs[j].tid = toUs[i].tid
        BY <3>4
      <4>2. j \in DOMAIN toUs' /\ toUs'[j] = toUs[j]
        BY <1>6
      <4> QED BY <3>1, <4>1, <4>2
    <3>5. CASE \E l \in lines : l.tid = toUs[i].tid
      <4>1. PICK l \in lines : l.tid = toUs[i].tid
        BY <3>5
      <4>2. CASE l.tid # t \/ w = "STATE"
        BY <1>1, <3>1, <4>1, <4>2
      <4>3. CASE l.tid = t /\ w # "STATE"
        BY <1>3, <1>6, <3>1, <4>1, <4>3 DEF Settles
      <4> QED BY <4>2, <4>3
    <3> QED BY <3>2, <3>3, <3>4, <3>5
  <2> QED BY <1>0, <2>1 DEF RingKnown, Known
<1>15. SaidLast'
  <2>1. ASSUME NEW j \in DOMAIN toUs', toUs'[j].word \in Settles
        PROVE  /\ \A l \in lines' : l.tid = toUs'[j].tid => l.st = "linked"
               /\ \A i \in DOMAIN toUs' : toUs'[i].word = "STATE" /\ toUs'[i].tid = toUs'[j].tid => i < j
    <3>1. CASE j \in DOMAIN toUs
      <4>0. toUs'[j] = toUs[j]
        BY <1>6, <3>1
      <4>1. /\ \A l \in lines : l.tid = toUs[j].tid => l.st = "linked"
            /\ \A i \in DOMAIN toUs : toUs[i].word = "STATE" /\ toUs[i].tid = toUs[j].tid => i < j
        BY <2>1, <3>1, <4>0, InvParts DEF SaidLast
      <4>2. \A l \in lines' : l.tid = toUs'[j].tid => l.st = "linked"
        BY <4>0, <4>1
      <4>3. ASSUME NEW i \in DOMAIN toUs', toUs'[i].word = "STATE", toUs'[i].tid = toUs'[j].tid PROVE i < j
        <5>1. i # k
          BY <1>1, <1>3, <1>6, <4>0, <4>1, <4>3
        <5>2. i \in DOMAIN toUs /\ toUs'[i] = toUs[i]
          BY <1>6, <5>1
        <5> QED BY <4>0, <4>1, <4>3, <5>2
      <4> QED BY <4>2, <4>3
    <3>2. CASE j = k
      <4>1. w # "STATE" /\ toUs'[j].tid = t
        BY <1>3, <1>6, <2>1, <3>2 DEF Settles
      <4>2. \A l \in lines' : l.tid = toUs'[j].tid => l.st = "linked"
        BY <1>1, <4>1
      <4>3. ASSUME NEW i \in DOMAIN toUs', toUs'[i].word = "STATE" PROVE i < j
        <5>1. i # k
          BY <1>3, <1>6, <4>1, <4>3
        <5> QED BY <1>6, <3>2, <5>1
      <4> QED BY <4>2, <4>3
    <3> QED BY <1>6, <3>1, <3>2
  <2> QED BY <2>1 DEF SaidLast
<1>16. Progress'
  <2>1. ASSUME NEW x \in Joined
        PROVE  /\ \A l \in lines' : l.tid = x => l.st # "calling"
               /\ ~OnWire(toUs', {"STATE"}, x)
    <3>1. /\ \A l \in lines : l.tid = x => l.st # "calling"
          /\ ~OnWire(toUs, {"STATE"}, x)
      BY InvParts DEF Progress
    <3>2. w = "STATE" => x # t
      BY <1>1, <3>1
    <3> QED BY <1>3, <1>5, <3>1, <3>2
  <2> QED BY <1>0, <2>1 DEF Progress
<1>17. Real'
  <2>1. ASSUME NEW x \in Waiting \ mixed
        PROVE  \/ \E l \in lines' : l.tid = x
               \/ OnWire(toTalkd, {"CALL"}, x) \/ OnWire(toUs', Settles, x)
    <3>1. \/ \E l \in lines : l.tid = x
          \/ OnWire(toTalkd, {"CALL"}, x) \/ OnWire(toUs, Settles, x)
      BY InvParts DEF Real, Known
    <3>2. CASE x = t /\ w # "STATE"
      BY <1>3, <1>5, <3>2 DEF Settles
    <3>3. CASE x # t \/ w = "STATE"
      BY <1>1, <1>5, <3>1, <3>3
    <3> QED BY <3>2, <3>3
  <2> QED BY <1>0, <2>1 DEF Real, Known
<1>18. Unseen'
  <2>1. ASSUME NEW l \in lines', l.st # "linked"
        PROVE  \/ l.tid \in Waiting \/ OnWire(toUs', {"RING"}, l.tid)
               \/ OnWire(toTalkd, Refuses, l.tid) \/ l.tid \in mixed
    <3>1. l \in lines
      BY <2>1
    <3>2. \/ l.tid \in Waiting \/ OnWire(toUs, {"RING"}, l.tid)
          \/ OnWire(toTalkd, Refuses, l.tid) \/ l.tid \in mixed
      BY <2>1, <3>1, InvParts DEF Unseen
    <3> QED BY <1>5, <3>2
  <2> QED BY <1>0, <2>1 DEF Unseen
<1> QED BY <1>9, <1>10, <1>11, <1>12, <1>13, <1>14, <1>15, <1>16, <1>17, <1>18 DEF WirePart

-----------------------------------------------------------------------------
(* Every step keeps the invariant                                          *)

\* The adapter starts with no call and no connection
LEMMA TalkInitInv == TalkInit => TalkInv
<1> SUFFICES ASSUME TalkInit PROVE TalkInv
  OBVIOUS
<1>1. /\ objs = <<>> /\ calls = <<>> /\ state = [p \in Peers |-> ""] /\ open = {}
      /\ crossed = {} /\ mixed = {} /\ lines = {} /\ toTalkd = <<>> /\ toUs = <<>> /\ nextT = 1
      /\ phase = "down" /\ acct = "disconnected" /\ auto_answer \in BOOLEAN
  BY DEF TalkInit
<1>2. objs \in Seq(Object) /\ calls \in Seq(Live) /\ DOMAIN objs = {} /\ DOMAIN calls = {} /\ Len(objs) = 0
  <2>1. \A S : <<>> \in Seq(S)
    OBVIOUS
  <2>2. Len(<<>>) = 0
    OBVIOUS
  <2>3. DOMAIN <<>> = {}
    OBVIOUS
  <2> QED BY <1>1, <2>1, <2>2, <2>3
<1>3. Live = {} /\ Calls = {}
  BY <1>2 DEF Live, Calls, Range
<1>4. state \in [Peers -> Shown]
  BY <1>1 DEF Shown
<1>5. CallTypes
  BY <1>1, <1>2, <1>4 DEF CallTypes
<1>6. NumberedOnce /\ CallsAreListed
  BY <1>2, <1>3 DEF NumberedOnce, CallsAreListed
<1>7. Shows
  BY <1>1, <1>3 DEF Shows, LiveWith
<1>8. Waiting = {} /\ Joined = {} /\ Held = {}
  BY <1>3 DEF Waiting, Joined, Held
<1>9. /\ toUs \in Seq(Message) /\ toTalkd \in Seq(Message) /\ Cardinality(Rings(toUs)) = 0
      /\ DOMAIN toUs = {} /\ DOMAIN toTalkd = {}
  <2>1. DOMAIN toUs = {} /\ DOMAIN toTalkd = {}
    BY <1>1, <1>2
  <2> QED BY <1>1, <2>1, EmptyWire
<1>10. WireTypes
  <2>1. MaxCalls \in Nat
    BY TalkAssumption
  <2>2. nextT \in 1 .. MaxCalls + 1
    <3>1. nextT = 1
      BY <1>1
    <3> QED BY <2>1, <3>1
  <2>3. Len(objs) + Cardinality(Rings(toUs)) = 0
    <3>1. PICK l, k : l = Len(objs) /\ k = Cardinality(Rings(toUs))
      OBVIOUS
    <3>2. l = 0 /\ k = 0
      BY <1>2, <1>9, <3>1
    <3> QED BY <3>1, <3>2
  <2>4. Len(objs) + Cardinality(Rings(toUs)) <= MaxCalls
    BY <2>1, <2>3
  <2> QED BY <1>1, <1>9, <2>2, <2>4 DEF WireTypes
<1>11. GivenOut /\ Offline /\ OneLine /\ SameNumber
  BY <1>1, <1>8, <1>9 DEF GivenOut, Offline, OneLine, SameNumber
<1>12. Asked /\ RingKnown /\ SaidLast /\ Progress /\ Real /\ Unseen
  BY <1>1, <1>8, <1>9 DEF Asked, RingKnown, SaidLast, Progress, Real, Unseen
<1> QED BY <1>5, <1>6, <1>7, <1>10, <1>11, <1>12 DEF TalkInv, CallPart, WirePart

\* Where no call is touched: talkd's turn, and the control connection's.
LEMMA NoCallTouched ==
    ASSUME TalkInv, UNCHANGED <<objs, calls, state, open, crossed>>,
           mixed \subseteq mixed', mixed' \subseteq TalkdTids
    PROVE  /\ CallPart' /\ Waiting' = Waiting /\ Joined' = Joined /\ Held' = Held
           /\ Len(objs') = Len(objs) /\ Ours(Len(objs))' = Ours(Len(objs))
<1>1. open' \subseteq Peers
  BY InvParts DEF CallPart, CallTypes
<1> QED BY <1>1, InvParts, CallsStay

\* connect(), the connection made, and talkd's greeting
LEMMA ConnectSteps ==
    ASSUME TalkInv, connect \/ _connected \/ Greeted
    PROVE  TalkInv'
<1>1. /\ UNCHANGED <<talkd, toTalkd, toUs, auto_answer>> /\ UNCHANGED callVars
      /\ phase # "up" /\ phase' \in {"connecting", "hello", "up"}
      /\ acct' \in {acct, "connecting", "connected"}
  BY DEF connect, _connected, Greeted
<1>2. UNCHANGED <<objs, calls, state, open, crossed, mixed>>
  BY <1>1 DEF callVars
<1>3. mixed \subseteq TalkdTids /\ acct \in {"disconnected", "connecting", "connected", "error"}
  BY InvParts DEF CallPart, CallTypes, WireTypes
<1>4. /\ CallPart' /\ Waiting' = Waiting /\ Joined' = Joined /\ Held' = Held
      /\ Len(objs') = Len(objs)
  BY <1>2, <1>3, NoCallTouched
<1>5. WirePart'
  BY <1>1, <1>2, <1>3, <1>4, WireStays
<1> QED BY <1>4, <1>5 DEF TalkInv

\* _close() clears the wire.
LEMMA CloseCleans ==
    ASSUME TalkInv, _close, acct' \in {"disconnected", "connecting", "connected", "error"},
           Len(objs') = Len(objs), Waiting' = {}
    PROVE  WirePart'
<1>1. /\ lines' = {} /\ toTalkd' = <<>> /\ toUs' = <<>> /\ nextT' \in {nextT, 1}
      /\ auto_answer' = auto_answer /\ phase' = "down"
  BY DEF _close
<1> QED BY <1>1, WireCleared

\* _fail(): no connection came about
LEMMA FailStep ==
    ASSUME TalkInv, _fail
    PROVE  TalkInv'
<1>1. UNCHANGED <<objs, calls, state, open, crossed, mixed>>
  BY DEF _fail, callVars
<1>2. mixed \subseteq TalkdTids
  BY InvParts DEF CallPart, CallTypes
<1>3. CallPart' /\ Waiting' = Waiting /\ Len(objs') = Len(objs)
  BY <1>1, <1>2, NoCallTouched
<1>4. Waiting = {}
  BY InvParts DEF Offline, _fail
<1>5. WirePart'
  BY <1>3, <1>4, CloseCleans DEF _fail
<1> QED BY <1>3, <1>5 DEF TalkInv

\* _lost(): calls that waited end, those in progress go on without it
LEMMA LostStep ==
    ASSUME TalkInv, _lost
    PROVE  TalkInv'
<1>1. PICK es : es = {c \in Calls : ~objs[c].data}
  OBVIOUS
<1>2. _ended(es) /\ _close /\ acct' = "disconnected" /\ open' = open
  BY <1>1 DEF _lost
<1>3. es \subseteq Live /\ open' \subseteq Peers
  BY <1>1, <1>2, InvParts, CallFacts DEF CallPart, CallTypes
<1>4. CallPart' /\ EndedNumbers(es) /\ Len(objs') = Len(objs)
  BY <1>2, <1>3, InvParts, EndedCalls
<1>5. Waiting' = {}
  <2>1. Waiting' = {t \in Waiting : \A e \in es : t # objs[e].tid}
    BY <1>4 DEF EndedNumbers
  <2>2. \A t \in Waiting : \E e \in es : t = objs[e].tid
    BY <1>1 DEF Waiting
  <2> QED BY <2>1, <2>2
<1>6. WirePart'
  BY <1>2, <1>4, <1>5, CloseCleans
<1> QED BY <1>4, <1>6 DEF TalkInv

\* disconnect() ends every call and drops the connection
LEMMA DisconnectStep ==
    ASSUME TalkInv, disconnect
    PROVE  TalkInv'
<1>1. PICK es : es = Calls
  OBVIOUS
<1>2. _ended(es) /\ _close /\ acct' \in {acct, "disconnected"} /\ open' = open
  BY <1>1 DEF disconnect
<1>3. es \subseteq Live /\ open' \subseteq Peers
  BY <1>1, <1>2, InvParts, CallFacts DEF CallPart, CallTypes
<1>4. CallPart' /\ EndedNumbers(es) /\ Len(objs') = Len(objs)
  BY <1>2, <1>3, InvParts, EndedCalls
<1>5. Waiting' = {}
  <2>1. Waiting' = {t \in Waiting : \A e \in es : t # objs[e].tid}
    BY <1>4 DEF EndedNumbers
  <2>2. \A t \in Waiting : \E e \in es : t = objs[e].tid
    BY <1>1 DEF Waiting
  <2> QED BY <2>1, <2>2
<1>6. acct' \in {"disconnected", "connecting", "connected", "error"}
  BY <1>2, InvParts DEF WireTypes
<1>7. WirePart'
  BY <1>2, <1>4, <1>5, <1>6, CloseCleans
<1> QED BY <1>4, <1>7 DEF TalkInv

\* answer() in a conversation that rings, and in one that does not
LEMMA AnswerStep ==
    ASSUME TalkInv, NEW p \in Peers, answer(p)
    PROVE  TalkInv'
<1>1. PICK c \in call_of(p) : Ringing(c) /\ Accept(c)
  BY DEF answer
<1>2. /\ CallPart' /\ Waiting' = Waiting /\ Joined' = Joined /\ Held' = Held
      /\ objs[c].tid \in Waiting /\ Len(objs') = Len(objs)
  BY <1>1, InvParts, AcceptCalls
<1>3. PICK t : t = objs[c].tid
  OBVIOUS
<1>4. t \in Held /\ t \in Ours(Len(objs)) \cup TalkdTids
  BY <1>2, <1>3, WaitOrJoin, TwoKinds, InvParts DEF GivenOut, Given
<1>5. /\ UNCHANGED <<adapter, talkd, toUs>> /\ mixed' = mixed /\ phase = "up"
      /\ toTalkd' = Append(toTalkd, Speak("ACCEPT", t))
  BY <1>1, <1>3 DEF Accept, answer
<1>6. WirePart'
  BY <1>2, <1>4, <1>5, WireSpoken
<1> QED BY <1>2, <1>6 DEF TalkInv

\* join() makes a call
LEMMA JoinStep ==
    ASSUME TalkInv, NEW p \in Peers, join(p)
    PROVE  TalkInv'
<1>1. PICK t : t = <<"c", Len(objs) + 1>>
  OBVIOUS
<1>2. /\ Len(objs) + Cardinality(Rings(toUs)) < MaxCalls /\ phase = "up"
      /\ UNCHANGED <<adapter, talkd, toUs>> /\ mixed' = mixed
      /\ toTalkd' = Append(toTalkd, Say("CALL", t, p))
  BY <1>1 DEF join, Room
<1>3. Len(objs) + 1 <= MaxCalls /\ MaxCalls \in Nat
  BY <1>2, InvTypes
<1>4. /\ CallPart' /\ Waiting' = Waiting \cup {t} /\ Joined' = Joined
      /\ Held' = Held \cup {t} /\ t \notin Held
      /\ Len(objs') = Len(objs) + 1
  BY <1>1, <1>3, InvParts, JoinCalls
<1>5. WirePart'
  BY <1>1, <1>2, <1>4, WireJoined
<1> QED BY <1>4, <1>5 DEF TalkInv

\* part() hangs up, declines or takes back
LEMMA PartStep ==
    ASSUME TalkInv, NEW p \in Peers, part(p)
    PROVE  TalkInv'
<1>1. PICK c \in call_of(p) :
        /\ toTalkd' = IF phase # "up" THEN toTalkd
                      ELSE Append(toTalkd, Speak(IF Ringing(c) THEN "DECLINE" ELSE "HANGUP",
                                                 objs[c].tid))
        /\ _ended({c})
  BY DEF part
<1>2. UNCHANGED <<adapter, open, talkd, toUs>>
  BY DEF part
<1>3. c \in Calls /\ c \in Live /\ c \in DOMAIN objs /\ open' \subseteq Peers
  BY <1>2, InvParts, CallOf, CallFacts DEF CallPart, CallTypes
<1>4. CallPart' /\ EndedNumbers({c}) /\ Len(objs') = Len(objs) /\ mixed' = mixed
  BY <1>1, <1>3, InvParts, EndedCalls
<1>5. PICK t : t = objs[c].tid
  OBVIOUS
<1>6. Waiting' = Waiting \ {t} /\ Joined' = Joined \ {t} /\ Held' \subseteq Held
  BY <1>4, <1>5 DEF EndedNumbers
<1>7. t \in Held /\ t \in Ours(Len(objs)) \cup TalkdTids
  <2>1. PICK n \in Nat : n = Len(objs) /\ DOMAIN objs = 1 .. n
    BY InvParts, CallFacts DEF CallPart
  <2>2. objs[c].outgoing => t \in Ours(n)
    BY <1>3, <1>5, <2>1, InvParts, CallPartFacts DEF Ours
  <2>3. ~objs[c].outgoing => t \in TalkdTids
    BY <1>3, <1>5, InvParts, CallPartFacts
  <2> QED BY <1>3, <1>5, <2>1, <2>2, <2>3 DEF Held
<1>8. UNCHANGED <<auto_answer, phase, acct>>
  BY <1>2 DEF adapter
<1>9. WirePart'
  <2>1. CASE phase = "up"
    <3>1. CASE Ringing(c)
      <4>1. t \in Waiting /\ t \in TalkdTids
        BY <1>3, <1>5, <3>1, InvParts, CallPartFacts DEF Ringing, Waiting
      <4>2. toTalkd' = Append(toTalkd, Speak("DECLINE", t)) /\ "DECLINE" \in Refuses
        BY <1>1, <1>5, <2>1, <3>1 DEF Refuses
      <4> QED BY <1>2, <1>4, <1>6, <1>7, <2>1, <4>1, <4>2, WireSpoken
    <3>2. CASE ~Ringing(c)
      <4>1. toTalkd' = Append(toTalkd, Speak("HANGUP", t)) /\ "HANGUP" \in Refuses
        BY <1>1, <1>5, <2>1, <3>2 DEF Refuses
      <4> QED BY <1>2, <1>4, <1>6, <1>7, <2>1, <4>1, WireSpoken
    <3> QED BY <3>1, <3>2
  <2>2. CASE phase # "up"
    <3>1. Waiting = {} /\ toTalkd' = toTalkd
      BY <1>1, <2>2, InvParts DEF Offline
    <3>2. /\ phase \in {"down", "connecting", "hello", "up"}
          /\ acct \in {"disconnected", "connecting", "connected", "error"}
      BY InvParts DEF WireTypes
    <3> QED BY <1>2, <1>4, <1>6, <1>8, <2>2, <3>1, <3>2, WireStays
  <2> QED BY <2>1, <2>2
<1> QED BY <1>4, <1>9 DEF TalkInv

\* part() of a conversation without a call: it is forgotten
LEMMA LeaveStep ==
    ASSUME TalkInv, NEW p \in Peers, Leave(p)
    PROVE  TalkInv'
<1>1. /\ CallPart' /\ Waiting' = Waiting /\ Joined' = Joined /\ Held' = Held
      /\ Len(objs') = Len(objs) /\ mixed' = mixed
  BY InvParts, LeaveCalls, TalkAssumption
<1>2. UNCHANGED <<auto_answer, phase, acct, talkd, toTalkd, toUs>>
  BY DEF Leave, adapter
<1>3. /\ phase \in {"down", "connecting", "hello", "up"}
      /\ acct \in {"disconnected", "connecting", "connected", "error"}
  BY InvParts DEF WireTypes
<1>4. WirePart'
  BY <1>1, <1>2, <1>3, WireStays
<1> QED BY <1>1, <1>4 DEF TalkInv

\* What has been said of the call at the head of the wire, as a number.
LEMMA HeadFacts ==
    ASSUME TalkInv, toUs # <<>>
    PROVE  /\ 1 \in DOMAIN toUs /\ Head(toUs) = toUs[1] /\ Head(toUs).tid \in Given
           /\ Head(toUs).word = "RING" => Head(toUs).tid \in Theirs(nextT) /\ Head(toUs).peer \in Peers
           /\ Head(toUs).word = "STATE" => Head(toUs).tid \in Ours(Len(objs))
           /\ phase = "up"
<1>1. PICK q \in Seq(Message) : q = toUs
  BY InvTypes
<1>2. 1 \in DOMAIN q /\ Head(q) = q[1]
  BY <1>1, WireRead
<1> QED BY <1>1, <1>2, InvParts DEF GivenOut, Offline

\* _incoming(): a RING, of a number the adapter has or of a new one
LEMMA IncomingStep ==
    ASSUME TalkInv, _incoming
    PROVE  TalkInv'
<1>1. /\ phase = "up" /\ toUs # <<>> /\ Head(toUs).word = "RING" /\ toUs' = Tail(toUs)
      /\ UNCHANGED <<adapter, talkd>> /\ mixed' = mixed
  BY DEF _incoming, Hears
<1>2. PICK p, t : p = Head(toUs).peer /\ t = Head(toUs).tid
  OBVIOUS
<1>3. p \in Peers /\ t \in Theirs(nextT) /\ t \in TalkdTids
  BY <1>1, <1>2, HeadFacts, TwoKinds
<1>4. t \in Held => t \in mixed
  BY <1>1, <1>2, HeadFacts, InvParts DEF SameNumber
<1>5. /\ CallPart' /\ Waiting' = Waiting \cup {t} /\ Joined' = Joined \ {t}
      /\ Held' = Held \cup {t} /\ Len(objs') = Len(objs) + 1
      /\ \/ toTalkd' = toTalkd
         \/ \E n \in Waiting' : toTalkd' = Append(toTalkd, Speak("ACCEPT", n))
  BY <1>2, <1>3, <1>4, InvParts, IncomingCalls
<1>6. OnlyAccepts
  BY <1>3, <1>5, AcceptsSaid
<1>7. WirePart'
  BY <1>1, <1>2, <1>3, <1>5, <1>6, WireIncoming
<1> QED BY <1>5, <1>7 DEF TalkInv

\* STATE: what talkd says of a call that waits
LEMMA StateStep ==
    ASSUME TalkInv, State
    PROVE  TalkInv'
<1>1. /\ phase = "up" /\ toUs # <<>> /\ Head(toUs).word = "STATE" /\ toUs' = Tail(toUs)
      /\ UNCHANGED <<adapter, talkd, toTalkd>>
      /\ UNCHANGED <<objs, calls, open, crossed, mixed>>
  BY DEF State, Hears
<1>2. PICK t : t = Head(toUs).tid
  OBVIOUS
<1>3. PICK st \in {"calling", "ringing"} :
        state' = [p \in Peers |-> IF \E c \in CallsOf(t) : objs[c].conv = p THEN st ELSE state[p]]
  BY <1>2 DEF State
<1>4. t \in Ours(Len(objs)) /\ t \notin TalkdTids
  BY <1>1, <1>2, HeadFacts, TwoKinds
<1>5. t \notin Joined
  BY <1>1, <1>2, HeadFacts, InvParts DEF Progress, OnWire
<1>6. \A c \in CallsOf(t) : objs[c].outgoing /\ ~objs[c].data
  <2>1. /\ \A c \in CallsOf(t) : objs[c].tid = t /\ c \in DOMAIN objs
        /\ \A c \in CallsOf(t) : ~objs[c].data
    BY <1>5, InvParts, CallsOfOne DEF CallPart
  <2>2. \A c \in DOMAIN objs : ~objs[c].outgoing => objs[c].tid \in TalkdTids
    BY InvParts, CallPartFacts
  <2> QED BY <1>4, <2>1, <2>2
<1>7. CallPart' /\ Waiting' = Waiting /\ Joined' = Joined /\ Held' = Held
  BY <1>1, <1>3, <1>6, InvParts, ToldCalls
<1>8. WirePart'
  BY <1>1, <1>2, <1>7, WireHeard
<1> QED BY <1>7, <1>8 DEF TalkInv

\* The call of one number ends.
LEMMA EndOfOne ==
    ASSUME TalkInv, NEW t, _ended(CallsOf(t)), open' = open
    PROVE  /\ CallPart' /\ Waiting' = Waiting \ {t} /\ Joined' \subseteq Joined
           /\ Held' \subseteq Held /\ Len(objs') = Len(objs) /\ mixed' = mixed
<1>1. PICK es : es = CallsOf(t)
  OBVIOUS
<1>2. /\ es \subseteq Live /\ \A c \in es : objs[c].tid = t
      /\ es = {} => t \notin Waiting
  BY <1>1, InvParts, CallsOfOne DEF CallPart
<1>3. open' \subseteq Peers
  BY InvParts DEF CallPart, CallTypes
<1>4. CallPart' /\ EndedNumbers(es) /\ Len(objs') = Len(objs) /\ mixed' = mixed
  BY <1>1, <1>2, <1>3, InvParts, EndedCalls
<1>5. Waiting' = Waiting \ {t}
  <2>1. Waiting' = {x \in Waiting : \A e \in es : x # objs[e].tid}
    BY <1>4 DEF EndedNumbers
  <2> QED BY <1>2, <2>1
<1> QED BY <1>4, <1>5 DEF EndedNumbers

\* _attach(): the data connection of a call comes, or fails
LEMMA AttachStep ==
    ASSUME TalkInv, _attach
    PROVE  TalkInv'
<1>1. /\ phase = "up" /\ toUs # <<>> /\ Head(toUs).word = "CONNECT" /\ toUs' = Tail(toUs)
      /\ UNCHANGED <<adapter, talkd, toTalkd>> /\ open' = open
  BY DEF _attach, Hears
<1>2. PICK t : t = Head(toUs).tid
  OBVIOUS
<1>3. Attached(CallsOf(t)) \/ _ended(CallsOf(t))
  BY <1>2 DEF _attach
<1>4. /\ CallPart' /\ Waiting' = Waiting \ {t}
      /\ Joined' \subseteq Joined \cup (Waiting \cap {t})
      /\ Held' \subseteq Held /\ Len(objs') = Len(objs) /\ mixed' = mixed
  <2>1. CASE Attached(CallsOf(t))
    BY <1>1, <2>1, InvParts, AttachedCalls
  <2>2. CASE _ended(CallsOf(t))
    BY <1>1, <2>2, EndOfOne
  <2> QED BY <1>3, <2>1, <2>2
<1>5. "CONNECT" \in Settles
  BY DEF Settles
<1>6. WirePart'
  BY <1>1, <1>2, <1>4, <1>5, WireHeard
<1> QED BY <1>4, <1>6 DEF TalkInv

\* GONE: the call is over, or was never answered
LEMMA GoneStep ==
    ASSUME TalkInv, Gone
    PROVE  TalkInv'
<1>1. /\ phase = "up" /\ toUs # <<>> /\ Head(toUs).word = "GONE" /\ toUs' = Tail(toUs)
      /\ UNCHANGED <<adapter, talkd, toTalkd>> /\ open' = open
  BY DEF Gone, Hears
<1>2. PICK t : t = Head(toUs).tid
  OBVIOUS
<1>3. _ended(CallsOf(t))
  BY <1>2 DEF Gone
<1>4. /\ CallPart' /\ Waiting' = Waiting \ {t} /\ Joined' \subseteq Joined
      /\ Held' \subseteq Held /\ Len(objs') = Len(objs) /\ mixed' = mixed
  BY <1>1, <1>3, EndOfOne
<1>5. "GONE" \in Settles
  BY DEF Settles
<1>6. WirePart'
  BY <1>1, <1>2, <1>4, <1>5, WireHeard
<1> QED BY <1>4, <1>6 DEF TalkInv

\* _data_read(): the other side closed the data connection
LEMMA SessionEndsStep ==
    ASSUME TalkInv, NEW c, SessionEnds(c)
    PROVE  TalkInv'
<1>1. /\ c \in Live /\ objs[c].data /\ _ended({c})
      /\ UNCHANGED <<adapter, open, talkd, toTalkd, toUs>>
  BY DEF SessionEnds
<1>2. PICK t : t = objs[c].tid
  OBVIOUS
<1>3. open' \subseteq Peers
  BY <1>1, InvParts DEF CallPart, CallTypes
<1>4. CallPart' /\ EndedNumbers({c}) /\ Len(objs') = Len(objs) /\ mixed' = mixed
  BY <1>1, <1>3, InvParts, EndedCalls
<1>5. Waiting' = Waiting \ {t} /\ Joined' = Joined \ {t} /\ Held' \subseteq Held
  BY <1>2, <1>4 DEF EndedNumbers
<1>6. t \in Waiting => t \in mixed
  <2> SUFFICES ASSUME t \in Waiting PROVE t \in mixed
    OBVIOUS
  <2>1. PICK d \in Calls : ~objs[d].data /\ objs[d].tid = t
    BY DEF Waiting
  <2>2. d \in Live /\ d # c
    BY <1>1, <2>1, InvParts, CallFacts DEF CallPart
  <2> QED BY <1>1, <1>2, <2>1, <2>2, InvParts, CallPartFacts
<1>7. /\ phase \in {"down", "connecting", "hello", "up"} /\ UNCHANGED <<auto_answer, phase, acct>>
      /\ acct \in {"disconnected", "connecting", "connected", "error"}
  BY <1>1, InvParts DEF WireTypes, adapter
<1>8. WirePart'
  BY <1>1, <1>4, <1>5, <1>6, <1>7, WireStays
<1> QED BY <1>4, <1>8 DEF TalkInv

\* talkd: somebody calls
LEMMA RingsStep ==
    ASSUME TalkInv, NEW p \in Peers, TalkdRings(p)
    PROVE  TalkInv'
<1>1. PICK n \in Nat : n = nextT /\ n >= 1 /\ n <= MaxCalls
  BY InvTypes DEF TalkdRings
<1>2. <<"t", nextT>> \in TalkdTids
  BY <1>1 DEF TalkdTids
<1>3. UNCHANGED <<adapter, objs, calls, state, open, crossed, toTalkd>>
  BY DEF TalkdRings
<1>4. mixed' = mixed \/ mixed' = mixed \cup {<<"t", nextT>>}
  BY DEF TalkdRings
<1>5. mixed \subseteq mixed' /\ mixed' \subseteq TalkdTids
  BY <1>2, <1>4, InvParts DEF CallPart, CallTypes
<1>6. /\ CallPart' /\ Waiting' = Waiting /\ Joined' = Joined /\ Held' = Held
      /\ Len(objs') = Len(objs) /\ Ours(Len(objs))' = Ours(Len(objs))
  BY <1>3, <1>5, NoCallTouched
<1>7. TalkdsTurn
  BY <1>3, <1>6 DEF TalkdsTurn, adapter
<1>8. WirePart'
  BY <1>7, WireRings
<1> QED BY <1>6, <1>8 DEF TalkInv

\* The rest of what talkd does touches no call and gives no number.
LEMMA TalkdsStep ==
    ASSUME TalkInv, UNCHANGED adapter, UNCHANGED callVars
    PROVE  CallPart' /\ TalkdsTurn /\ mixed' = mixed
<1>1. UNCHANGED <<objs, calls, state, open, crossed, mixed>>
  BY DEF callVars
<1>2. mixed \subseteq TalkdTids
  BY InvParts DEF CallPart, CallTypes
<1>3. /\ CallPart' /\ Waiting' = Waiting /\ Joined' = Joined /\ Held' = Held
      /\ Len(objs') = Len(objs) /\ Ours(Len(objs))' = Ours(Len(objs))
  BY <1>1, <1>2, NoCallTouched
<1> QED BY <1>1, <1>3 DEF TalkdsTurn, adapter

\* talkd reads CALL, ACCEPT, REJECT or HANGUP
LEMMA TalkdReadsStep ==
    ASSUME TalkInv, TalkdReads
    PROVE  TalkInv'
<1>1. toTalkd # <<>> /\ UNCHANGED adapter /\ UNCHANGED callVars
  BY DEF TalkdReads
<1>2. CallPart' /\ TalkdsTurn /\ mixed' = mixed
  BY <1>1, TalkdsStep
<1>3. Head(toTalkd).word \in Asks
  <2>1. PICK q \in Seq(Message) : q = toTalkd
    BY InvTypes
  <2>2. 1 \in DOMAIN q /\ Head(q) = q[1]
    BY <1>1, <2>1, WireRead
  <2> QED BY <2>1, <2>2, InvParts DEF GivenOut
<1>4. WirePart'
  <2>1. CASE Head(toTalkd).word = "CALL"
    BY <1>2, <2>1, WireAsked
  <2>2. CASE Head(toTalkd).word = "ACCEPT"
    BY <1>2, <2>2, WireAccepted
  <2>3. CASE Head(toTalkd).word \in Refuses
    BY <1>2, <2>3, WireRefused
  <2> QED BY <1>3, <2>1, <2>2, <2>3 DEF Asks, Refuses
<1> QED BY <1>2, <1>4 DEF TalkInv

\* talkd tells of a line: its state, its connection, its end
LEMMA TellsSteps ==
    ASSUME TalkInv, NEW ln \in lines, TalkdTells(ln) \/ TalkdConnects(ln) \/ TalkdEnds(ln)
    PROVE  TalkInv'
<1>1. UNCHANGED adapter /\ UNCHANGED callVars /\ nextT' = nextT /\ toTalkd' = toTalkd
  BY DEF TalkdTells, TalkdConnects, TalkdEnds, talkd
<1>2. CallPart' /\ TalkdsTurn /\ mixed' = mixed
  BY <1>1, TalkdsStep
<1>3. /\ lines \subseteq [tid : Tids, peer : Peers, st : {"offered", "calling", "answered", "linked"}]
      /\ \A k, l \in lines : k.tid = l.tid => k = l
  BY InvParts DEF WireTypes, OneLine
<1>4. WirePart'
  <2>1. CASE TalkdTells(ln)
    <3>1. ln.st = "calling" /\ lines' = lines /\ TalkdSays(Speak("STATE", ln.tid))
      BY <2>1 DEF TalkdTells, talkd
    <3> QED BY <1>1, <1>2, <1>3, <3>1, WireTold
  <2>2. CASE TalkdConnects(ln)
    <3>1. TalkdSays(Speak("CONNECT", ln.tid))
          /\ lines' = (lines \ {ln}) \cup {[ln EXCEPT !.st = "linked"]}
      BY <2>2 DEF TalkdConnects
    <3>2. PICK o : o = [ln EXCEPT !.st = "linked"]
      OBVIOUS
    <3>3. /\ o \in [tid : Tids, peer : Peers, st : {"offered", "calling", "answered", "linked"}]
          /\ o.tid = ln.tid /\ o.peer = ln.peer /\ o.st = "linked"
      <4>1. ln \in [tid : Tids, peer : Peers, st : {"offered", "calling", "answered", "linked"}]
        BY <1>3
      <4> QED BY <3>2, <4>1
    <3>4. lines' = (lines \ {ln}) \cup {o}
      BY <3>1, <3>2
    <3>5. /\ \A l \in lines' : l \in lines \/ (l.tid = ln.tid /\ l.peer = ln.peer /\ l.st = "linked")
          /\ \A l \in lines : l.tid # ln.tid => l \in lines'
          /\ \A k, l \in lines' : k.tid = l.tid => k = l
          /\ lines' \subseteq [tid : Tids, peer : Peers,
                               st : {"offered", "calling", "answered", "linked"}]
          /\ \A l \in lines' : l.tid = ln.tid => l.st = "linked"
      BY <1>3, <3>3, <3>4
    <3> QED BY <1>1, <1>2, <3>1, <3>5, WireTold
  <2>3. CASE TalkdEnds(ln)
    <3>1. TalkdSays(Speak("GONE", ln.tid)) /\ lines' = lines \ {ln}
      BY <2>3 DEF TalkdEnds
    <3> QED BY <1>1, <1>2, <1>3, <3>1, WireTold
  <2> QED BY <2>1, <2>2, <2>3
<1> QED BY <1>2, <1>4 DEF TalkInv

\* Every step keeps the invariant
LEMMA TalkNextInv == TalkInv /\ [TalkNext]_talkVars => TalkInv'
<1> SUFFICES ASSUME TalkInv, [TalkNext]_talkVars PROVE TalkInv'
  OBVIOUS
<1>1. CASE connect \/ _connected \/ Greeted \/ _fail \/ _lost \/ disconnect
  BY <1>1, ConnectSteps, FailStep, LostStep, DisconnectStep
<1>2. CASE \E p \in Peers : answer(p) \/ join(p) \/ part(p) \/ Leave(p) \/ TalkdRings(p)
  BY <1>2, AnswerStep, JoinStep, PartStep, LeaveStep, RingsStep
<1>3. CASE _incoming \/ State \/ _attach \/ Gone
  BY <1>3, IncomingStep, StateStep, AttachStep, GoneStep
<1>4. CASE \E c \in 1 .. MaxCalls : SessionEnds(c)
  BY <1>4, SessionEndsStep
<1>5. CASE TalkdReads
  BY <1>5, TalkdReadsStep
<1>6. CASE \E ln \in lines : TalkdTells(ln) \/ TalkdConnects(ln) \/ TalkdEnds(ln)
  BY <1>6, TellsSteps
<1>7. CASE UNCHANGED talkVars
  <2>1. UNCHANGED adapter /\ UNCHANGED callVars /\ UNCHANGED <<talkd, toTalkd, toUs>>
    BY <1>7 DEF talkVars
  <2>2. CallPart' /\ TalkdsTurn /\ mixed' = mixed
    BY <2>1, TalkdsStep
  <2>3. /\ UNCHANGED <<auto_answer, phase, acct>>
        /\ phase \in {"down", "connecting", "hello", "up"}
        /\ acct \in {"disconnected", "connecting", "connected", "error"}
    BY <2>1, InvParts DEF adapter, WireTypes
  <2>4. Len(objs') = Len(objs) /\ Waiting' = Waiting /\ Joined' = Joined /\ Held' = Held
    BY <2>2 DEF TalkdsTurn
  <2>5. WirePart'
    BY <2>1, <2>2, <2>3, <2>4, WireStays
  <2> QED BY <2>2, <2>5 DEF TalkInv
<1> QED BY <1>1, <1>2, <1>3, <1>4, <1>5, <1>6, <1>7 DEF TalkNext

-----------------------------------------------------------------------------
(* What the invariant promises                                             *)

\* The invariant has what the property asks
LEMMA TalkInvAgrees == TalkInv => CallsAgree
<1> SUFFICES ASSUME TalkInv PROVE CallsAgree
  OBVIOUS
<1>1. TalkTypeOK
  <2>1. /\ objs \in Seq(Object) /\ Len(objs) <= MaxCalls /\ nextT \in Nat \ {0}
    <3>1. PICK l, k \in Nat : l = Len(objs) /\ k = Cardinality(Rings(toUs)) /\ l + k <= MaxCalls
      BY InvTypes
    <3>2. MaxCalls \in Nat
      BY InvTypes
    <3>3. Len(objs) <= MaxCalls
      BY <3>1, <3>2
    <3>4. nextT \in Nat \ {0}
      BY <3>2, InvTypes
    <3> QED BY <3>3, <3>4, InvParts DEF CallPart, CallTypes
  <2>2. /\ calls \in Seq(Live)
        /\ \A i, j \in DOMAIN calls : objs[calls[i]].tid = objs[calls[j]].tid => i = j
        /\ state \in [Peers -> Shown] /\ open \subseteq Peers /\ crossed \subseteq Peers
    BY InvParts DEF CallPart, CallTypes
  <2>3. mixed \subseteq Tids
    BY InvParts, TwoKinds DEF CallPart, CallTypes
  <2>4. toTalkd \in Wire /\ toUs \in Wire
    BY InvTypes DEF Wire, Message
  <2>5. /\ auto_answer \in BOOLEAN /\ phase \in {"down", "connecting", "hello", "up"}
        /\ acct \in {"disconnected", "connecting", "connected", "error"}
        /\ lines \subseteq [tid : Tids, peer : Peers,
                            st : {"offered", "calling", "answered", "linked"}]
    BY InvParts DEF WireTypes
  <2>6. objs \in Seq([conv : Peers \cup {NoPeer}, tid : Tids, outgoing : BOOLEAN,
                      data : BOOLEAN, live : BOOLEAN, accepted : BOOLEAN])
    BY <2>1 DEF Object
  <2> QED BY <2>1, <2>2, <2>3, <2>4, <2>5, <2>6 DEF TalkTypeOK
<1>2. ShownIsTrue
  <2> SUFFICES ASSUME NEW p \in Peers \ crossed, LiveWith(p) \subseteq Calls
               PROVE  CASE call_of(p) = {} -> state[p] \in {"", "ended"}
                        [] OTHER -> \A c \in call_of(p) :
                             state[p] \in IF objs[c].data THEN {"connected"}
                                          ELSE IF objs[c].outgoing THEN {"calling", "ringing"}
                                          ELSE {"incoming"}
    BY DEF ShownIsTrue
  <2>1. /\ \A c \in call_of(p) : c \in Calls /\ c \in LiveWith(p)
        /\ call_of(p) = {} => \A c \in Calls : objs[c].conv # p
    BY InvParts, CallOf DEF CallPart
  <2>2. /\ LiveWith(p) = {} => state[p] \in {"", "ended"}
        /\ \A c \in LiveWith(p) \cap Calls : state[p] \in Fitting(c)
    BY InvParts, CallPartFacts
  <2>3. CASE call_of(p) = {}
    <3>1. LiveWith(p) = {}
      BY <2>1, <2>3 DEF LiveWith
    <3> QED BY <2>2, <2>3, <3>1
  <2>4. CASE call_of(p) # {}
    <3>1. \A c \in call_of(p) : state[p] \in Fitting(c)
      BY <2>1, <2>2
    <3> QED BY <2>4, <3>1 DEF Fitting
  <2> QED BY <2>3, <2>4
<1>3. CallsAreListed
  BY InvParts DEF CallPart
<1>4. RingIsReal
  <2> SUFFICES ASSUME NEW c \in Calls, ~objs[c].data, objs[c].tid \notin mixed
               PROVE  /\ phase = "up"
                      /\ \/ Known(objs[c].tid) \/ OnWire(toTalkd, {"CALL"}, objs[c].tid)
                         \/ OnWire(toUs, {"CONNECT", "GONE"}, objs[c].tid)
    BY DEF RingIsReal
  <2>1. objs[c].tid \in Waiting \ mixed
    BY DEF Waiting
  <2> QED BY <2>1, InvParts DEF Offline, Real, Settles
<1>5. NobodyWaitsUnseen
  <2> SUFFICES ASSUME NEW ln \in lines, ln.st # "linked"
               PROVE  \/ \E c \in CallsOf(ln.tid) : ~objs[c].data
                      \/ OnWire(toUs, {"RING"}, ln.tid)
                      \/ OnWire(toTalkd, {"DECLINE", "HANGUP"}, ln.tid)
                      \/ ln.tid \in mixed
    BY DEF NobodyWaitsUnseen
  <2>1. ln.tid \in Waiting => \E c \in CallsOf(ln.tid) : ~objs[c].data
    BY DEF Waiting, CallsOf
  <2> QED BY <2>1, InvParts DEF Unseen, Refuses
<1> QED BY <1>1, <1>2, <1>3, <1>4, <1>5 DEF CallsAgree

\* However calls cross, end, or lose their control connection, the
\* conversation's state, the adapter's dict, talkd's lines and the wire agree
\* about every call: what a conversation shows is its call's state, no call
\* that goes on is lost from the list, a call shown as ringing is one that
\* talkd has, and nobody waits in talkd for a call that nobody here can see.
THEOREM CallsAlwaysAgree == TalkSpec => []CallsAgree
<1>1. TalkSpec => []TalkInv
  BY TalkInitInv, TalkNextInv, PTL DEF TalkSpec
<1> QED BY <1>1, TalkInvAgrees, PTL

\* In every state with a call in progress the two logs of a call agree, but for
\* how what is said is cut and for what is said on top of an unfinished line.
THEOREM LogsAlwaysAgree == TalkSpec => []LogsAgree
<1>1. LogsAgree
  BY LinesAlwaysSame DEF LogsAgree
<1> QED BY <1>1, PTL
=============================================================================
