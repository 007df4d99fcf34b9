--------------------------- MODULE ThreadsProofs ----------------------------
(* Proofs about the functions that Threads interleaves: the gun LEDs of Laser *)
(* and the humidifier of Mist.                                               *)
EXTENDS Laser, Mist, SequenceTheorems, TLAPS

(***************************************************************************)
(* Functions as sequences of statements, and what is left of them.          *)
(***************************************************************************)
LEMMA Members ==
  ASSUME NEW S, NEW s \in Seq(S)
  PROVE  \A w : w \in ToSet(s) <=> \E i \in 1..Len(s) : s[i] = w
BY DEF ToSet

\* One function that calls another first.
LEMMA Concat ==
  ASSUME NEW S, NEW f \in Seq(S), NEW g \in Seq(S) \ {<<>>}
  PROVE  /\ f \o g \in Seq(S) \ {<<>>}
         /\ ToSet(f \o g) = ToSet(f) \cup ToSet(g)
         /\ Last(f \o g) = Last(g)
<1> DEFINE h == f \o g
<1>1. /\ h \in Seq(S) /\ Len(h) = Len(f) + Len(g) /\ Len(g) > 0
      /\ \A i \in 1..Len(f) : h[i] = f[i]
      /\ \A i \in 1..Len(g) : h[Len(f) + i] = g[i]
  OBVIOUS
<1>2. ToSet(h) \subseteq ToSet(f) \cup ToSet(g)
  <2> SUFFICES ASSUME NEW i \in 1..Len(h)
               PROVE  h[i] \in ToSet(f) \cup ToSet(g)
    BY <1>1 DEF ToSet
  <2>1. i \in 1..Len(f) \/ (i - Len(f) \in 1..Len(g) /\ i = Len(f) + (i - Len(f)))
    BY <1>1
  <2> QED BY <1>1, <2>1 DEF ToSet
<1>3. ToSet(f) \subseteq ToSet(h)
  BY <1>1 DEF ToSet
<1>4. ToSet(g) \subseteq ToSet(h)
  <2> SUFFICES ASSUME NEW i \in 1..Len(g) PROVE g[i] \in ToSet(h)
    BY DEF ToSet
  <2>1. Len(f) + i \in 1..Len(h) /\ h[Len(f) + i] = g[i]
    BY <1>1
  <2> QED BY <1>1, <2>1 DEF ToSet
<1>5. Last(h) = Last(g)
  BY <1>1 DEF Last
<1> QED BY <1>1, <1>2, <1>3, <1>4, <1>5

\* Function f accesses M and ends with the access l.
Accesses(f, M, l) ==
  /\ f \in Seq(M) \ {<<>>}
  /\ ToSet(f) = M
  /\ Last(f) = l

LEMMA NothingLeft == ToSet(<<>>) = {}
BY DEF ToSet

LEMMA Tuples ==
  ASSUME NEW a, NEW b, NEW c, NEW d
  PROVE  /\ Accesses(<<a>>, {a}, a)
         /\ Accesses(<<a, b>>, {a, b}, b)
         /\ Accesses(<<a, b, c>>, {a, b, c}, c)
         /\ Accesses(<<a, b, c, d>>, {a, b, c, d}, d)
<1>1. Accesses(<<a>>, {a}, a)
  BY DEF Accesses, ToSet, Last
<1>2. Accesses(<<a, b>>, {a, b}, b)
  BY DEF Accesses, ToSet, Last
<1>3. Accesses(<<a, b, c>>, {a, b, c}, c)
  BY DEF Accesses, ToSet, Last
<1>4. Accesses(<<a, b, c, d>>, {a, b, c, d}, d)
  BY DEF Accesses, ToSet, Last
<1> QED BY <1>1, <1>2, <1>3, <1>4

LEMMA Joined ==
  ASSUME NEW f, NEW M, NEW l, Accesses(f, M, l),
         NEW g, NEW N, NEW m, Accesses(g, N, m)
  PROVE  Accesses(f \o g, M \cup N, m)
<1> DEFINE S == M \cup N
<1>1. Seq(M) \subseteq Seq(S) /\ Seq(N) \subseteq Seq(S)
  BY SeqMonotonic, Zenon
<1>2. f \in Seq(S) /\ g \in Seq(S) \ {<<>>}
  BY <1>1 DEF Accesses
<1>3. /\ f \o g \in Seq(S) \ {<<>>}
      /\ ToSet(f \o g) = ToSet(f) \cup ToSet(g) /\ Last(f \o g) = Last(g)
  <2> HIDE DEF S
  <2> QED BY <1>2, Concat
<1> QED BY <1>3 DEF Accesses

\* What is left of a function that has begun.
LEMMA SuffixIs ==
  ASSUME NEW S, NEW f \in Seq(S), NEW t \in Suffixes(f), t # <<>>
  PROVE  \E l \in 1..Len(f) :
           /\ t \in Seq(S) /\ Len(t) = Len(f) - l + 1
           /\ \A i \in 1..Len(t) : t[i] = f[l + i - 1]
<1>1. PICK l \in 1..Len(f) : t = SubSeq(f, l, Len(f))
  BY DEF Suffixes
<1>2. /\ t \in Seq(S) /\ Len(t) = Len(f) - l + 1
      /\ \A i \in 1..Len(t) : t[i] = f[l + i - 1]
  BY <1>1
<1> QED BY <1>2

\* One statement of it.
LEMMA SuffixStep ==
  ASSUME NEW S, NEW f \in Seq(S), NEW t \in Suffixes(f), t # <<>>
  PROVE  /\ Tail(t) \in Suffixes(f)
         /\ Head(t) \in ToSet(f)
         /\ ToSet(t) = {Head(t)} \cup ToSet(Tail(t))
         /\ ToSet(t) \subseteq ToSet(f)
         /\ Head(t) # Last(f) => Last(f) \in ToSet(Tail(t))
<1>1. PICK l \in 1..Len(f) :
        /\ t \in Seq(S) /\ Len(t) = Len(f) - l + 1
        /\ \A i \in 1..Len(t) : t[i] = f[l + i - 1]
  BY SuffixIs
<1>a. PICK u : u = Tail(t)
  OBVIOUS
<1>2. /\ Head(t) = t[1] /\ u \in Seq(S) /\ Len(u) = Len(t) - 1
      /\ \A i \in 1..Len(u) : u[i] = t[i + 1]
  BY <1>1, <1>a
<1>3. u \in Suffixes(f)
  <2>1. CASE l = Len(f)
    <3>1. Len(u) = 0
      BY <1>1, <1>2, <2>1
    <3>2. u = <<>>
      BY <1>2, <3>1, EmptySeq
    <3> QED BY <3>2 DEF Suffixes
  <2>2. CASE l # Len(f)
    <3>1. l + 1 \in 1..Len(f)
      BY <2>2
    <3>2. PICK v : v = SubSeq(f, l + 1, Len(f))
      OBVIOUS
    <3>3. /\ v \in Seq(S) /\ Len(v) = Len(f) - l
          /\ \A i \in 1..Len(v) : v[i] = f[l + 1 + i - 1]
      BY <3>1, <3>2
    <3>4. ASSUME NEW i \in 1..Len(u) PROVE u[i] = v[i]
      <4>1. i \in 1..Len(v) /\ i + 1 \in 1..Len(t) /\ l + 1 + i - 1 = l + (i + 1) - 1
        BY <1>1, <1>2, <3>3
      <4> QED BY <1>1, <1>2, <3>3, <4>1
    <3>5. Len(u) = Len(v)
      BY <1>1, <1>2, <3>3
    <3>6. u = v
      BY <1>2, <3>3, <3>4, <3>5, SeqEqual
    <3> QED BY <3>1, <3>2, <3>6 DEF Suffixes
  <2> QED BY <2>1, <2>2
<1>4. ToSet(t) \subseteq ToSet(f) /\ Head(t) \in ToSet(t)
  <2>1. \A i \in 1..Len(t) : l + i - 1 \in 1..Len(f)
    BY <1>1
  <2> QED BY <1>1, <1>2, <2>1, Members
<1>5. ToSet(t) = {Head(t)} \cup ToSet(u)
  <2>1. ASSUME NEW i \in 1..Len(t) PROVE t[i] \in {Head(t)} \cup ToSet(u)
    <3>1. i = 1 \/ (i - 1 \in 1..Len(u) /\ u[i - 1] = t[i])
      BY <1>1, <1>2
    <3> QED BY <1>2, <3>1, Members
  <2>2. ASSUME NEW i \in 1..Len(u) PROVE u[i] \in ToSet(t)
    <3>1. i + 1 \in 1..Len(t)
      BY <1>1, <1>2
    <3> QED BY <1>1, <1>2, <3>1, Members
  <2>3. ToSet(t) \subseteq {Head(t)} \cup ToSet(u)
    BY <1>1, <2>1, Members
  <2>4. ToSet(u) \subseteq ToSet(t)
    BY <1>2, <2>2, Members
  <2> QED BY <1>4, <2>3, <2>4
<1>6. ASSUME Head(t) # Last(f) PROVE Last(f) \in ToSet(u)
  <2>1. l # Len(f)
    BY <1>1, <1>2, <1>6 DEF Last
  <2>2. Len(u) \in 1..Len(u) /\ Len(t) \in 1..Len(t) /\ l + Len(t) - 1 = Len(f)
    BY <1>1, <1>2, <2>1
  <2>3. u[Len(u)] = t[Len(u) + 1] /\ Len(u) + 1 = Len(t)
    BY <1>1, <1>2, <2>2
  <2>4. t[Len(t)] = f[Len(f)]
    BY <1>1, <2>2
  <2> QED BY <1>2, <2>2, <2>3, <2>4, Members DEF Last
<1> QED BY <1>a, <1>3, <1>4, <1>5, <1>6

\* While a function is in its first part, all of the second is still to come.
LEMMA AheadIn ==
  ASSUME NEW S, NEW h \in Seq(S), NEW t \in Suffixes(h), t # <<>>,
         NEW g \in Seq(S), NEW f \in Seq(S)
  PROVE  /\ Len(h) = Len(f) + Len(g) /\ Head(t) \notin ToSet(g)
         /\ \A i \in 1..Len(g) : h[Len(f) + i] = g[i]
         => ToSet(g) \subseteq ToSet(Tail(t))
<1>1. PICK l \in 1..Len(h) :
        /\ t \in Seq(S) /\ Len(t) = Len(h) - l + 1
        /\ \A i \in 1..Len(t) : t[i] = h[l + i - 1]
  BY SuffixIs
<1> HAVE /\ Len(h) = Len(f) + Len(g) /\ Head(t) \notin ToSet(g)
         /\ \A i \in 1..Len(g) : h[Len(f) + i] = g[i]
<1>2. PICK u : u = Tail(t)
  OBVIOUS
<1>3. /\ Head(t) = t[1] /\ u \in Seq(S) /\ Len(u) = Len(t) - 1
      /\ \A i \in 1..Len(u) : u[i] = t[i + 1]
  BY <1>1, <1>2
<1>4. l <= Len(f)
  <2> SUFFICES ASSUME l > Len(f) PROVE FALSE
    BY <1>1
  <2>1. l - Len(f) \in 1..Len(g) /\ Len(f) + (l - Len(f)) = l + 1 - 1 /\ 1 \in 1..Len(t)
    BY <1>1
  <2>2. g[l - Len(f)] = Head(t)
    BY <1>1, <1>3, <2>1
  <2> QED BY <2>1, <2>2, Members
<1>5. ASSUME NEW i \in 1..Len(g) PROVE g[i] \in ToSet(u)
  <2>1. PICK j : j = Len(f) + i - l
    OBVIOUS
  <2>2. /\ j \in 1..Len(u) /\ j + 1 \in 1..Len(t)
        /\ l + (j + 1) - 1 = Len(f) + i
    BY <1>1, <1>3, <1>4, <2>1
  <2>3. u[j] = h[Len(f) + i]
    BY <1>1, <1>3, <2>2
  <2> QED BY <1>3, <2>2, <2>3, Members
<1> QED BY <1>2, <1>5, Members

LEMMA BehindIn ==
  ASSUME NEW S, NEW h \in Seq(S), NEW t \in Suffixes(h), t # <<>>,
         NEW g \in Seq(S), NEW f \in Seq(S)
  PROVE  /\ Len(h) = Len(f) + Len(g)
         /\ \A i \in 1..Len(g) : h[Len(f) + i] = g[i]
         /\ \A i \in 1..Len(f) : h[i] # Head(t)
         => ToSet(t) \subseteq ToSet(g)
<1>1. PICK l \in 1..Len(h) :
        /\ t \in Seq(S) /\ Len(t) = Len(h) - l + 1
        /\ \A i \in 1..Len(t) : t[i] = h[l + i - 1]
  BY SuffixIs
<1> HAVE /\ Len(h) = Len(f) + Len(g)
         /\ \A i \in 1..Len(g) : h[Len(f) + i] = g[i]
         /\ \A i \in 1..Len(f) : h[i] # Head(t)
<1>2. l > Len(f)
  <2> SUFFICES ASSUME l <= Len(f) PROVE FALSE
    BY <1>1
  <2>1. l \in 1..Len(f) /\ l = l + 1 - 1 /\ 1 \in 1..Len(t) /\ Head(t) = t[1]
    BY <1>1
  <2> QED BY <1>1, <2>1
<1>3. ASSUME NEW i \in 1..Len(t) PROVE t[i] \in ToSet(g)
  <2>1. l + i - 1 - Len(f) \in 1..Len(g) /\ l + i - 1 = Len(f) + (l + i - 1 - Len(f))
    BY <1>1, <1>2
  <2>2. t[i] = g[l + i - 1 - Len(f)]
    BY <1>1, <2>1
  <2> QED BY <2>1, <2>2, Members
<1> QED BY <1>1, <1>3, Members

LEMMA Ahead ==
  ASSUME NEW S, NEW f \in Seq(S), NEW g \in Seq(S) \ {<<>>},
         NEW t \in Suffixes(f \o g), t # <<>>, Head(t) \notin ToSet(g)
  PROVE  ToSet(g) \subseteq ToSet(Tail(t))
<1>1. /\ f \o g \in Seq(S) /\ Len(f \o g) = Len(f) + Len(g) /\ Len(f) \in Nat
      /\ \A i \in 1..Len(g) : (f \o g)[Len(f) + i] = g[i]
  OBVIOUS
<1> QED BY <1>1, AheadIn

\* When it is in its second part, nothing else is left.
LEMMA Behind ==
  ASSUME NEW S, NEW f \in Seq(S), NEW g \in Seq(S) \ {<<>>},
         NEW t \in Suffixes(f \o g), t # <<>>, Head(t) \notin ToSet(f)
  PROVE  ToSet(t) \subseteq ToSet(g)
<1>1. /\ f \o g \in Seq(S) /\ Len(f \o g) = Len(f) + Len(g)
      /\ Len(f) \in Nat
      /\ \A i \in 1..Len(f) : (f \o g)[i] = f[i]
      /\ \A i \in 1..Len(g) : (f \o g)[Len(f) + i] = g[i]
  OBVIOUS
<1>2. \A i \in 1..Len(f) : (f \o g)[i] # Head(t)
  BY <1>1, Members
<1> QED BY <1>1, <1>2, BehindIn

\* The two together, of functions given by what they access.
LEMMA Parts ==
  ASSUME NEW f, NEW M, NEW l, Accesses(f, M, l),
         NEW g, NEW N, NEW m, Accesses(g, N, m),
         NEW t \in Suffixes(f \o g), t # <<>>
  PROVE  /\ Head(t) \notin N => N \subseteq ToSet(Tail(t))
         /\ Head(t) \notin M => ToSet(t) \subseteq N
<1> DEFINE S == M \cup N
<1>1. Seq(M) \subseteq Seq(S) /\ Seq(N) \subseteq Seq(S)
  BY SeqMonotonic, Zenon
<1>2. f \in Seq(S) /\ g \in Seq(S) \ {<<>>} /\ ToSet(f) = M /\ ToSet(g) = N
  BY <1>1 DEF Accesses
<1> HIDE DEF S
<1> QED BY <1>2, Ahead, Behind

\* A function that has not begun is a suffix of itself.
LEMMA Whole ==
  ASSUME NEW f, NEW M, NEW l, Accesses(f, M, l)
  PROVE  f \in Suffixes(f) /\ <<>> \in Suffixes(f) /\ f # <<>>
<1>1. f \in Seq(M) /\ f # <<>>
  BY DEF Accesses
<1>2. f = SubSeq(f, 1, Len(f)) /\ Len(f) \in 1..Len(f)
  BY <1>1, SubSeqFull
<1>3. 1 \in 1..Len(f)
  BY <1>2
<1> QED BY <1>1, <1>2, <1>3 DEF Suffixes

\* todo is a function of the actors.
Threaded == todo = [a \in Actor |-> todo[a]]

LEMMA CallsStep ==
  ASSUME Threaded, NEW a \in Actor, NEW f, Calls(a, f)
  PROVE  /\ Threaded' /\ todo[a] = <<>> /\ todo'[a] = f
         /\ \A b \in Actor \ {a} : todo'[b] = todo[b]
BY DEF Threaded, Calls

LEMMA TodoStep ==
  ASSUME Threaded, NEW a \in Actor, NEW u, todo' = [todo EXCEPT ![a] = u]
  PROVE  /\ Threaded' /\ todo'[a] = u
         /\ \A b \in Actor \ {a} : todo'[b] = todo[b]
BY DEF Threaded

-----------------------------------------------------------------------------
(***************************************************************************)
(* The gun LEDs.                                                            *)
(***************************************************************************)
Cancels == {"stop blink", "stop end", "on = false"}

\* What each function accesses, and the access it ends with.
LEMMA Guns ==
  /\ Accesses(cancel_cannon, {"stop off"}, "stop off")
  /\ Accesses(cancel_gatling, Cancels, "on = false")
  /\ Accesses(rccar_laser_fire, {"stop off"} \cup {"laser on", "start off"}, "start off")
  /\ Accesses(rccar_laser_gatling,
       Cancels \cup {"on = true", "gatling on", "start blink", "start end"}, "start end")
  /\ Accesses(rccar_laser_stop,
       {"stop off"} \cup Cancels \cup {"laser off", "gatling off"}, "gatling off")
  /\ Accesses(led_off_timer_cb, {"laser off"}, "laser off")
  /\ Accesses(gatling_blink_cb, {"load on", "store on", "gatling = on"}, "gatling = on")
  /\ Accesses(gatling_stop_cb, Cancels \cup {"gatling off"}, "gatling off")
  /\ Accesses(cancel_cannon \o cancel_gatling, {"stop off"} \cup Cancels, "on = false")
  /\ Accesses(<<"laser off", "gatling off">>, {"laser off", "gatling off"}, "gatling off")
  /\ Accesses(<<"gatling off">>, {"gatling off"}, "gatling off")
<1>1. /\ Accesses(cancel_cannon, {"stop off"}, "stop off")
      /\ Accesses(led_off_timer_cb, {"laser off"}, "laser off")
      /\ Accesses(<<"gatling off">>, {"gatling off"}, "gatling off")
  BY Tuples, Zenon DEF cancel_cannon, led_off_timer_cb
<1>2. /\ Accesses(cancel_gatling, Cancels, "on = false")
      /\ Accesses(gatling_blink_cb, {"load on", "store on", "gatling = on"}, "gatling = on")
  BY Tuples, Zenon DEF cancel_gatling, gatling_blink_cb, Cancels
<1>3. Accesses(<<"laser on", "start off">>, {"laser on", "start off"}, "start off")
  BY Tuples, Zenon
<1>4. Accesses(<<"laser off", "gatling off">>, {"laser off", "gatling off"}, "gatling off")
  BY Tuples, Zenon
<1>5. Accesses(<<"on = true", "gatling on", "start blink", "start end">>,
               {"on = true", "gatling on", "start blink", "start end"}, "start end")
  BY Tuples, Zenon
<1>6. /\ Accesses(rccar_laser_fire, {"stop off"} \cup {"laser on", "start off"}, "start off")
      /\ Accesses(gatling_stop_cb, Cancels \cup {"gatling off"}, "gatling off")
  BY <1>1, <1>2, <1>3, Joined, Zenon DEF rccar_laser_fire, gatling_stop_cb
<1>7. Accesses(rccar_laser_gatling,
        Cancels \cup {"on = true", "gatling on", "start blink", "start end"}, "start end")
  BY <1>2, <1>5, Joined, Zenon DEF rccar_laser_gatling
<1>8. Accesses(cancel_cannon \o cancel_gatling, {"stop off"} \cup Cancels, "on = false")
  BY <1>1, <1>2, Joined, Zenon
<1>9. Accesses(rccar_laser_stop,
        {"stop off"} \cup Cancels \cup {"laser off", "gatling off"}, "gatling off")
  BY <1>4, <1>8, Joined, Zenon DEF rccar_laser_stop
<1> QED BY <1>1, <1>2, <1>4, <1>6, <1>7, <1>8, <1>9, Zenon

\* The accesses that follow a.
After(a) == ToSet(Tail(todo[a]))

\* Whose function it is.
LEMMA GunActor ==
  ASSUME NEW a \in Actor, NEW f \in GunFunction[a]
  PROVE  \/ a = "core1" /\ f \in {rccar_laser_fire, rccar_laser_gatling}
         \/ f = rccar_laser_stop
         \/ a = "timer" /\ f \in {led_off_timer_cb, gatling_blink_cb, gatling_stop_cb}
BY DEF Actor, GunFunction

\* Where a statement of the guns stands, and what its function still owes.
GunOrder(a, s, rest) ==
  /\ s = "laser on" => a = "core1" /\ "start off" \in rest
  /\ s = "stop off" => (a = "core1" /\ "start off" \in rest) \/ "laser off" \in rest
  /\ s \in {"gatling on", "start blink"} =>
       a = "core1" /\ "start end" \in rest /\ "gatling off" \notin rest
  /\ s = "stop end" => (a = "core1" /\ "start end" \in rest) \/ "gatling off" \in rest
  /\ s \in {"stop end", "gatling off"} => "gatling = on" \notin rest
  /\ s = "gatling off" => "stop blink" \notin rest
  /\ "gatling = on" \in {s} \cup rest => a = "timer"

LEMMA GunStatement ==
  ASSUME NEW a \in Actor, NEW f \in GunFunction[a],
         todo[a] \in Suffixes(f), todo[a] # <<>>
  PROVE  /\ Tail(todo[a]) \in Suffixes(f)
         /\ ToSet(todo[a]) = {Head(todo[a])} \cup After(a)
         /\ GunOrder(a, Head(todo[a]), After(a))
<1>1. PICK s, rest, all :
        s = Head(todo[a]) /\ rest = After(a) /\ all = ToSet(todo[a])
  OBVIOUS
<1> DEFINE Common(M, l) ==
             /\ Tail(todo[a]) \in Suffixes(f)
             /\ s \in M /\ rest \subseteq M /\ all = {s} \cup rest
             /\ s # l => l \in rest
<1>2. ASSUME NEW M, NEW l, Accesses(f, M, l) PROVE Common(M, l)
  BY <1>1, <1>2, SuffixStep DEF Accesses, After
<1>3. ASSUME GunOrder(a, s, rest), NEW M, NEW l, Common(M, l)
      PROVE  /\ Tail(todo[a]) \in Suffixes(f)
             /\ ToSet(todo[a]) = {Head(todo[a])} \cup After(a)
             /\ GunOrder(a, Head(todo[a]), After(a))
  BY <1>1, <1>3, Zenon
<1>4. CASE a = "core1" /\ f = rccar_laser_fire
  <2>1. Common({"stop off"} \cup {"laser on", "start off"}, "start off")
    BY <1>2, <1>4, Guns, Zenon
  <2>2. GunOrder(a, s, rest)
    BY <1>4, <2>1 DEF GunOrder
  <2> QED BY <1>3, <2>1, <2>2, Zenon
<1>5. CASE a = "core1" /\ f = rccar_laser_gatling
  <2>1. Common(Cancels \cup {"on = true", "gatling on", "start blink", "start end"}, "start end")
    BY <1>2, <1>5, Guns, Zenon
  <2>2. GunOrder(a, s, rest)
    BY <1>5, <2>1 DEF GunOrder, Cancels
  <2> QED BY <1>3, <2>1, <2>2, Zenon
<1>6. CASE f = rccar_laser_stop
  <2>1. Common({"stop off"} \cup Cancels \cup {"laser off", "gatling off"}, "gatling off")
    BY <1>2, <1>6, Guns, Zenon
  <2>2. /\ s \notin {"laser off", "gatling off"} => {"laser off", "gatling off"} \subseteq rest
        /\ s \notin {"stop off"} \cup Cancels => all \subseteq {"laser off", "gatling off"}
    <3> DEFINE g == cancel_cannon \o cancel_gatling
               h == <<"laser off", "gatling off">>
               N == {"laser off", "gatling off"}
               M == {"stop off"} \cup Cancels
    <3>1. Accesses(g, M, "on = false") /\ Accesses(h, N, "gatling off")
      BY Guns, Zenon
    <3>2. f = g \o h
      BY <1>6, Zenon DEF rccar_laser_stop
    <3> HIDE DEF g, h, M, N
    <3>3. /\ Head(todo[a]) \notin N => N \subseteq ToSet(Tail(todo[a]))
          /\ Head(todo[a]) \notin M => ToSet(todo[a]) \subseteq N
      BY <3>1, <3>2, Parts, Zenon
    <3> QED BY <1>1, <3>3, Zenon DEF After, M, N
  <2>3. GunOrder(a, s, rest)
    BY <2>1, <2>2 DEF GunOrder, Cancels
  <2> QED BY <1>3, <2>1, <2>3, Zenon
<1>7. CASE a = "timer" /\ f = led_off_timer_cb
  <2>1. Common({"laser off"}, "laser off")
    BY <1>2, <1>7, Guns, Zenon
  <2>2. GunOrder(a, s, rest)
    BY <1>7, <2>1 DEF GunOrder
  <2> QED BY <1>3, <2>1, <2>2, Zenon
<1>8. CASE a = "timer" /\ f = gatling_blink_cb
  <2>1. Common({"load on", "store on", "gatling = on"}, "gatling = on")
    BY <1>2, <1>8, Guns, Zenon
  <2>2. GunOrder(a, s, rest)
    BY <1>8, <2>1 DEF GunOrder
  <2> QED BY <1>3, <2>1, <2>2, Zenon
<1>9. CASE a = "timer" /\ f = gatling_stop_cb
  <2>1. Common(Cancels \cup {"gatling off"}, "gatling off")
    BY <1>2, <1>9, Guns, Zenon
  <2>2. s \notin Cancels => all \subseteq {"gatling off"}
    BY <1>1, <1>9, Guns, Parts, Zenon DEF gatling_stop_cb
  <2>3. GunOrder(a, s, rest)
    BY <1>9, <2>1, <2>2 DEF GunOrder, Cancels
  <2> QED BY <1>3, <2>1, <2>3, Zenon
<1> QED BY <1>4, <1>5, <1>6, <1>7, <1>8, <1>9, GunActor

GunInv == Threaded /\ GunTypeOK

\* A statement leaves its actor with the accesses that follow.
LEMMA GunLeft ==
  ASSUME GunInv, NEW a \in Actor, GunStep(a)
  PROVE  LET s == Head(todo[a]) IN
         /\ Threaded' /\ Runs(a) /\ GunEffect(s)
         /\ \A b \in Actor : \E f \in GunFunction[b] : todo'[b] \in Suffixes(f)
         /\ \A b \in Actor \ {a} : \A w : Owes(b, w)' = Owes(b, w)
         /\ \A w : Owes(a, w) <=> w = s \/ Owes(a, w)'
         /\ GunOrder(a, s, {w \in ToSet(todo[a]) : Owes(a, w)'})
<1> DEFINE s == Head(todo[a])
<1>1. PICK f \in GunFunction[a] : todo[a] \in Suffixes(f)
  BY Zenon DEF GunInv, GunTypeOK
<1>2. todo[a] # <<>> /\ todo' = [todo EXCEPT ![a] = Tail(todo[a])]
      /\ Runs(a) /\ GunEffect(s)
  BY DEF GunStep, Runs
<1>3. /\ Threaded' /\ todo'[a] = Tail(todo[a])
      /\ \A b \in Actor \ {a} : todo'[b] = todo[b]
  BY <1>2, TodoStep DEF GunInv
<1>4. /\ Tail(todo[a]) \in Suffixes(f) /\ ToSet(todo[a]) = {s} \cup After(a)
      /\ GunOrder(a, s, After(a))
  BY <1>1, <1>2, GunStatement, Zenon
<1>5. \A b \in Actor : \E g \in GunFunction[b] : todo'[b] \in Suffixes(g)
  BY <1>1, <1>3, <1>4, Zenon DEF GunInv, GunTypeOK
<1>6. \A b \in Actor \ {a} : \A w : Owes(b, w)' = Owes(b, w)
  BY <1>3, Zenon DEF Owes
<1>7. After(a) = ToSet(todo'[a])
  BY <1>3, Zenon DEF After
<1>8. \A w : Owes(a, w) <=> w = s \/ Owes(a, w)'
  BY <1>4, <1>7 DEF Owes
<1>9. {w \in ToSet(todo[a]) : Owes(a, w)'} = After(a)
  BY <1>4, <1>7 DEF Owes
<1> QED BY <1>2, <1>3, <1>4, <1>5, <1>6, <1>8, <1>9, Zenon

LEMMA GunEffects ==
  ASSUME NEW s, GunEffect(s), GunTypeOK
  PROVE  /\ off' \in BOOLEAN /\ blink' \in BOOLEAN /\ end' \in BOOLEAN
         /\ laser' \in BOOLEAN /\ gatling' \in BOOLEAN
         /\ s_gatling_on' \in BOOLEAN /\ held' \in BOOLEAN
         /\ s = "start off" => off'
         /\ off => off' \/ s = "stop off"
         /\ laser' => s = "laser on" \/ (laser /\ s # "laser off")
         /\ s = "start end" => end'
         /\ end => end' \/ s = "stop end"
         /\ blink' => s = "start blink" \/ (blink /\ s # "stop blink")
         /\ gatling' =>
              s \in {"gatling on", "gatling = on"} \/ (gatling /\ s # "gatling off")
BY DEF GunEffect, GunTypeOK

\* A call adds the accesses of one function.
LEMMA GunCalls ==
  ASSUME GunInv, NEW a \in Actor, NEW f \in GunFunction[a], Calls(a, f)
  PROVE  /\ Threaded' /\ todo[a] = <<>> /\ \A w : ~Owes(a, w)
         /\ \A b \in Actor : \E g \in GunFunction[b] : todo'[b] \in Suffixes(g)
         /\ \A b \in Actor \ {a} : \A w : Owes(b, w)' = Owes(b, w)
         /\ \A w : Owes(a, w)' <=> w \in ToSet(f)
<1>1. /\ Threaded' /\ todo[a] = <<>> /\ todo'[a] = f
      /\ \A b \in Actor \ {a} : todo'[b] = todo[b]
  BY CallsStep DEF GunInv
<1>2. ToSet(<<>>) = {}
  BY DEF ToSet
<1>3. f \in Suffixes(f)
  BY GunActor, Guns, Whole, Zenon
<1>4. \A b \in Actor : \E g \in GunFunction[b] : todo'[b] \in Suffixes(g)
  BY <1>1, <1>3, Zenon DEF GunInv, GunTypeOK
<1> QED BY <1>1, <1>2, <1>4 DEF Owes

\* A step is a call of core 1 or the btstack thread, a timer or a statement.
LEMMA GunCases ==
  ASSUME GunNext
  PROVE  \/ \E a \in {"core1", "btstack"} : \E f \in GunFunction[a] :
              Calls(a, f) /\ UNCHANGED <<timers, leds, s_gatling_on, held>>
         \/ OffExpires \/ BlinkExpires \/ EndExpires
         \/ \E a \in Actor : GunStep(a)
BY Zenon DEF GunNext, Call, Expire

LEMMA TimerFunctions ==
  /\ "timer" \in Actor
  /\ led_off_timer_cb \in GunFunction["timer"]
  /\ gatling_blink_cb \in GunFunction["timer"]
  /\ gatling_stop_cb \in GunFunction["timer"]
BY DEF Actor, GunFunction

LEMMA InitGunInv == GunInit => GunInv
<1> SUFFICES ASSUME GunInit PROVE GunInv
  OBVIOUS
<1>1. todo = Quiet /\ \A a \in Actor : todo[a] = <<>>
  BY DEF GunInit, Quiet
<1>2. \A a \in Actor : \E f \in GunFunction[a] : <<>> \in Suffixes(f)
  BY DEF Actor, GunFunction, Suffixes
<1>3. Threaded
  BY <1>1 DEF Threaded, Quiet
<1>4. \A a \in Actor : \E f \in GunFunction[a] : todo[a] \in Suffixes(f)
  BY <1>1, <1>2, Zenon
<1>5. /\ off \in BOOLEAN /\ blink \in BOOLEAN /\ end \in BOOLEAN
      /\ laser \in BOOLEAN /\ gatling \in BOOLEAN
      /\ s_gatling_on \in BOOLEAN /\ held \in BOOLEAN /\ raced \in BOOLEAN
  BY DEF GunInit
<1> QED BY <1>3, <1>4, <1>5, Zenon DEF GunInv, GunTypeOK

LEMMA StepGunInv == GunInv /\ [GunNext]_gunVars => GunInv'
<1> SUFFICES ASSUME GunInv, [GunNext]_gunVars PROVE GunInv'
  OBVIOUS
<1> DEFINE Placed == \A b \in Actor : \E g \in GunFunction[b] : todo[b] \in Suffixes(g)
           Levels == /\ off \in BOOLEAN /\ blink \in BOOLEAN /\ end \in BOOLEAN
                     /\ laser \in BOOLEAN /\ gatling \in BOOLEAN
                     /\ s_gatling_on \in BOOLEAN /\ held \in BOOLEAN
<1>1. Levels
  BY Zenon DEF GunInv, GunTypeOK
<1> HIDE DEF Placed, Levels
<1>2. ASSUME NEW a \in Actor, GunStep(a) PROVE Threaded' /\ Placed' /\ Levels'
  <2>1. Threaded' /\ GunEffect(Head(todo[a])) /\ Placed'
    BY <1>2, GunLeft, Zenon DEF Placed
  <2>2. Levels'
    BY <2>1, GunEffects, Zenon DEF GunInv, Levels
  <2> QED BY <2>1, <2>2, Zenon
<1>3. ASSUME NEW a \in {"core1", "btstack"}, NEW f \in GunFunction[a], Calls(a, f),
             UNCHANGED <<timers, leds, s_gatling_on, held>>
      PROVE  Threaded' /\ Placed' /\ Levels'
  <2>1. a \in Actor
    BY DEF Actor
  <2>2. Threaded' /\ Placed'
    BY <1>3, <2>1, GunCalls, Zenon DEF Placed
  <2>3. Levels'
    BY <1>1, <1>3 DEF timers, leds, Levels
  <2> QED BY <2>2, <2>3, Zenon
<1>4. ASSUME OffExpires \/ BlinkExpires \/ EndExpires
      PROVE  Threaded' /\ Placed' /\ Levels'
  <2>1. \E f \in GunFunction["timer"] : Calls("timer", f)
    <3>1. OffExpires => Calls("timer", led_off_timer_cb)
      BY Zenon DEF OffExpires
    <3>2. BlinkExpires => Calls("timer", gatling_blink_cb)
      BY Zenon DEF BlinkExpires
    <3>3. EndExpires => Calls("timer", gatling_stop_cb)
      BY Zenon DEF EndExpires
    <3> QED BY <1>4, <3>1, <3>2, <3>3, TimerFunctions, Zenon
  <2>2. Threaded' /\ Placed'
    BY <2>1, TimerFunctions, GunCalls, Zenon DEF Placed
  <2>3. Levels'
    BY <1>1, <1>4 DEF OffExpires, BlinkExpires, EndExpires, timers, leds, Levels
  <2> QED BY <2>2, <2>3, Zenon
<1>5. CASE GunNext
  <2>1. Threaded' /\ Placed' /\ Levels'
    BY <1>2, <1>3, <1>4, <1>5, GunCases, Zenon
  <2>2. raced' \in BOOLEAN
    BY <1>5, Zenon DEF GunNext
  <2> QED BY <2>1, <2>2, Zenon DEF GunInv, GunTypeOK, Placed, Levels
<1>6. CASE UNCHANGED gunVars
  BY <1>6, Zenon DEF gunVars, timers, leds, GunInv, GunTypeOK, Threaded
<1> QED BY <1>5, <1>6

\* An actor is always inside one of its own functions, or between two, and no
\* callback begins inside another (rccar_laser.c:43-73, 164-197).
THEOREM GunsTyped == GunSpec => []GunTypeOK
<1>1. GunInv => GunTypeOK
  BY DEF GunInv
<1> QED BY <1>1, InitGunInv, StepGunInv, PTL DEF GunSpec

\* Three things follow one another while the laser is lit: core 1 about to arm the
\* timer, the timer, and a function that switches the LED off.  LaserGoesOut says
\* that one of them holds, and that is inductive.
LEMMA LaserStep ==
  ASSUME GunInv, LaserGoesOut, NEW a \in Actor, GunStep(a)
  PROVE  LaserGoesOut'
<1> DEFINE s == Head(todo[a])
<1>1. /\ GunEffect(s)
      /\ \A b \in Actor \ {a} : \A w : Owes(b, w)' = Owes(b, w)
      /\ \A w : Owes(a, w) <=> w = s \/ Owes(a, w)'
      /\ GunOrder(a, s, {w \in ToSet(todo[a]) : Owes(a, w)'})
  BY GunLeft, Zenon
<1>2. /\ s = "start off" => off'
      /\ off => off' \/ s = "stop off"
      /\ laser' => s = "laser on" \/ (laser /\ s # "laser off")
  BY <1>1, GunEffects, Zenon DEF GunInv
<1>3. /\ s = "laser on" => a = "core1" /\ Owes(a, "start off")'
      /\ s = "stop off" => (a = "core1" /\ Owes(a, "start off")') \/ Owes(a, "laser off")'
  BY <1>1 DEF GunOrder
<1> HIDE DEF s
<1> SUFFICES ASSUME laser'
             PROVE  off' \/ Owes("core1", "start off")' \/ \E b \in Actor : Owes(b, "laser off")'
  BY Zenon DEF LaserGoesOut
<1>4. CASE s = "laser on"
  BY <1>3, <1>4, Zenon
<1>5. CASE s # "laser on"
  <2>1. laser /\ s # "laser off"
    BY <1>2, <1>5, Zenon
  <2>2. CASE off
    BY <1>2, <1>3, <2>2, Zenon
  <2>3. CASE Owes("core1", "start off")
    <3>1. CASE a = "core1"
      BY <1>1, <1>2, <2>3, <3>1, Zenon
    <3>2. CASE a # "core1"
      BY <1>1, <2>3, <3>2 DEF Actor
    <3> QED BY <3>1, <3>2
  <2>4. ASSUME NEW b \in Actor, Owes(b, "laser off")
        PROVE  Owes(b, "laser off")'
    <3>1. CASE b = a
      BY <1>1, <2>1, <2>4, <3>1, Zenon
    <3>2. CASE b # a
      BY <1>1, <2>4, <3>2
    <3> QED BY <3>1, <3>2
  <2> QED BY <2>1, <2>2, <2>3, <2>4, Zenon DEF LaserGoesOut
<1> QED BY <1>4, <1>5

LEMMA LaserCall ==
  ASSUME GunInv, LaserGoesOut, NEW a \in Actor, NEW f \in GunFunction[a], Calls(a, f),
         laser' = laser, (off' = off) \/ (a = "timer" /\ f = led_off_timer_cb)
  PROVE  LaserGoesOut'
<1>1. /\ \A w : ~Owes(a, w)
      /\ \A b \in Actor \ {a} : \A w : Owes(b, w)' = Owes(b, w)
      /\ \A w : Owes(a, w)' <=> w \in ToSet(f)
  BY GunCalls, Zenon
<1>2. \A b \in Actor : \A w : Owes(b, w) => Owes(b, w)'
  BY <1>1
<1>3. f = led_off_timer_cb => Owes(a, "laser off")'
  <2>1. ToSet(led_off_timer_cb) = {"laser off"}
    BY Guns, Zenon DEF Accesses
  <2> QED BY <1>1, <2>1
<1>4. "core1" \in Actor
  BY DEF Actor
<1> QED BY <1>2, <1>3, <1>4, Zenon DEF LaserGoesOut

\* A lit laser always has somebody who will put it out, whichever of the three
\* threads is where (rccar_laser.c:55-59, 164-173, 188-197).
THEOREM LaserNeverStays == GunSpec => []LaserGoesOut
<1>1. GunInit => LaserGoesOut
  BY Zenon DEF GunInit, LaserGoesOut
<1>2. ASSUME GunInv, LaserGoesOut, [GunNext]_gunVars PROVE LaserGoesOut'
  <2>1. ASSUME NEW a \in {"core1", "btstack"}, NEW f \in GunFunction[a], Calls(a, f),
               UNCHANGED <<timers, leds, s_gatling_on, held>>
        PROVE  LaserGoesOut'
    <3>1. a \in Actor
      BY DEF Actor
    <3>2. laser' = laser /\ off' = off
      BY <2>1 DEF timers, leds
    <3> QED BY <1>2, <2>1, <3>1, <3>2, LaserCall, Zenon
  <2>2. CASE OffExpires
    BY <1>2, <2>2, LaserCall, TimerFunctions, Zenon DEF OffExpires, leds
  <2>3. CASE BlinkExpires
    BY <1>2, <2>3, LaserCall, TimerFunctions, Zenon DEF BlinkExpires, leds, timers
  <2>4. CASE EndExpires
    BY <1>2, <2>4, LaserCall, TimerFunctions, Zenon DEF EndExpires, leds
  <2>5. ASSUME NEW a \in Actor, GunStep(a) PROVE LaserGoesOut'
    BY <1>2, <2>5, LaserStep, Zenon
  <2>6. CASE UNCHANGED gunVars
    BY <1>2, <2>6, Zenon DEF gunVars, timers, leds, LaserGoesOut, Owes
  <2> QED BY <1>2, <2>1, <2>2, <2>3, <2>4, <2>5, <2>6, GunCases, Zenon
<1> QED BY <1>1, <1>2, InitGunInv, StepGunInv, PTL DEF GunSpec

\* BurstGoesOut is not inductive: the blink callback may light the LED after the
\* stop timer has expired, and a stop may have switched the LED off and not yet
\* stopped the blinking.  Unless the cores raced, a blink callback that is about to
\* write the LED still has a stop ahead of it, and whoever is past stopping the
\* blinking and before switching the LED off finds it stopped.
BlinkFollowed ==
  ~raced /\ Owes("timer", "gatling = on") => end \/ Owes("btstack", "gatling off")

BlinkStopped ==
  \A a \in Actor : ~raced /\ Owes(a, "gatling off") /\ ~Owes(a, "stop blink") => ~blink

BurstInv ==
  /\ Together => raced
  /\ BurstGoesOut
  /\ BlinkFollowed
  /\ BlinkStopped

\* What a call of the gatling's functions owes.
LEMMA BurstFunctions ==
  ASSUME NEW a \in Actor, NEW f \in GunFunction[a]
  PROVE  /\ "gatling off" \in ToSet(f) => "stop blink" \in ToSet(f)
         /\ "gatling = on" \in ToSet(f) => a = "timer" /\ f = gatling_blink_cb
         /\ f = gatling_stop_cb => "gatling off" \in ToSet(f)
<1>1. /\ ToSet(rccar_laser_fire) = {"stop off"} \cup {"laser on", "start off"}
      /\ ToSet(rccar_laser_gatling) =
           Cancels \cup {"on = true", "gatling on", "start blink", "start end"}
      /\ ToSet(rccar_laser_stop) = {"stop off"} \cup Cancels \cup {"laser off", "gatling off"}
      /\ ToSet(led_off_timer_cb) = {"laser off"}
      /\ ToSet(gatling_stop_cb) = Cancels \cup {"gatling off"}
      /\ ToSet(gatling_blink_cb) = {"load on", "store on", "gatling = on"}
  BY Guns, Zenon DEF Accesses
<1>2. f = gatling_stop_cb => "gatling off" \in ToSet(f)
  BY <1>1
<1>3. CASE f \in {rccar_laser_fire, rccar_laser_gatling, rccar_laser_stop}
  BY <1>1, <1>2, <1>3 DEF Cancels
<1>4. CASE a = "timer" /\ f \in {led_off_timer_cb, gatling_blink_cb, gatling_stop_cb}
  BY <1>1, <1>2, <1>4 DEF Cancels
<1> QED BY <1>3, <1>4, GunActor, Zenon

\* It is enough to look at a step of one core at a time.
LEMMA BurstCalm ==
  ASSUME BurstInv, raced' = (Together' \/ (raced /\ ~Dark')),
         ~raced /\ ~Together /\ ~Together'
           => BurstGoesOut' /\ BlinkFollowed' /\ BlinkStopped'
  PROVE  BurstInv'
<1>1. Together' => raced'
  BY Zenon
<1>2. CASE raced'
  BY <1>1, <1>2, Zenon DEF BurstInv, BurstGoesOut, BlinkFollowed, BlinkStopped
<1>3. CASE ~raced' /\ Dark'
  <2>1. ~gatling' /\ ~blink' /\ todo'["timer"] = <<>>
    BY <1>3 DEF Dark, Quiet, Actor
  <2>2. ToSet(<<>>) = {}
    BY DEF ToSet
  <2>3. ~Owes("timer", "gatling = on")'
    BY <2>1, <2>2 DEF Owes
  <2> QED BY <1>1, <2>1, <2>3, Zenon DEF BurstInv, BurstGoesOut, BlinkFollowed, BlinkStopped
<1>4. CASE ~raced' /\ ~Dark'
  <2>1. ~raced /\ ~Together' /\ ~Together
    BY <1>4, Zenon DEF BurstInv
  <2> QED BY <1>1, <2>1, Zenon DEF BurstInv
<1> QED BY <1>2, <1>3, <1>4, Zenon

LEMMA BurstCall ==
  ASSUME GunInv, BurstInv, NEW a \in Actor, NEW f \in GunFunction[a], Calls(a, f),
         blink' => blink, gatling' => gatling,
         end => end' \/ (a = "timer" /\ f = gatling_stop_cb),
         f = gatling_blink_cb => blink,
         ~raced, ~Together'
  PROVE  BurstGoesOut' /\ BlinkFollowed' /\ BlinkStopped'
<1>1. /\ \A w : ~Owes(a, w)
      /\ \A b \in Actor \ {a} : \A w : Owes(b, w)' = Owes(b, w)
      /\ \A w : Owes(a, w)' <=> w \in ToSet(f)
  BY GunCalls, Zenon
<1>2. \A b \in Actor : \A w : Owes(b, w) => Owes(b, w)'
  BY <1>1
<1>3. (blink' => blink) /\ (gatling' => gatling)
  BY Zenon
<1>4. "core1" \in Actor /\ "btstack" \in Actor /\ "timer" \in Actor
      /\ \A b \in Actor : b \in {"core1", "btstack", "timer"}
  BY DEF Actor
<1>5. f = gatling_stop_cb => Owes(a, "gatling off")'
  BY <1>1, BurstFunctions
<1>6. end => end' \/ Owes(a, "gatling off")'
  BY <1>5, Zenon
<1>7. BurstGoesOut'
  <2> SUFFICES ASSUME gatling' \/ blink'
               PROVE  end' \/ Owes("core1", "start end")' \/ \E b \in Actor : Owes(b, "gatling off")'
    BY Zenon DEF BurstGoesOut
  <2>1. end \/ Owes("core1", "start end") \/ \E b \in Actor : Owes(b, "gatling off")
    BY <1>3, Zenon DEF BurstInv, BurstGoesOut
  <2> QED BY <1>6, <1>2, <1>4, <2>1, Zenon
<1>8. BlinkFollowed'
  <2> SUFFICES ASSUME Owes("timer", "gatling = on")'
               PROVE  end' \/ Owes("btstack", "gatling off")'
    BY Zenon DEF BlinkFollowed
  <2>1. CASE Owes("timer", "gatling = on")
    <3>1. a # "timer"
      BY <1>1, <2>1, Zenon
    <3>2. end \/ Owes("btstack", "gatling off")
      BY <2>1, Zenon DEF BurstInv, BlinkFollowed
    <3>3. end => end'
      BY <3>1, Zenon
    <3> QED BY <1>2, <1>4, <3>2, <3>3, Zenon
  <2>2. CASE ~Owes("timer", "gatling = on")
    <3>1. a = "timer" /\ "gatling = on" \in ToSet(f)
      BY <1>1, <1>4, <2>2
    <3>2. f = gatling_blink_cb /\ blink /\ ~Owes(a, "gatling off")
      BY <1>1, <3>1, BurstFunctions, Zenon
    <3>3. f # gatling_stop_cb
      BY <3>1, <3>2, Guns DEF Accesses, Cancels
    <3>4. end => end'
      BY <3>3, Zenon
    <3>5. end \/ Owes("core1", "start end") \/ \E b \in Actor : Owes(b, "gatling off")
      BY <3>2, Zenon DEF BurstInv, BurstGoesOut
    <3>6. ~Owes("core1", "start end") /\ ~Owes("core1", "gatling off")
      BY <1>2, <1>4, Zenon DEF Together
    <3>7. end \/ Owes("btstack", "gatling off")
      BY <1>4, <3>1, <3>2, <3>5, <3>6
    <3> QED BY <1>2, <1>4, <3>4, <3>7, Zenon
  <2> QED BY <2>1, <2>2
<1>9. BlinkStopped'
  <2> SUFFICES ASSUME NEW b \in Actor, Owes(b, "gatling off")', ~Owes(b, "stop blink")'
               PROVE  ~blink'
    BY Zenon DEF BlinkStopped
  <2>1. b # a
    BY <1>1, BurstFunctions, Zenon
  <2>2. Owes(b, "gatling off") /\ ~Owes(b, "stop blink")
    BY <1>1, <2>1
  <2> QED BY <1>3, <2>2, Zenon DEF BurstInv, BlinkStopped
<1> QED BY <1>7, <1>8, <1>9, Zenon

LEMMA BurstStatement ==
  ASSUME GunInv, BurstInv, NEW a \in Actor, GunStep(a), ~raced, ~Together'
  PROVE  BurstGoesOut' /\ BlinkFollowed' /\ BlinkStopped'
<1> DEFINE s == Head(todo[a])
<1>1. /\ GunEffect(s) /\ Runs(a)
      /\ \A b \in Actor \ {a} : \A w : Owes(b, w)' = Owes(b, w)
      /\ \A w : Owes(a, w) <=> w = s \/ Owes(a, w)'
      /\ GunOrder(a, s, {w \in ToSet(todo[a]) : Owes(a, w)'})
  BY GunLeft, Zenon
<1>2. /\ s = "start end" => end'
      /\ end => end' \/ s = "stop end"
      /\ blink' => s = "start blink" \/ (blink /\ s # "stop blink")
      /\ gatling' => s \in {"gatling on", "gatling = on"} \/ (gatling /\ s # "gatling off")
  BY <1>1, GunEffects, Zenon DEF GunInv
<1>3. /\ s \in {"gatling on", "start blink"} =>
           a = "core1" /\ Owes(a, "start end")' /\ ~Owes(a, "gatling off")'
      /\ s = "stop end" => (a = "core1" /\ Owes(a, "start end")') \/ Owes(a, "gatling off")'
      /\ s = "stop end" => ~Owes(a, "gatling = on")'
      /\ s = "gatling off" => ~Owes(a, "stop blink")'
      /\ s = "gatling = on" => a = "timer"
  BY <1>1 DEF GunOrder, Owes
<1>4. /\ "core1" \in Actor /\ "btstack" \in Actor /\ "timer" \in Actor
      /\ \A b \in Actor : b \in {"core1", "btstack", "timer"}
  BY DEF Actor
<1>5. a = "btstack" => \A w : ~Owes("timer", w)
  BY <1>1, NothingLeft DEF Runs, Owes
<1> HIDE DEF s
<1>6. \A b \in Actor : \A w : w # s => (Owes(b, w) => Owes(b, w)')
  BY <1>1
\* Somebody who will end the burst stays so.
<1>7. ASSUME end \/ Owes("core1", "start end") \/ \E b \in Actor : Owes(b, "gatling off"),
             s # "gatling off"
      PROVE  end' \/ Owes("core1", "start end")' \/ \E b \in Actor : Owes(b, "gatling off")'
  <2>1. CASE end
    BY <1>2, <1>3, <2>1, Zenon
  <2>2. CASE Owes("core1", "start end")
    BY <1>2, <1>4, <1>6, <2>2, Zenon
  <2>3. CASE \E b \in Actor : Owes(b, "gatling off")
    BY <1>6, <1>7, <2>3, Zenon
  <2> QED BY <1>7, <2>1, <2>2, <2>3, Zenon
<1>8. BurstGoesOut'
  <2> SUFFICES ASSUME gatling' \/ blink'
               PROVE  end' \/ Owes("core1", "start end")' \/ \E b \in Actor : Owes(b, "gatling off")'
    BY Zenon DEF BurstGoesOut
  <2>1. CASE s \in {"gatling on", "start blink"}
    BY <1>3, <2>1, Zenon
  <2>2. CASE s = "gatling = on"
    <3>1. end \/ Owes("btstack", "gatling off")
      BY <1>1, <1>3, <2>2, Zenon DEF BurstInv, BlinkFollowed
    <3> QED BY <1>4, <1>7, <2>2, <3>1, Zenon
  <2>3. CASE s = "gatling off"
    <3>1. Owes(a, "gatling off") /\ ~Owes(a, "stop blink")
      BY <1>1, <1>3, <2>3, Zenon
    <3>2. ~blink
      BY <3>1, Zenon DEF BurstInv, BlinkStopped
    <3> QED BY <1>2, <2>3, <3>2, Zenon
  <2>4. CASE s \notin {"gatling on", "start blink", "gatling = on", "gatling off"}
    <3>1. gatling \/ blink
      BY <1>2, <2>4, Zenon
    <3> QED BY <1>7, <2>4, <3>1, Zenon DEF BurstInv, BurstGoesOut
  <2> QED BY <2>1, <2>2, <2>3, <2>4
<1>9. BlinkFollowed'
  <2> SUFFICES ASSUME Owes("timer", "gatling = on")'
               PROVE  end' \/ Owes("btstack", "gatling off")'
    BY Zenon DEF BlinkFollowed
  <2>1. Owes("timer", "gatling = on")
    BY <1>1, <1>4, Zenon
  <2>2. end \/ Owes("btstack", "gatling off")
    BY <2>1, Zenon DEF BurstInv, BlinkFollowed
  <2>3. a # "btstack"
    BY <1>5, <2>1, Zenon
  <2>4. s # "stop end"
    <3>1. a = "timer" \/ a = "core1"
      BY <1>4, <2>3
    <3>2. ~Owes("core1", "start end")' /\ ~Owes("core1", "gatling off")'
      BY Zenon DEF Together
    <3> QED BY <1>3, <3>1, <3>2, Zenon
  <2>5. Owes("btstack", "gatling off") => Owes("btstack", "gatling off")'
    BY <1>1, <1>4, <2>3
  <2> QED BY <1>2, <2>2, <2>4, <2>5, Zenon
<1>10. BlinkStopped'
  <2> SUFFICES ASSUME NEW b \in Actor, Owes(b, "gatling off")', ~Owes(b, "stop blink")', blink'
               PROVE  FALSE
    BY Zenon DEF BlinkStopped
  <2>1. Owes(b, "gatling off")
    BY <1>1, Zenon
  <2>2. CASE s = "start blink"
    <3>1. a = "core1" /\ Owes("core1", "start end")' /\ ~Owes("core1", "gatling off")'
      BY <1>3, <2>2, Zenon
    <3>2. b = "btstack" \/ b = "timer"
      BY <1>4, <3>1
    <3> QED BY <3>1, <3>2, Zenon DEF Together
  <2>3. CASE s # "start blink"
    <3>1. blink /\ s # "stop blink"
      BY <1>2, <2>3, Zenon
    <3>2. Owes(b, "stop blink")
      BY <2>1, <3>1, Zenon DEF BurstInv, BlinkStopped
    <3> QED BY <1>6, <3>1, <3>2, Zenon
  <2> QED BY <2>2, <2>3
<1> QED BY <1>8, <1>9, <1>10, Zenon

LEMMA InitBurstInv == GunInit => BurstInv
<1> SUFFICES ASSUME GunInit PROVE BurstInv
  OBVIOUS
<1>1. ~gatling /\ ~blink /\ todo = Quiet
  BY DEF GunInit
<1>2. \A a \in Actor : \A w : ~Owes(a, w)
  BY <1>1, NothingLeft DEF Owes, Quiet
<1>3. "core1" \in Actor /\ "btstack" \in Actor /\ "timer" \in Actor
  BY DEF Actor
<1>4. ~Together /\ BlinkFollowed
  BY <1>2, <1>3, Zenon DEF Together, BlinkFollowed
<1> QED BY <1>1, <1>4, Zenon DEF BurstInv, BurstGoesOut, BlinkStopped

LEMMA StepBurstInv == GunInv /\ BurstInv /\ [GunNext]_gunVars => BurstInv'
<1> SUFFICES ASSUME GunInv, BurstInv, [GunNext]_gunVars PROVE BurstInv'
  OBVIOUS
<1> DEFINE Goal == BurstGoesOut' /\ BlinkFollowed' /\ BlinkStopped'
<1> HIDE DEF Goal
<1>1. ASSUME NEW a \in Actor, NEW f \in GunFunction[a], Calls(a, f),
             blink' => blink, gatling' => gatling,
             end => end' \/ (a = "timer" /\ f = gatling_stop_cb),
             f = gatling_blink_cb => blink, ~raced, ~Together'
      PROVE  Goal
  BY <1>1, BurstCall, Zenon DEF Goal
<1>2. ASSUME NEW a \in {"core1", "btstack"}, NEW f \in GunFunction[a], Calls(a, f),
             UNCHANGED <<timers, leds, s_gatling_on, held>>, ~raced, ~Together'
      PROVE  Goal
  <2>1. a \in Actor /\ a # "timer"
    BY DEF Actor
  <2>2. blink' = blink /\ gatling' = gatling /\ end' = end
    BY <1>2 DEF timers, leds
  <2>3. (blink' => blink) /\ (gatling' => gatling) /\ (end => end')
    BY <2>2, Zenon
  <2>4. f # gatling_blink_cb
    <3>1. ToSet(gatling_blink_cb) = {"load on", "store on", "gatling = on"}
      BY Guns, Zenon DEF Accesses
    <3> QED BY <2>1, <3>1, BurstFunctions
  <2> QED BY <1>1, <1>2, <2>1, <2>3, <2>4, Zenon
<1>3. ASSUME OffExpires, ~raced, ~Together' PROVE Goal
  <2>1. blink' = blink /\ gatling' = gatling /\ end' = end
    BY <1>3 DEF OffExpires, leds
  <2>2. (blink' => blink) /\ (gatling' => gatling) /\ (end => end')
    BY <2>1, Zenon
  <2>3. led_off_timer_cb # gatling_blink_cb
    BY Guns DEF Accesses
  <2>4. Calls("timer", led_off_timer_cb)
    BY <1>3, Zenon DEF OffExpires
  <2> QED BY <1>1, <1>3, <2>2, <2>3, <2>4, TimerFunctions, Zenon
<1>4. ASSUME BlinkExpires, ~raced, ~Together' PROVE Goal
  <2>1. blink' = blink /\ gatling' = gatling /\ end' = end
    BY <1>4 DEF BlinkExpires, timers, leds
  <2>2. (blink' => blink) /\ (gatling' => gatling) /\ (end => end')
    BY <2>1, Zenon
  <2>3. Calls("timer", gatling_blink_cb) /\ blink
    BY <1>4, Zenon DEF BlinkExpires
  <2> QED BY <1>1, <1>4, <2>2, <2>3, TimerFunctions, Zenon
<1>5. ASSUME EndExpires, ~raced, ~Together' PROVE Goal
  <2>1. blink' = blink /\ gatling' = gatling
    BY <1>5 DEF EndExpires, leds
  <2>2. (blink' => blink) /\ (gatling' => gatling)
    BY <2>1, Zenon
  <2>3. gatling_stop_cb # gatling_blink_cb
    BY Guns DEF Accesses, Cancels
  <2>4. Calls("timer", gatling_stop_cb)
    BY <1>5, Zenon DEF EndExpires
  <2> QED BY <1>1, <1>5, <2>2, <2>3, <2>4, TimerFunctions, Zenon
<1>6. ASSUME NEW a \in Actor, GunStep(a), ~raced, ~Together' PROVE Goal
  BY <1>6, BurstStatement, Zenon DEF Goal
<1>7. CASE GunNext
  <2>1. ~raced /\ ~Together' => Goal
    BY <1>2, <1>3, <1>4, <1>5, <1>6, <1>7, GunCases, Zenon
  <2>2. raced' = (Together' \/ (raced /\ ~Dark'))
    BY <1>7, Zenon DEF GunNext
  <2> QED BY <2>1, <2>2, BurstCalm, Zenon DEF Goal
<1>8. CASE UNCHANGED gunVars
  BY <1>8, Zenon DEF gunVars, timers, leds, BurstInv, Together, BurstGoesOut,
     BlinkFollowed, BlinkStopped, Owes
<1> QED BY <1>7, <1>8

\* Unless the two cores have been at the gatling together, a burst always has
\* somebody who will end it (rccar_laser.c:48-73, 175-197).
THEOREM BurstNeverStays == GunSpec => []BurstGoesOut
<1>1. BurstInv => BurstGoesOut
  BY DEF BurstInv
<1> QED BY <1>1, InitGunInv, InitBurstInv, StepGunInv, StepBurstInv, PTL DEF GunSpec

-----------------------------------------------------------------------------
(***************************************************************************)
(* The humidifier.                                                          *)
(***************************************************************************)
\* Three statements are left out and at least one remains.
LEMMA SkipStep ==
  ASSUME NEW S, NEW f \in Seq(S), NEW t \in Suffixes(f), t # <<>>, Len(t) >= 4
  PROVE  LET u == SubSeq(t, 4, Len(t)) IN
         /\ u \in Suffixes(f)
         /\ ToSet(u) \subseteq ToSet(t)
         /\ Last(f) \in ToSet(u)
<1>1. PICK l \in 1..Len(f) :
        /\ t \in Seq(S) /\ Len(t) = Len(f) - l + 1
        /\ \A i \in 1..Len(t) : t[i] = f[l + i - 1]
  BY SuffixIs
<1>2. PICK u : u = SubSeq(t, 4, Len(t))
  OBVIOUS
<1>3. /\ u \in Seq(S) /\ Len(u) = Len(t) - 3
      /\ \A i \in 1..Len(u) : u[i] = t[4 + i - 1]
  BY <1>1, <1>2
<1>4. PICK v : v = SubSeq(f, l + 3, Len(f))
  OBVIOUS
<1>5. l + 3 \in 1..Len(f)
  BY <1>1
<1>6. /\ v \in Seq(S) /\ Len(v) = Len(f) - (l + 3) + 1
      /\ \A i \in 1..Len(v) : v[i] = f[l + 3 + i - 1]
  BY <1>4, <1>5
<1>7. ASSUME NEW i \in 1..Len(u) PROVE u[i] = v[i] /\ u[i] \in ToSet(t)
  <2>1. /\ i \in 1..Len(v) /\ 4 + i - 1 \in 1..Len(t)
        /\ l + 3 + i - 1 = l + (4 + i - 1) - 1
    BY <1>1, <1>3, <1>6
  <2>2. u[i] = v[i]
    BY <1>1, <1>3, <1>6, <2>1
  <2> QED BY <1>1, <1>3, <2>1, <2>2, Members
<1>8. Len(u) = Len(v)
  BY <1>1, <1>3, <1>6
<1>9. u = v
  BY <1>3, <1>6, <1>7, <1>8, SeqEqual
<1>10. ToSet(u) \subseteq ToSet(t)
  BY <1>3, <1>7, Members
<1>11. Last(f) \in ToSet(u)
  <2>1. Len(v) \in 1..Len(v) /\ l + 3 + Len(v) - 1 = Len(f)
    BY <1>5, <1>6
  <2>2. v[Len(v)] = f[Len(f)]
    BY <1>6, <2>1
  <2> QED BY <1>6, <1>9, <2>1, <2>2, Members DEF Last
<1> QED BY <1>2, <1>4, <1>5, <1>9, <1>10, <1>11 DEF Suffixes

LEMMA Three ==
  ASSUME NEW S, NEW t \in Seq(S), t # <<>>,
         NEW a \in ToSet(Tail(t)), NEW b \in ToSet(Tail(t)), NEW c \in ToSet(Tail(t)),
         a # b, b # c, c # a
  PROVE  Len(t) >= 4
<1>1. PICK u : u = Tail(t)
  OBVIOUS
<1>2. u \in Seq(S) /\ Len(u) = Len(t) - 1
  BY <1>1
<1>3. PICK i \in 1..Len(u) : u[i] = a
  BY <1>1, <1>2, Members
<1>4. PICK j \in 1..Len(u) : u[j] = b
  BY <1>1, <1>2, Members
<1>5. PICK k \in 1..Len(u) : u[k] = c
  BY <1>1, <1>2, Members
<1>6. i # j /\ j # k /\ k # i
  BY <1>3, <1>4, <1>5
<1>7. Len(u) >= 3
  BY <1>2, <1>6
<1> QED BY <1>2, <1>7

\* The functions of the humidifier, cut behind their test.
LEMMA CutOn ==
  ASSUME NEW a, NEW b, NEW c, NEW d
  PROVE  <<a, b, c, d>> = <<a>> \o <<b, c, d>>
<1> DEFINE S == {a, b, c, d}
           t == <<a>> \o <<b, c, d>>
<1>1. a \in S /\ b \in S /\ c \in S /\ d \in S
  OBVIOUS
<1> HIDE DEF S
<1>2. <<a>> \in Seq(S) /\ <<b, c, d>> \in Seq(S)
  BY <1>1
<1>3. t \in Seq(S) /\ Len(t) = 4 /\ \A i \in 1..4 : t[i] = <<a, b, c, d>>[i]
  BY <1>2
<1>4. <<a, b, c, d>> \in Seq(S) /\ Len(<<a, b, c, d>>) = 4
  BY <1>1
<1> QED BY <1>3, <1>4, SeqEqual

TwoOrThree(a, b, c, d, e, g) ==
  <<a, b>> \o <<c, d, e, g>> = <<a, b, c>> \o <<d, e, g>>

LEMMA CutDisconnect ==
  ASSUME NEW a, NEW b, NEW c, NEW d, NEW e, NEW g
  PROVE  TwoOrThree(a, b, c, d, e, g)
<1> DEFINE S == {a, b, c, d, e, g}
           t == <<a, b>> \o <<c, d, e, g>>
           u == <<a, b, c>> \o <<d, e, g>>
           all == <<a, b, c, d, e, g>>
<1>1. a \in S /\ b \in S /\ c \in S /\ d \in S /\ e \in S /\ g \in S
  OBVIOUS
<1> HIDE DEF S
<1>2. all \in Seq(S) /\ Len(all) = 6
  BY <1>1
<1>3. /\ <<a, b>> \in Seq(S) /\ <<c, d, e, g>> \in Seq(S)
      /\ <<a, b, c>> \in Seq(S) /\ <<d, e, g>> \in Seq(S)
  BY <1>1
<1>4. t = all
  <2>1. t \in Seq(S) /\ Len(t) = 6 /\ \A i \in 1..6 : t[i] = all[i]
    BY <1>3
  <2> QED BY <1>2, <2>1, SeqEqual
<1>5. u = all
  <2>1. u \in Seq(S) /\ Len(u) = 6 /\ \A i \in 1..6 : u[i] = all[i]
    BY <1>3
  <2> QED BY <1>2, <2>1, SeqEqual
<1> QED BY <1>4, <1>5 DEF TwoOrThree

OneOrTwo(a, b, c, d, e, g) ==
  (<<a>> \o <<b, c, d, e>>) \o <<g>> = <<a, b>> \o <<c, d, e, g>>

LEMMA CutPulse ==
  ASSUME NEW a, NEW b, NEW c, NEW d, NEW e, NEW g
  PROVE  OneOrTwo(a, b, c, d, e, g)
<1> DEFINE S == {a, b, c, d, e, g}
           five == <<a, b, c, d, e>>
           all == <<a, b, c, d, e, g>>
           t == <<a>> \o <<b, c, d, e>>
           u == five \o <<g>>
           v == <<a, b>> \o <<c, d, e, g>>
<1>1. a \in S /\ b \in S /\ c \in S /\ d \in S /\ e \in S /\ g \in S
  OBVIOUS
<1> HIDE DEF S
<1>2. all \in Seq(S) /\ Len(all) = 6 /\ five \in Seq(S) /\ Len(five) = 5
  BY <1>1
<1>3. /\ <<a>> \in Seq(S) /\ <<b, c, d, e>> \in Seq(S) /\ <<g>> \in Seq(S)
      /\ <<a, b>> \in Seq(S) /\ <<c, d, e, g>> \in Seq(S)
  BY <1>1
<1>4. t = five
  <2>1. t \in Seq(S) /\ Len(t) = 5 /\ \A i \in 1..5 : t[i] = five[i]
    BY <1>3
  <2> QED BY <1>2, <2>1, SeqEqual
<1>5. u = all
  <2>1. u \in Seq(S) /\ Len(u) = 6 /\ \A i \in 1..6 : u[i] = all[i]
    BY <1>2, <1>3
  <2> QED BY <1>2, <2>1, SeqEqual
<1>6. v = all
  <2>1. v \in Seq(S) /\ Len(v) = 6 /\ \A i \in 1..6 : v[i] = all[i]
    BY <1>3
  <2> QED BY <1>2, <2>1, SeqEqual
<1> QED BY <1>4, <1>5, <1>6, Zenon DEF OneOrTwo

Ons == {"on = true", "pin high", "mist on"}
Offs == {"on = false", "pin low", "mist off"}
Pulses == {"on = true", "pin high", "mist on", "start restore"}
Leaving == {"disconnect", "stop x", "test off"}

\* What each function accesses, and the access it ends with; then the two parts
\* of those that test s_on.
LEMMA Mists ==
  /\ Accesses(On, {"test on"} \cup Ons, "mist on")
  /\ Accesses(Off, {"test off"} \cup Offs, "mist off")
  /\ Accesses(pulse_on_ms, {"stop restore", "test on"} \cup Pulses, "start restore")
  /\ Accesses(on_device_disconnected, Leaving \cup Offs, "mist off")
  /\ Accesses(handle_x_button_press, {"stop x", "start x"}, "start x")
  /\ Accesses(<<"connect">>, {"connect"}, "connect")
  /\ Accesses(anim_timer_cb, {"frame"}, "frame")
  /\ \E f, g : /\ On = f \o g /\ Accesses(f, {"test on"}, "test on")
              /\ Accesses(g, Ons, "mist on")
  /\ \E f, g : /\ Off = f \o g /\ Accesses(f, {"test off"}, "test off")
              /\ Accesses(g, Offs, "mist off")
  /\ \E f, g : /\ on_device_disconnected = f \o g /\ Accesses(f, Leaving, "test off")
              /\ Accesses(g, Offs, "mist off")
  /\ \E f, g : /\ pulse_on_ms = f \o g
              /\ Accesses(f, {"stop restore", "test on"}, "test on")
              /\ Accesses(g, Pulses, "start restore")
  /\ \E f, g : /\ pulse_on_ms = f \o g
              /\ Accesses(f, {"stop restore"} \cup ({"test on"} \cup Ons), "mist on")
              /\ Accesses(g, {"start restore"}, "start restore")
<1>1. /\ Accesses(<<"test on">>, {"test on"}, "test on")
      /\ Accesses(<<"test off">>, {"test off"}, "test off")
      /\ Accesses(<<"stop restore">>, {"stop restore"}, "stop restore")
      /\ Accesses(<<"start restore">>, {"start restore"}, "start restore")
      /\ Accesses(<<"connect">>, {"connect"}, "connect")
  BY Tuples, Zenon
<1>2. /\ Accesses(handle_x_button_press, {"stop x", "start x"}, "start x")
      /\ Accesses(anim_timer_cb, {"frame"}, "frame")
  BY Tuples, Zenon DEF handle_x_button_press, anim_timer_cb
<1>3. /\ Accesses(<<"on = true", "pin high", "mist on">>, Ons, "mist on")
      /\ Accesses(<<"on = false", "pin low", "mist off">>, Offs, "mist off")
      /\ Accesses(<<"disconnect", "stop x", "test off">>, Leaving, "test off")
  BY Tuples, Zenon DEF Ons, Offs, Leaving
<1>4. /\ Accesses(<<"stop restore", "test on">>, {"stop restore", "test on"}, "test on")
      /\ Accesses(<<"on = true", "pin high", "mist on", "start restore">>, Pulses, "start restore")
  BY Tuples, Zenon DEF Pulses
<1>5. /\ On = <<"test on">> \o <<"on = true", "pin high", "mist on">>
      /\ Off = <<"test off">> \o <<"on = false", "pin low", "mist off">>
  BY CutOn, Zenon DEF On, Off
<1>6. on_device_disconnected =
        <<"disconnect", "stop x", "test off">> \o <<"on = false", "pin low", "mist off">>
  <2>1. TwoOrThree("disconnect", "stop x", "test off", "on = false", "pin low", "mist off")
    BY CutDisconnect, Zenon
  <2> QED BY <2>1, Zenon DEF TwoOrThree, on_device_disconnected, Off
<1>7. pulse_on_ms = <<"stop restore", "test on">>
                     \o <<"on = true", "pin high", "mist on", "start restore">>
  <2>1. OneOrTwo("stop restore", "test on", "on = true", "pin high", "mist on", "start restore")
    BY CutPulse, Zenon
  <2> QED BY <2>1, Zenon DEF OneOrTwo, pulse_on_ms, On
<1>8. /\ Accesses(On, {"test on"} \cup Ons, "mist on")
      /\ Accesses(Off, {"test off"} \cup Offs, "mist off")
  BY <1>1, <1>3, <1>5, Joined, Zenon
<1>9. Accesses(pulse_on_ms, {"stop restore", "test on"} \cup Pulses, "start restore")
  BY <1>4, <1>7, Joined, Zenon
<1>10. Accesses(on_device_disconnected, Leaving \cup Offs, "mist off")
  BY <1>3, <1>6, Joined, Zenon
<1>11. Accesses(<<"stop restore">> \o On, {"stop restore"} \cup ({"test on"} \cup Ons), "mist on")
  BY <1>1, <1>8, Joined, Zenon
<1>12. pulse_on_ms = (<<"stop restore">> \o On) \o <<"start restore">>
  BY Zenon DEF pulse_on_ms
<1>13. \E f, g : /\ On = f \o g /\ Accesses(f, {"test on"}, "test on")
               /\ Accesses(g, Ons, "mist on")
  BY <1>1, <1>3, <1>5, Zenon
<1>14. \E f, g : /\ Off = f \o g /\ Accesses(f, {"test off"}, "test off")
               /\ Accesses(g, Offs, "mist off")
  BY <1>1, <1>3, <1>5, Zenon
<1>15. \E f, g : /\ on_device_disconnected = f \o g /\ Accesses(f, Leaving, "test off")
               /\ Accesses(g, Offs, "mist off")
  BY <1>3, <1>6, Zenon
<1>16. \E f, g : /\ pulse_on_ms = f \o g
               /\ Accesses(f, {"stop restore", "test on"}, "test on")
               /\ Accesses(g, Pulses, "start restore")
  BY <1>4, <1>7, Zenon
<1>17. \E f, g : /\ pulse_on_ms = f \o g
               /\ Accesses(f, {"stop restore"} \cup ({"test on"} \cup Ons), "mist on")
               /\ Accesses(g, {"start restore"}, "start restore")
  BY <1>1, <1>11, <1>12, Zenon
<1> QED BY <1>1, <1>2, <1>8, <1>9, <1>10, <1>13, <1>14, <1>15, <1>16, <1>17, Zenon

\* Whose function it is.
LEMMA MistFunctions ==
  ASSUME NEW a \in Actor, NEW f \in Function[a]
  PROVE  /\ f \in {On, Off, pulse_on_ms, on_device_disconnected,
                  handle_x_button_press, <<"connect">>, anim_timer_cb}
         /\ a = "core1" => f \in {pulse_on_ms, On, Off}
         /\ a = "btstack" => f \in {handle_x_button_press, on_device_disconnected, <<"connect">>}
         /\ a = "timer" => f \in {Off, pulse_on_ms, anim_timer_cb}
BY DEF Actor, Function, restore_timer_cb, humidifier_pulse_cb

\* Only core 1 switches the humidifier on without a timer.
LEMMA OnIsCore1 ==
  ASSUME NEW a \in Actor
  PROVE  (On \in Function[a] => a = "core1") /\ On # pulse_on_ms /\ On # Off
<1>1. /\ ToSet(On) = {"test on"} \cup Ons
      /\ ToSet(pulse_on_ms) = {"stop restore", "test on"} \cup Pulses
      /\ ToSet(Off) = {"test off"} \cup Offs
      /\ ToSet(handle_x_button_press) = {"stop x", "start x"}
      /\ ToSet(on_device_disconnected) = Leaving \cup Offs
      /\ ToSet(<<"connect">>) = {"connect"} /\ ToSet(anim_timer_cb) = {"frame"}
  BY Mists, Zenon DEF Accesses
<1>2. "pin high" \in Ons /\ "pin high" \notin Offs /\ "pin high" \notin Leaving
      /\ "stop restore" \notin Ons
  BY DEF Ons, Offs, Leaving
<1>3. /\ On # pulse_on_ms /\ On # Off /\ On # handle_x_button_press
      /\ On # on_device_disconnected /\ On # <<"connect">> /\ On # anim_timer_cb
  BY <1>1, <1>2
<1>4. On \in Function[a] => a # "btstack" /\ a # "timer"
  BY <1>3, MistFunctions
<1> QED BY <1>3, <1>4 DEF Actor

LEMMA ShortFunctions ==
  ASSUME NEW f \in {handle_x_button_press, <<"connect">>, anim_timer_cb}
  PROVE  \E M, m : Accesses(f, M, m) /\ M \subseteq {"stop x", "start x", "connect", "frame"}
<1>1. CASE f = handle_x_button_press
  BY <1>1, Mists
<1>2. CASE f = <<"connect">>
  BY <1>2, Mists
<1>3. CASE f = anim_timer_cb
  BY <1>3, Mists
<1> QED BY <1>1, <1>2, <1>3

\* A test has four statements or more before it.
LEMMA TestHasRoom ==
  ASSUME NEW a \in Actor, NEW F \in Function[a], NEW t \in Suffixes(F), t # <<>>,
         Head(t) \in {"test on", "test off"}
  PROVE  Len(t) >= 4
<1>1. \A N \in {Ons, Offs, Pulses} :
        /\ "test on" \notin N /\ "test off" \notin N
        /\ \E b, c, d : {b, c, d} \subseteq N /\ b # c /\ c # d /\ d # b
  <2> DEFINE Room(N) ==
        /\ "test on" \notin N /\ "test off" \notin N
        /\ \E b, c, d : {b, c, d} \subseteq N /\ b # c /\ c # d /\ d # b
  <2>1. ASSUME NEW N, NEW b, NEW c, NEW d,
               N = {b, c, d} \/ N = {b, c, d, "start restore"},
               b # c, c # d, d # b,
               {b, c, d} \cap {"test on", "test off"} = {}
        PROVE  Room(N)
    <3>1. /\ "test on" \notin N /\ "test off" \notin N /\ {b, c, d} \subseteq N
      BY <2>1
    <3> QED BY <2>1, <3>1, Zenon
  <2>2. "on = true" # "pin high" /\ "pin high" # "mist on" /\ "mist on" # "on = true"
        /\ {"on = true", "pin high", "mist on"} \cap {"test on", "test off"} = {}
    OBVIOUS
  <2>3. "on = false" # "pin low" /\ "pin low" # "mist off" /\ "mist off" # "on = false"
        /\ {"on = false", "pin low", "mist off"} \cap {"test on", "test off"} = {}
    OBVIOUS
  <2> HIDE DEF Room
  <2>4. Room(Ons)
    BY <2>1, <2>2, Zenon DEF Ons
  <2>5. Room(Offs)
    BY <2>1, <2>3, Zenon DEF Offs
  <2>6. Room(Pulses)
    BY <2>1, <2>2, Zenon DEF Pulses
  <2>7. ASSUME NEW N \in {Ons, Offs, Pulses} PROVE Room(N)
    BY <2>4, <2>5, <2>6
  <2> QED BY <2>7, Zenon DEF Room
<1>2. ASSUME NEW f, NEW M, NEW k, Accesses(f, M, k),
             NEW g, NEW N \in {Ons, Offs, Pulses}, NEW m, Accesses(g, N, m), F = f \o g
      PROVE  Len(t) >= 4
  <2>1. Head(t) \notin N
    BY <1>1
  <2>2. N \subseteq ToSet(Tail(t))
    BY <1>2, <2>1, Parts, Zenon
  <2>3. PICK b, c, d : {b, c, d} \subseteq N /\ b # c /\ c # d /\ d # b
    BY <1>1, Zenon
  <2>4. b \in ToSet(Tail(t)) /\ c \in ToSet(Tail(t)) /\ d \in ToSet(Tail(t))
    BY <2>2, <2>3
  <2>5. Accesses(F, M \cup N, m)
    BY <1>2, Joined, Zenon
  <2>6. F \in Seq(M \cup N)
    BY <2>5 DEF Accesses
  <2>7. t \in Seq(M \cup N)
    BY <2>6, SuffixIs
  <2> QED BY <2>3, <2>4, <2>7, Three, Zenon
<1>3. CASE F = On
  BY <1>2, <1>3, Mists, Zenon
<1>4. CASE F = Off
  BY <1>2, <1>4, Mists, Zenon
<1>5. CASE F = pulse_on_ms
  <2>1. PICK f, g : /\ pulse_on_ms = f \o g
                    /\ Accesses(f, {"stop restore", "test on"}, "test on")
                    /\ Accesses(g, Pulses, "start restore")
    BY Mists, Zenon
  <2> QED BY <1>2, <1>5, <2>1, Zenon
<1>6. CASE F = on_device_disconnected
  BY <1>2, <1>6, Mists, Zenon
<1>7. CASE F \in {handle_x_button_press, <<"connect">>, anim_timer_cb}
  <2>1. PICK M, m : Accesses(F, M, m) /\ M \subseteq {"stop x", "start x", "connect", "frame"}
    BY <1>7, ShortFunctions
  <2>2. Head(t) \in M
    BY <2>1, SuffixStep DEF Accesses
  <2> QED BY <2>1, <2>2
<1>8. F \in {On, Off, pulse_on_ms, on_device_disconnected,
            handle_x_button_press, <<"connect">>, anim_timer_cb}
  BY MistFunctions
<1> QED BY <1>3, <1>4, <1>5, <1>6, <1>7, <1>8

\* A test that skips.
Skips(s) == s = (IF s_on THEN "test on" ELSE "test off")

\* One statement of a function given by what it accesses.
LEMMA MistRest ==
  ASSUME NEW a \in Actor, NEW f \in Function[a], NEW M, NEW l, Accesses(f, M, l),
         NEW t \in Suffixes(f), t # <<>>
  PROVE  /\ Rest(t) \in Suffixes(f)
         /\ ToSet(Rest(t)) \subseteq ToSet(t) /\ ToSet(t) \subseteq M
         /\ Head(t) \in ToSet(t)
         /\ Head(t) # l => l \in ToSet(Rest(t))
         /\ ~Skips(Head(t)) => ToSet(t) = {Head(t)} \cup ToSet(Rest(t))
<1>1. f \in Seq(M) /\ ToSet(f) = M /\ Last(f) = l
  BY DEF Accesses
<1>2. /\ Tail(t) \in Suffixes(f)
      /\ ToSet(t) = {Head(t)} \cup ToSet(Tail(t))
      /\ ToSet(t) \subseteq M
      /\ Head(t) # l => l \in ToSet(Tail(t))
  BY <1>1, SuffixStep
<1>3. CASE Skips(Head(t))
  <2>1. Len(t) >= 4
    BY <1>3, TestHasRoom DEF Skips
  <2>2. Rest(t) = SubSeq(t, 4, Len(t))
    BY <1>3, Zenon DEF Rest, Skips
  <2>3. /\ SubSeq(t, 4, Len(t)) \in Suffixes(f)
        /\ ToSet(SubSeq(t, 4, Len(t))) \subseteq ToSet(t)
        /\ l \in ToSet(SubSeq(t, 4, Len(t)))
    BY <1>1, <2>1, SkipStep, Zenon
  <2> QED BY <1>2, <1>3, <2>2, <2>3
<1>4. CASE ~Skips(Head(t))
  <2>1. Rest(t) = Tail(t)
    BY <1>4, Zenon DEF Rest, Skips
  <2> QED BY <1>2, <2>1
<1> QED BY <1>3, <1>4

\* Where a statement of the humidifier stands, and what its function still owes.
MistOrder(a, s, all, rest) ==
  /\ s = "on = true" =>
       "start restore" \in rest \/ (a = "core1" /\ "start restore" \notin all)
  /\ s = "stop restore" => "start restore" \in rest
  /\ s = "start restore" => "on = true" \notin rest
  /\ "start restore" \in all => s = "start restore" \/ "start restore" \in rest
  /\ "on = false" \in all => s = "on = false" \/ "on = false" \in rest \/ ~s_on

LEMMA MistStatement ==
  ASSUME NEW a \in Actor, NEW f \in Function[a], NEW t \in Suffixes(f), t # <<>>
  PROVE  /\ Rest(t) \in Suffixes(f)
         /\ ToSet(Rest(t)) \subseteq ToSet(t) /\ Head(t) \in ToSet(t)
         /\ MistOrder(a, Head(t), ToSet(t), ToSet(Rest(t)))
<1>1. PICK s, all, rest : s = Head(t) /\ all = ToSet(t) /\ rest = ToSet(Rest(t))
  OBVIOUS
<1> DEFINE Common(M, l) ==
             /\ Rest(t) \in Suffixes(f)
             /\ rest \subseteq all /\ all \subseteq M /\ s \in all
             /\ s # l => l \in rest
             /\ ~Skips(s) => all = {s} \cup rest
<1>2. ASSUME NEW M, NEW l, Accesses(f, M, l) PROVE Common(M, l)
  BY <1>1, <1>2, MistRest
<1>3. ASSUME MistOrder(a, s, all, rest), NEW M, NEW l, Common(M, l)
      PROVE  /\ Rest(t) \in Suffixes(f)
             /\ ToSet(Rest(t)) \subseteq ToSet(t) /\ Head(t) \in ToSet(t)
             /\ MistOrder(a, Head(t), ToSet(t), ToSet(Rest(t)))
  BY <1>1, <1>3, Zenon
<1>4. CASE f = pulse_on_ms
  <2>1. Common({"stop restore", "test on"} \cup Pulses, "start restore")
    BY <1>2, <1>4, Mists, Zenon
  <2>2. s \notin {"stop restore"} \cup ({"test on"} \cup Ons) => all \subseteq {"start restore"}
    <3>1. PICK g, h : /\ pulse_on_ms = g \o h
                      /\ Accesses(g, {"stop restore"} \cup ({"test on"} \cup Ons), "mist on")
                      /\ Accesses(h, {"start restore"}, "start restore")
      BY Mists, Zenon
    <3> DEFINE M == {"stop restore"} \cup ({"test on"} \cup Ons)
               N == {"start restore"}
    <3>2. Accesses(g, M, "mist on") /\ Accesses(h, N, "start restore") /\ f = g \o h
      BY <1>4, <3>1, Zenon
    <3> HIDE DEF M, N
    <3>3. Head(t) \notin M => ToSet(t) \subseteq N
      BY <3>2, Parts, Zenon
    <3> QED BY <1>1, <3>3, Zenon DEF M, N
  <2>3. MistOrder(a, s, all, rest)
    BY <2>1, <2>2 DEF MistOrder, Pulses, Ons
  <2> QED BY <1>3, <2>1, <2>3, Zenon
<1>5. CASE f = On
  <2>1. Common({"test on"} \cup Ons, "mist on")
    BY <1>2, <1>5, Mists, Zenon
  <2>2. a = "core1"
    BY <1>5, OnIsCore1
  <2>3. MistOrder(a, s, all, rest)
    BY <2>1, <2>2 DEF MistOrder, Ons
  <2> QED BY <1>3, <2>1, <2>3, Zenon
<1>6. CASE f = Off
  <2>1. Common({"test off"} \cup Offs, "mist off")
    BY <1>2, <1>6, Mists, Zenon
  <2>2. MistOrder(a, s, all, rest)
    BY <2>1 DEF MistOrder, Offs, Skips
  <2> QED BY <1>3, <2>1, <2>2, Zenon
<1>7. CASE f = on_device_disconnected
  <2>1. Common(Leaving \cup Offs, "mist off")
    BY <1>2, <1>7, Mists, Zenon
  <2>2. MistOrder(a, s, all, rest)
    BY <2>1 DEF MistOrder, Offs, Leaving, Skips
  <2> QED BY <1>3, <2>1, <2>2, Zenon
<1>8. CASE f \in {handle_x_button_press, <<"connect">>, anim_timer_cb}
  <2>1. PICK M, l : Accesses(f, M, l) /\ M \subseteq {"stop x", "start x", "connect", "frame"}
    BY <1>8, ShortFunctions
  <2>2. Common(M, l)
    BY <1>2, <2>1, Zenon
  <2>3. MistOrder(a, s, all, rest)
    BY <2>1, <2>2 DEF MistOrder
  <2> QED BY <1>3, <2>2, <2>3, Zenon
<1> QED BY <1>4, <1>5, <1>6, <1>7, <1>8, MistFunctions

MistInv == Threaded /\ TypeOK

LEMMA MistLeft ==
  ASSUME MistInv, NEW a \in Actor, Step(a)
  PROVE  LET s == Head(todo[a]) IN
         /\ Threaded' /\ Effect(s) /\ acting' = acting
         /\ \A b \in Actor : \E f \in Function[b] : todo'[b] \in Suffixes(f)
         /\ \A b \in Actor \ {a} : \A w : Owes(b, w)' = Owes(b, w)
         /\ \A w : Owes(a, w)' => Owes(a, w)
         /\ Owes(a, s)
         /\ MistOrder(a, s, {w \in ToSet(todo[a]) : Owes(a, w)},
                      {w \in ToSet(todo[a]) : Owes(a, w)'})
<1> DEFINE s == Head(todo[a])
<1>1. PICK f \in Function[a] : todo[a] \in Suffixes(f)
  BY Zenon DEF MistInv, TypeOK
<1>2. todo[a] # <<>> /\ todo' = [todo EXCEPT ![a] = Rest(todo[a])]
      /\ Effect(s) /\ acting' = acting
  BY DEF Step, Runs
<1>3. /\ Threaded' /\ todo'[a] = Rest(todo[a])
      /\ \A b \in Actor \ {a} : todo'[b] = todo[b]
  BY <1>2, TodoStep DEF MistInv
<1>4. /\ Rest(todo[a]) \in Suffixes(f)
      /\ ToSet(Rest(todo[a])) \subseteq ToSet(todo[a]) /\ s \in ToSet(todo[a])
      /\ MistOrder(a, s, ToSet(todo[a]), ToSet(Rest(todo[a])))
  BY <1>1, <1>2, MistStatement, Zenon
<1>5. \A b \in Actor : \E g \in Function[b] : todo'[b] \in Suffixes(g)
  BY <1>1, <1>3, <1>4, Zenon DEF MistInv, TypeOK
<1>6. \A b \in Actor \ {a} : \A w : Owes(b, w)' = Owes(b, w)
  BY <1>3, Zenon DEF Owes
<1>7. (\A w : Owes(a, w)' => Owes(a, w)) /\ Owes(a, s)
  BY <1>3, <1>4 DEF Owes
<1>8. /\ {w \in ToSet(todo[a]) : Owes(a, w)} = ToSet(todo[a])
      /\ {w \in ToSet(todo[a]) : Owes(a, w)'} = ToSet(Rest(todo[a]))
  BY <1>3, <1>4 DEF Owes
<1> QED BY <1>2, <1>3, <1>4, <1>5, <1>6, <1>7, <1>8, Zenon

LEMMA MistCalls ==
  ASSUME MistInv, NEW a \in Actor, NEW f \in Function[a], Calls(a, f)
  PROVE  /\ Threaded' /\ \A w : ~Owes(a, w)
         /\ \A b \in Actor : \E g \in Function[b] : todo'[b] \in Suffixes(g)
         /\ \A b \in Actor \ {a} : \A w : Owes(b, w)' = Owes(b, w)
         /\ \A w : Owes(a, w)' <=> w \in ToSet(f)
<1>1. /\ Threaded' /\ todo[a] = <<>> /\ todo'[a] = f
      /\ \A b \in Actor \ {a} : todo'[b] = todo[b]
  BY CallsStep DEF MistInv
<1>2. \E M, l : Accesses(f, M, l)
  <2>1. CASE f \in {handle_x_button_press, <<"connect">>, anim_timer_cb}
    BY <2>1, ShortFunctions
  <2>2. CASE f \in {On, Off, pulse_on_ms, on_device_disconnected}
    BY <2>2, Mists
  <2> QED BY <2>1, <2>2, MistFunctions
<1>3. f \in Suffixes(f)
  BY <1>2, Whole, Zenon
<1>4. \A b \in Actor : \E g \in Function[b] : todo'[b] \in Suffixes(g)
  BY <1>1, <1>3, Zenon DEF MistInv, TypeOK
<1> QED BY <1>1, <1>4, NothingLeft DEF Owes

Wires ==
  /\ s_connected \in BOOLEAN /\ s_on \in BOOLEAN /\ pin \in BOOLEAN
  /\ restore \in BOOLEAN /\ x \in BOOLEAN /\ acting \in BOOLEAN
  /\ s_mist \in BOOLEAN /\ anim \in BOOLEAN
  /\ rmt \in {"idle", "busy"} /\ strip \in {"mist", "dark"}

LEMMA MistEffects ==
  ASSUME NEW s, Effect(s), Wires, acting' = acting
  PROVE  /\ Wires'
         /\ s_on' => s = "on = true" \/ (s_on /\ s # "on = false")
         /\ s = "start restore" => restore'
         /\ restore => restore' \/ s = "stop restore"
<1>1. /\ s_connected' \in BOOLEAN /\ s_on' \in BOOLEAN /\ pin' \in BOOLEAN
      /\ restore' \in BOOLEAN /\ x' \in BOOLEAN /\ acting' \in BOOLEAN
  BY DEF Effect, Set, Wires
<1>2. /\ s_on' => s = "on = true" \/ (s_on /\ s # "on = false")
      /\ s = "start restore" => restore'
      /\ restore => restore' \/ s = "stop restore"
  BY DEF Effect, Set, Wires
<1>3. /\ s_mist' \in BOOLEAN /\ anim' \in BOOLEAN
      /\ rmt' \in {"idle", "busy"} /\ strip' \in {"mist", "dark"}
  <2>1. CASE mist_on
    BY <2>1 DEF mist_on, Wires
  <2>2. CASE mist_off
    BY <2>2 DEF mist_off, flush_pixels, neopixel, Wires
  <2>3. CASE frame
    BY <2>3 DEF frame, flush_pixels, Wires
  <2>4. CASE UNCHANGED neopixel
    BY <2>4 DEF neopixel, Wires
  <2> QED BY <2>1, <2>2, <2>3, <2>4, Zenon DEF Effect, Strip
<1> QED BY <1>1, <1>2, <1>3 DEF Wires

\* A call of f by actor a, seen from the puff.
CallOf(a, f) ==
  /\ Calls(a, f) /\ Wires' /\ s_on' = s_on
  /\ restore => restore' \/ (a = "timer" /\ f = Off)
  /\ acting => acting' \/ (a = "core1" /\ f = Off)
  /\ a = "core1" /\ f = On => acting'

LEMMA MistCallCases ==
  ASSUME Wires, BtCalls \/ Core1Calls \/ RestoreExpires \/ XExpires \/ AnimExpires
  PROVE  \E a \in Actor : \E f \in Function[a] : CallOf(a, f)
<1>1. /\ "core1" \in Actor /\ "btstack" \in Actor /\ "timer" \in Actor
      /\ {pulse_on_ms, On, Off} \subseteq Function["core1"]
      /\ {handle_x_button_press, on_device_disconnected, <<"connect">>} \subseteq Function["btstack"]
      /\ {Off, pulse_on_ms, anim_timer_cb} \subseteq Function["timer"]
  BY DEF Actor, Function, restore_timer_cb, humidifier_pulse_cb
<1>2. CASE BtCalls
  <2>1. \E f \in Function["btstack"] : Calls("btstack", f)
    BY <1>1, <1>2, Zenon DEF BtCalls
  <2>2. Wires' /\ s_on' = s_on /\ (restore => restore') /\ (acting => acting')
    BY <1>2 DEF BtCalls, humidifier, neopixel, Wires
  <2> QED BY <1>1, <2>1, <2>2, Zenon DEF CallOf
<1>3. CASE Core1Calls
  <2>1. s_on' = s_on /\ restore' = restore
    BY <1>3 DEF Core1Calls, humidifier
  <2>2. Wires' /\ (restore => restore')
    BY <1>3 DEF Core1Calls, humidifier, neopixel, Wires
  <2>3. \/ Calls("core1", pulse_on_ms) /\ ~acting
        \/ Calls("core1", Off)
        \/ Calls("core1", On) /\ acting'
    BY <1>3, Zenon DEF Core1Calls
  <2>4. CASE Calls("core1", pulse_on_ms) /\ ~acting
    <3>1. CallOf("core1", pulse_on_ms)
      BY <2>1, <2>2, <2>4, <1>1, OnIsCore1, Zenon DEF CallOf
    <3> QED BY <1>1, <3>1, Zenon
  <2>5. CASE Calls("core1", Off)
    <3>1. CallOf("core1", Off)
      BY <2>1, <2>2, <2>5, <1>1, OnIsCore1, Zenon DEF CallOf
    <3> QED BY <1>1, <3>1, Zenon
  <2>6. CASE Calls("core1", On) /\ acting'
    <3>1. CallOf("core1", On)
      BY <2>1, <2>2, <2>6, Zenon DEF CallOf
    <3> QED BY <1>1, <3>1, Zenon
  <2> QED BY <2>3, <2>4, <2>5, <2>6
<1>4. CASE RestoreExpires
  <2>1. Calls("timer", Off) /\ s_on' = s_on
    BY <1>4, Zenon DEF RestoreExpires, restore_timer_cb
  <2>2. Wires' /\ (acting => acting')
    BY <1>4 DEF RestoreExpires, neopixel, Wires
  <2>3. CallOf("timer", Off)
    BY <2>1, <2>2, Zenon DEF CallOf
  <2> QED BY <1>1, <2>3, Zenon
<1>5. CASE XExpires
  <2>1. Calls("timer", pulse_on_ms) /\ s_on' = s_on
    BY <1>5, Zenon DEF XExpires, humidifier_pulse_cb
  <2>2. Wires' /\ (acting => acting') /\ (restore => restore')
    BY <1>5 DEF XExpires, neopixel, Wires
  <2>3. CallOf("timer", pulse_on_ms)
    BY <2>1, <2>2, Zenon DEF CallOf
  <2> QED BY <1>1, <2>3, Zenon
<1>6. CASE AnimExpires
  <2>1. Calls("timer", anim_timer_cb)
    BY <1>6, Zenon DEF AnimExpires
  <2>2. Wires' /\ s_on' = s_on /\ (acting => acting') /\ (restore => restore')
    BY <1>6 DEF AnimExpires, humidifier, neopixel, Wires
  <2>3. CallOf("timer", anim_timer_cb)
    BY <2>1, <2>2, Zenon DEF CallOf
  <2> QED BY <1>1, <2>3, Zenon
<1> QED BY <1>2, <1>3, <1>4, <1>5, <1>6

LEMMA InitMistInv == Init => MistInv
<1> SUFFICES ASSUME Init PROVE MistInv
  OBVIOUS
<1>1. todo = Quiet /\ \A a \in Actor : todo[a] = <<>>
  BY DEF Init, Quiet
<1>2. \A a \in Actor : \E f \in Function[a] : <<>> \in Suffixes(f)
  BY DEF Actor, Function, Suffixes
<1>3. Threaded
  BY <1>1 DEF Threaded, Quiet
<1>4. \A a \in Actor : \E f \in Function[a] : todo[a] \in Suffixes(f)
  BY <1>1, <1>2, Zenon
<1>5. Wires
  BY DEF Init, Wires
<1> QED BY <1>3, <1>4, <1>5, Zenon DEF MistInv, TypeOK, Wires

LEMMA StepMistInv == MistInv /\ [Next]_vars => MistInv'
<1> SUFFICES ASSUME MistInv, [Next]_vars PROVE MistInv'
  OBVIOUS
<1> DEFINE Placed == \A b \in Actor : \E g \in Function[b] : todo[b] \in Suffixes(g)
<1> HIDE DEF Placed
<1>1. Wires /\ Placed
  BY Zenon DEF MistInv, TypeOK, Wires, Placed
<1>2. ASSUME NEW a \in Actor, Step(a) PROVE Threaded' /\ Placed' /\ Wires'
  <2>1. Threaded' /\ Effect(Head(todo[a])) /\ acting' = acting /\ Placed'
    BY <1>2, MistLeft, Zenon DEF Placed
  <2> QED BY <1>1, <2>1, MistEffects, Zenon
<1>3. ASSUME NEW a \in Actor, NEW f \in Function[a], CallOf(a, f)
      PROVE  Threaded' /\ Placed' /\ Wires'
  BY <1>3, MistCalls, Zenon DEF CallOf, Placed
<1>4. ASSUME RmtDone \/ UNCHANGED vars PROVE Threaded' /\ Placed' /\ Wires'
  <2>1. todo' = todo
    BY <1>4 DEF RmtDone, vars
  <2>2. Wires'
    BY <1>1, <1>4 DEF RmtDone, vars, humidifier, neopixel, Wires
  <2> QED BY <1>1, <2>1, <2>2, Zenon DEF Threaded, Placed, MistInv
<1>5. Threaded' /\ Placed' /\ Wires'
  BY <1>1, <1>2, <1>3, <1>4, MistCallCases, Zenon DEF Next
<1> QED BY <1>5, Zenon DEF MistInv, TypeOK, Wires, Placed

\* The humidifier's threads are always inside one of their own functions, or
\* between two, and the strip shows one of its frames (rccar_humidifier.c:71-100,
\* rccar_neopixel.c:41-165).
THEOREM MistTyped == Spec => []TypeOK
<1>1. MistInv => TypeOK
  BY DEF MistInv
<1> QED BY <1>1, InitMistInv, StepMistInv, PTL DEF Spec

\* PuffEnds is not inductive: core 1 may be about to set the flag in a call that
\* starts no timer.  Such a call belongs to the MIST act, which is then on.
ActBegun == Owes("core1", "on = true") /\ ~Owes("core1", "start restore") => acting

PuffInv == PuffEnds /\ ActBegun

LEMMA PuffStatement ==
  ASSUME MistInv, PuffInv, NEW a \in Actor, Step(a)
  PROVE  PuffInv'
<1> DEFINE s == Head(todo[a])
<1>1. /\ Effect(s) /\ acting' = acting
      /\ \A b \in Actor \ {a} : \A w : Owes(b, w)' = Owes(b, w)
      /\ \A w : Owes(a, w)' => Owes(a, w)
      /\ Owes(a, s)
      /\ MistOrder(a, s, {w \in ToSet(todo[a]) : Owes(a, w)},
                   {w \in ToSet(todo[a]) : Owes(a, w)'})
  BY MistLeft, Zenon
<1>2. /\ s_on' => s = "on = true" \/ (s_on /\ s # "on = false")
      /\ s = "start restore" => restore'
      /\ restore => restore' \/ s = "stop restore"
  <2>1. Wires
    BY Zenon DEF MistInv, TypeOK, Wires
  <2> QED BY <1>1, <2>1, MistEffects, Zenon
<1>3. /\ s = "on = true" => Owes(a, "start restore")' \/ (a = "core1" /\ ~Owes(a, "start restore"))
      /\ s = "stop restore" => Owes(a, "start restore")'
      /\ s = "start restore" => ~Owes(a, "on = true")'
      /\ Owes(a, "start restore") => s = "start restore" \/ Owes(a, "start restore")'
      /\ Owes(a, "on = false") => s = "on = false" \/ Owes(a, "on = false")' \/ ~s_on
  BY <1>1 DEF MistOrder, Owes
<1>4. acting => acting'
  BY <1>1, Zenon
<1>5. "core1" \in Actor
  BY DEF Actor
<1> HIDE DEF s
<1>6. PuffEnds'
  <2> SUFFICES ASSUME s_on'
               PROVE  \/ restore' \/ acting' \/ \E b \in Actor : Owes(b, "start restore")'
                      \/ \E b \in Actor : Owes(b, "on = false")'
    BY Zenon DEF PuffEnds, Watched
  <2>1. CASE s = "on = true"
    <3>1. CASE Owes(a, "start restore")'
      BY <3>1, Zenon
    <3>2. CASE a = "core1" /\ ~Owes(a, "start restore")
      BY <1>1, <1>4, <2>1, <3>2, Zenon DEF PuffInv, ActBegun
    <3> QED BY <1>3, <2>1, <3>1, <3>2, Zenon
  <2>2. CASE s # "on = true"
    <3>1. s_on /\ s # "on = false"
      BY <1>2, <2>2, Zenon
    <3>2. restore \/ acting \/ (\E b \in Actor : Owes(b, "start restore"))
           \/ \E b \in Actor : Owes(b, "on = false")
      BY <3>1, Zenon DEF PuffInv, PuffEnds, Watched
    <3>3. CASE restore
      BY <1>2, <1>3, <3>3, Zenon
    <3>4. CASE acting
      BY <1>4, <3>4, Zenon
    <3>5. ASSUME NEW b \in Actor, Owes(b, "start restore")
          PROVE  restore' \/ Owes(b, "start restore")'
      <4>1. CASE b = a
        BY <1>2, <1>3, <3>5, <4>1, Zenon
      <4>2. CASE b # a
        BY <1>1, <3>5, <4>2
      <4> QED BY <4>1, <4>2
    <3>6. ASSUME NEW b \in Actor, Owes(b, "on = false")
          PROVE  Owes(b, "on = false")'
      <4>1. CASE b = a
        BY <1>3, <3>1, <3>6, <4>1, Zenon
      <4>2. CASE b # a
        BY <1>1, <3>6, <4>2
      <4> QED BY <4>1, <4>2
    <3> QED BY <3>2, <3>3, <3>4, <3>5, <3>6, Zenon
  <2> QED BY <2>1, <2>2
<1>7. ActBegun'
  <2> SUFFICES ASSUME Owes("core1", "on = true")', ~Owes("core1", "start restore")'
               PROVE  acting'
    BY Zenon DEF ActBegun
  <2>1. Owes("core1", "on = true") /\ ~Owes("core1", "start restore")
    <3>1. CASE a = "core1"
      BY <1>1, <1>3, <3>1, Zenon
    <3>2. CASE a # "core1"
      BY <1>1, <1>5, <3>2
    <3> QED BY <3>1, <3>2
  <2> QED BY <1>4, <2>1, Zenon DEF PuffInv, ActBegun
<1> QED BY <1>6, <1>7, Zenon DEF PuffInv

LEMMA PuffCall ==
  ASSUME MistInv, PuffInv, NEW a \in Actor, NEW f \in Function[a], CallOf(a, f)
  PROVE  PuffInv'
<1>1. /\ \A w : ~Owes(a, w)
      /\ \A b \in Actor \ {a} : \A w : Owes(b, w)' = Owes(b, w)
      /\ \A w : Owes(a, w)' <=> w \in ToSet(f)
  BY MistCalls, Zenon DEF CallOf
<1>2. \A b \in Actor : \A w : Owes(b, w) => Owes(b, w)'
  BY <1>1
<1>3. s_on' => s_on
  <2>1. s_on' = s_on
    BY Zenon DEF CallOf
  <2> QED BY <2>1, Zenon
<1>4. "core1" \in Actor
  BY DEF Actor
<1>5. f = Off => Owes(a, "on = false")'
  <2>1. ToSet(Off) = {"test off"} \cup Offs
    BY Mists, Zenon DEF Accesses
  <2> QED BY <1>1, <2>1 DEF Offs
<1>6. PuffEnds'
  <2> SUFFICES ASSUME s_on'
               PROVE  \/ restore' \/ acting' \/ \E b \in Actor : Owes(b, "start restore")'
                      \/ \E b \in Actor : Owes(b, "on = false")'
    BY Zenon DEF PuffEnds, Watched
  <2>1. restore \/ acting \/ (\E b \in Actor : Owes(b, "start restore"))
         \/ \E b \in Actor : Owes(b, "on = false")
    BY <1>3, Zenon DEF PuffInv, PuffEnds, Watched
  <2>2. (restore => restore' \/ f = Off) /\ (acting => acting' \/ f = Off)
    BY Zenon DEF CallOf
  <2> QED BY <1>2, <1>5, <2>1, <2>2, Zenon
<1>7. ActBegun'
  <2> SUFFICES ASSUME Owes("core1", "on = true")', ~Owes("core1", "start restore")'
               PROVE  acting'
    BY Zenon DEF ActBegun
  <2>1. CASE a = "core1"
    <3>1. /\ ToSet(Off) = {"test off"} \cup Offs
          /\ ToSet(pulse_on_ms) = {"stop restore", "test on"} \cup Pulses
      BY Mists, Zenon DEF Accesses
    <3>2. "on = true" \notin ToSet(Off) /\ "start restore" \in ToSet(pulse_on_ms)
      BY <3>1 DEF Offs, Pulses
    <3>3. "on = true" \in ToSet(f) /\ "start restore" \notin ToSet(f)
      BY <1>1, <2>1, Zenon
    <3>4. f = On
      BY <2>1, <3>2, <3>3, MistFunctions
    <3> QED BY <2>1, <3>4, Zenon DEF CallOf
  <2>2. CASE a # "core1"
    <3>1. Owes("core1", "on = true") /\ ~Owes("core1", "start restore")
      BY <1>1, <1>4, <2>2
    <3>2. acting => acting'
      BY <2>2, Zenon DEF CallOf
    <3> QED BY <3>1, <3>2, Zenon DEF PuffInv, ActBegun
  <2> QED BY <2>1, <2>2
<1> QED BY <1>6, <1>7, Zenon DEF PuffInv

LEMMA InitPuffInv == Init => PuffInv
<1> SUFFICES ASSUME Init PROVE PuffInv
  OBVIOUS
<1>1. ~s_on /\ todo["core1"] = <<>>
  BY DEF Init, Quiet, Actor
<1>2. ~Owes("core1", "on = true")
  BY <1>1, NothingLeft DEF Owes
<1> QED BY <1>1, <1>2, Zenon DEF PuffInv, PuffEnds, ActBegun

LEMMA StepPuffInv == MistInv /\ PuffInv /\ [Next]_vars => PuffInv'
<1> SUFFICES ASSUME MistInv, PuffInv, [Next]_vars PROVE PuffInv'
  OBVIOUS
<1>1. ASSUME NEW a \in Actor, Step(a) PROVE PuffInv'
  BY <1>1, PuffStatement, Zenon
<1>2. ASSUME BtCalls \/ Core1Calls \/ RestoreExpires \/ XExpires \/ AnimExpires
      PROVE  PuffInv'
  <2>1. Wires
    BY Zenon DEF MistInv, TypeOK, Wires
  <2>2. PICK a \in Actor : \E f \in Function[a] : CallOf(a, f)
    BY <1>2, <2>1, MistCallCases, Zenon
  <2> QED BY <2>2, PuffCall, Zenon
<1>3. ASSUME RmtDone \/ UNCHANGED vars PROVE PuffInv'
  <2>1. UNCHANGED <<todo, s_on, restore, acting>>
    BY <1>3 DEF RmtDone, vars, humidifier
  <2> QED BY <2>1, Zenon DEF PuffInv, PuffEnds, ActBegun, Watched, Owes
<1> QED BY <1>1, <1>2, <1>3, Zenon DEF Next

\* A humidifier that believes itself on has somebody who will end it, whichever
\* thread is where (rccar_humidifier.c:71-100, my_platform.c:541-549).
THEOREM EveryPuffEnds == Spec => []PuffEnds
<1>1. PuffInv => PuffEnds
  BY DEF PuffInv
<1> QED BY <1>1, InitMistInv, InitPuffInv, StepMistInv, StepPuffInv, PTL DEF Spec
=============================================================================
