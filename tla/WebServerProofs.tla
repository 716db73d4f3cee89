---------------------------- MODULE WebServerProofs ----------------------------
(***************************************************************************)
(* Proofs about WebServer, for any set of modules, queues and histories of *)
(* any length and any number of updates and breaks: what a connected       *)
(* browser is going to show, and the samples it is going to draw.          *)
(*                                                                         *)
(* Both properties are about a page that has received everything under     *)
(* way, which After computes by recursion over the messages.  What is      *)
(* needed of it is proved by induction over their number, from the fact    *)
(* that a set of numbers has a least element (WFMin of the library).       *)
(***************************************************************************)
EXTENDS WebServer, SequenceTheorems, WellFoundedInduction, TLAPS

(* Types, and what a message does to a page *)

\* A partial function of the modules; what a page shows and draws; what the
\* server sends.
Values == [seen : BOOLEAN, online : BOOLEAN, value : Nat]
Known == UNION {[S -> Values] : S \in SUBSET Modules}
Views == [shown : Known, plotted : Seq(Nat)]

Messages ==
  [type : {"module_list"}, modules : Known]
    \cup [type : {"history"}, samples : Seq(Nat)]
    \cup [type : {"module_state"}, module : Modules, value : Values]
    \cup [type : {"pressure_sample"}, number : Nat]
    \cup [type : {"command_result"}]

\* A message that changes what a page shows of a module, or what it draws.
Touches(message, m) == m \in About(message) \/ (m = Gauge /\ message.type = "pressure_sample")
Draws(message) == message.type \in {"history", "pressure_sample"}
-----------------------------------------------------------------------------
(* Induction over numbers of messages *)

\* A set of numbers that is not empty has a least element.
LEMMA LeastNumber ==
  ASSUME NEW T, T \subseteq Nat, T # {}
  PROVE  \E x \in T : \A y \in T : x <= y
  <1> DEFINE R == OpToRel(<, Nat)
  <1>1. IsWellFoundedOn(R, Nat)
    BY NatLessThanWellFounded
  <1>2. \A x, y \in Nat : y < x => <<y, x>> \in R
    BY DEF OpToRel
  <1> HIDE DEF R
  <1>3. PICK x \in T : \A y \in T : ~ (<<y, x>> \in R)
    BY <1>1, WFMin
  <1>4. ASSUME NEW y \in T PROVE x <= y
    <2>1. x \in Nat /\ y \in Nat /\ ~ (<<y, x>> \in R)
      BY <1>3
    <2>2. ~ (y < x)
      BY <1>2, <2>1
    <2>3. QED
      BY <2>1, <2>2
  <1>5. QED
    BY <1>4

\* What holds of none of n messages, and of one more whenever it holds of some,
\* holds of all of them.
LEMMA AllNumbers ==
  ASSUME NEW n \in Nat, NEW T, 0 \in T, \A k \in 0 .. n - 1 : k \in T => k + 1 \in T
  PROVE  \A k \in 0 .. n : k \in T
  <1> SUFFICES ASSUME NEW k \in 0 .. n, k \notin T PROVE FALSE
    OBVIOUS
  <1> DEFINE U == {x \in 0 .. n : x \notin T}
  <1>1. U \subseteq Nat /\ U # {}
    OBVIOUS
  <1>2. PICK x \in U : \A y \in U : x <= y
    <2> HIDE DEF U
    <2>1. QED
      BY <1>1, LeastNumber
  <1>3. x \in 0 .. n /\ x \notin T /\ x # 0
    BY <1>2
  <1>4. x - 1 \in 0 .. n - 1 /\ x - 1 \notin U
    BY <1>2, <1>3
  <1>5. x - 1 \in T
    BY <1>4
  <1>6. QED
    BY <1>3, <1>4, <1>5
-----------------------------------------------------------------------------
(* What a page makes of some messages *)

\* The views that a page goes through.
Passes(f, view, messages) ==
  /\ f[0] = view
  /\ \A k \in 1 .. Len(messages) : f[k] = Applied(messages[k], f[k - 1])

\* The same, as a function of no more than the numbers of messages.
Run(f, view, messages, n) ==
  /\ f = [k \in 0 .. n |-> f[k]]
  /\ \A k \in 0 .. n : f[k] = IF k = 0 THEN view ELSE Applied(messages[k], f[k - 1])

LEMMA RunExists ==
  ASSUME NEW view, NEW messages, NEW n \in Nat
  PROVE  \E f : Run(f, view, messages, n)
  <1> DEFINE T == {i \in 0 .. n : \E f : Run(f, view, messages, i)}
  <1>1. 0 \in T
    <2>1. Run([k \in 0 .. 0 |-> view], view, messages, 0)
      BY DEF Run
    <2>2. QED
      BY <2>1
  <1>2. ASSUME NEW i \in 0 .. n - 1, i \in T PROVE i + 1 \in T
    <2>1. PICK g : Run(g, view, messages, i)
      BY <1>2
    <2>2. \A k \in 0 .. i : g[k] = IF k = 0 THEN view ELSE Applied(messages[k], g[k - 1])
      BY <2>1 DEF Run
    <2> DEFINE f == [k \in 0 .. i + 1 |-> IF k = i + 1 THEN Applied(messages[i + 1], g[i]) ELSE g[k]]
    <2>3. ASSUME NEW k \in 0 .. i + 1
          PROVE  f[k] = IF k = 0 THEN view ELSE Applied(messages[k], f[k - 1])
      <3>1. CASE k = i + 1
        BY <3>1
      <3>2. CASE k # i + 1
        <4>1. k \in 0 .. i /\ f[k] = g[k]
          BY <3>2
        <4>2. k # 0 => k - 1 \in 0 .. i /\ f[k - 1] = g[k - 1]
          BY <4>1
        <4>3. QED
          BY <2>2, <4>1, <4>2
      <3>3. QED
        BY <3>1, <3>2
    <2>4. f = [k \in 0 .. i + 1 |-> f[k]]
      OBVIOUS
    <2> HIDE DEF f
    <2>5. Run(f, view, messages, i + 1)
      BY <2>3, <2>4 DEF Run
    <2>6. QED
      BY <2>5
  <1>3. n \in T
    <2> HIDE DEF T
    <2>1. QED
      BY <1>1, <1>2, AllNumbers
  <1>4. QED
    BY <1>3

LEMMA PassesExist ==
  ASSUME NEW S, NEW messages \in Seq(S), NEW view
  PROVE  \E f : Passes(f, view, messages)
  <1> DEFINE n == Len(messages)
  <1>1. n \in Nat
    OBVIOUS
  <1>2. PICK f : Run(f, view, messages, n)
    BY <1>1, RunExists
  <1>3. f[0] = view
    BY <1>2 DEF Run
  <1>4. \A k \in 1 .. Len(messages) : f[k] = Applied(messages[k], f[k - 1])
    BY <1>2 DEF Run
  <1>5. QED
    BY <1>3, <1>4 DEF Passes

LEMMA AfterPasses ==
  ASSUME NEW S, NEW messages \in Seq(S), NEW view, NEW f, Passes(f, view, messages)
  PROVE  After(view, messages) = f[Len(messages)]
  <1> DEFINE n == Len(messages)
             Solves(g) ==
               g = [k \in 0 .. n |-> IF k = 0 THEN view ELSE Applied(messages[k], g[k - 1])]
             c == CHOOSE g : Solves(g)
             T == {k \in 0 .. n : c[k] = f[k]}
  <1>1. n \in Nat
    OBVIOUS
  <1>2. After(view, messages) = c[n]
    BY DEF After
  <1>3. Solves(c)
    <2>1. PICK g : Run(g, view, messages, n)
      BY <1>1, RunExists
    <2>2. Solves(g)
      BY <2>1 DEF Run
    <2> HIDE DEF Solves
    <2>3. QED
      BY <2>2
  <1>4. \A k \in 0 .. n : c[k] = IF k = 0 THEN view ELSE Applied(messages[k], c[k - 1])
    <2> HIDE DEF c
    <2>1. QED
      BY <1>3
  <1> HIDE DEF c
  <1>5. 0 \in T
    BY <1>1, <1>4 DEF Passes
  <1>6. ASSUME NEW k \in 0 .. n - 1, k \in T PROVE k + 1 \in T
    <2>1. k + 1 \in 0 .. n /\ k + 1 \in 1 .. n /\ (k + 1) - 1 = k /\ k + 1 # 0
      BY <1>1
    <2>2. c[k + 1] = Applied(messages[k + 1], c[k])
      BY <1>4, <2>1
    <2>3. f[k + 1] = Applied(messages[k + 1], f[k])
      BY <2>1 DEF Passes
    <2>4. QED
      BY <1>6, <2>1, <2>2, <2>3
  <1> HIDE DEF T, n
  <1>7. \A k \in 0 .. n : k \in T
    BY <1>1, <1>5, <1>6, AllNumbers
  <1>8. QED
    BY <1>1, <1>2, <1>7 DEF T, n

LEMMA AfterEmpty ==
  ASSUME NEW view
  PROVE  After(view, <<>>) = view
  <1>1. <<>> \in Seq({}) /\ Len(<<>>) = 0
    OBVIOUS
  <1>2. Passes([k \in {0} |-> view], view, <<>>)
    BY <1>1 DEF Passes
  <1>3. QED
    BY <1>1, <1>2, AfterPasses

LEMMA AfterOne ==
  ASSUME NEW view, NEW S, NEW message \in S
  PROVE  After(view, <<message>>) = Applied(message, view)
  <1> DEFINE f == [k \in 0 .. 1 |-> IF k = 0 THEN view ELSE Applied(message, view)]
             s == <<message>>
  <1>1. s \in Seq(S) /\ Len(s) = 1 /\ s[1] = message
    OBVIOUS
  <1>2. f[0] = view /\ f[1] = Applied(message, view)
    OBVIOUS
  <1> HIDE DEF f, s
  <1>3. Passes(f, view, s)
    BY <1>1, <1>2 DEF Passes
  <1>4. After(view, s) = f[Len(s)]
    BY <1>1, <1>3, AfterPasses
  <1>5. QED
    BY <1>1, <1>2, <1>4 DEF s

\* First one part of the messages, then the rest.
LEMMA AfterConcat ==
  ASSUME NEW S, NEW s \in Seq(S), NEW t \in Seq(S), NEW view
  PROVE  After(view, s \o t) = After(After(view, s), t)
  <1>1. /\ s \o t \in Seq(S) /\ Len(s \o t) = Len(s) + Len(t)
        /\ Len(s) \in Nat /\ Len(t) \in Nat
        /\ \A k \in 1 .. Len(s) : (s \o t)[k] = s[k]
        /\ \A k \in 1 .. Len(t) : (s \o t)[Len(s) + k] = t[k]
    BY ConcatProperties
  <1>2. PICK f : Passes(f, view, s \o t)
    BY <1>1, PassesExist
  <1>3. Passes(f, view, s)
    <2>1. ASSUME NEW k \in 1 .. Len(s) PROVE f[k] = Applied(s[k], f[k - 1])
      <3>1. k \in 1 .. Len(s \o t)
        BY <1>1
      <3>2. QED
        BY <1>1, <1>2, <3>1 DEF Passes
    <2>2. QED
      BY <1>2, <2>1 DEF Passes
  <1>4. After(view, s) = f[Len(s)]
    BY <1>3, AfterPasses
  <1> DEFINE g == [k \in 0 .. Len(t) |-> f[Len(s) + k]]
  <1>5. Passes(g, f[Len(s)], t)
    <2>1. g[0] = f[Len(s)]
      BY <1>1
    <2>2. ASSUME NEW k \in 1 .. Len(t) PROVE g[k] = Applied(t[k], g[k - 1])
      <3>1. /\ Len(s) + k \in 1 .. Len(s \o t) /\ (Len(s) + k) - 1 = Len(s) + (k - 1)
            /\ k - 1 \in 0 .. Len(t) /\ k \in 0 .. Len(t)
        BY <1>1
      <3>2. f[Len(s) + k] = Applied(t[k], f[Len(s) + (k - 1)])
        BY <1>1, <1>2, <3>1 DEF Passes
      <3>3. QED
        BY <3>1, <3>2
    <2>3. QED
      BY <2>1, <2>2 DEF Passes
  <1> HIDE DEF g
  <1>6. After(After(view, s), t) = g[Len(t)]
    BY <1>4, <1>5, AfterPasses
  <1>7. g[Len(t)] = f[Len(s) + Len(t)]
    BY <1>1 DEF g
  <1>8. After(view, s \o t) = f[Len(s \o t)]
    BY <1>1, <1>2, AfterPasses
  <1>9. QED
    BY <1>1, <1>6, <1>7, <1>8

\* What every message keeps, all of them keep: Q[k] is what holds after k.
LEMMA AfterKeeps ==
  ASSUME NEW S, NEW messages \in Seq(S), NEW view, NEW Q, view \in Q[0],
         \A k \in 1 .. Len(messages) : \A u \in Q[k - 1] : Applied(messages[k], u) \in Q[k]
  PROVE  After(view, messages) \in Q[Len(messages)]
  <1> DEFINE n == Len(messages)
  <1>1. n \in Nat
    OBVIOUS
  <1>2. PICK f : Passes(f, view, messages)
    BY PassesExist
  <1> DEFINE T == {k \in 0 .. n : f[k] \in Q[k]}
  <1>3. 0 \in T
    BY <1>1, <1>2 DEF Passes
  <1>4. ASSUME NEW k \in 0 .. n - 1, k \in T PROVE k + 1 \in T
    <2>1. k + 1 \in 1 .. n /\ (k + 1) - 1 = k /\ k + 1 \in 0 .. n
      BY <1>1
    <2>2. f[k + 1] = Applied(messages[k + 1], f[k])
      BY <1>2, <2>1 DEF Passes
    <2>3. f[k] \in Q[(k + 1) - 1]
      BY <1>4, <2>1
    <2>4. f[k + 1] \in Q[k + 1]
      BY <2>1, <2>2, <2>3
    <2>5. QED
      BY <2>1, <2>4
  <1> HIDE DEF T, n
  <1>5. \A k \in 0 .. n : k \in T
    BY <1>1, <1>3, <1>4, AllNumbers
  <1>6. f[n] \in Q[n]
    BY <1>1, <1>5 DEF T
  <1>7. QED
    BY <1>2, <1>6, AfterPasses DEF n
-----------------------------------------------------------------------------
(* What one message does *)

LEMMA MessageCases ==
  ASSUME NEW message \in Messages
  PROVE  \/ message.type = "module_list" /\ message.modules \in Known
         \/ message.type = "history" /\ message.samples \in Seq(Nat)
         \/ /\ message.type = "module_state"
            /\ message.module \in Modules /\ message.value \in Values
         \/ message.type = "pressure_sample" /\ message.number \in Nat
         \/ message.type = "command_result"
  BY DEF Messages

LEMMA KnownFacts ==
  ASSUME NEW modules \in Known
  PROVE  /\ DOMAIN modules \subseteq Modules
         /\ \A m \in DOMAIN modules : modules[m] \in Values
         /\ modules = [m \in DOMAIN modules |-> modules[m]]
  BY DEF Known

LEMMA KnownIntro ==
  ASSUME NEW D, D \subseteq Modules, NEW f, f = [m \in D |-> f[m]],
         \A m \in D : f[m] \in Values
  PROVE  f \in Known
  <1>1. f \in [D -> Values]
    OBVIOUS
  <1>2. QED
    BY <1>1 DEF Known

LEMMA EmptyKnown == Empty \in Known
  BY DEF Known, Empty

\* One module is set, and the others stay.
LEMMA WithFacts ==
  ASSUME NEW modules \in Known, NEW m \in Modules, NEW value \in Values
  PROVE  /\ With(modules, m, value) \in Known
         /\ DOMAIN With(modules, m, value) = DOMAIN modules \cup {m}
         /\ With(modules, m, value)[m] = value
         /\ \A k \in DOMAIN modules : k # m => With(modules, m, value)[k] = modules[k]
  <1> DEFINE w == With(modules, m, value)
             D == DOMAIN modules \cup {m}
  <1>1. w = [k \in D |-> IF k = m THEN value ELSE modules[k]]
    BY DEF With
  <1>2. \A k \in D : w[k] = IF k = m THEN value ELSE modules[k]
    BY <1>1
  <1>3. D \subseteq Modules /\ w = [k \in D |-> w[k]] /\ DOMAIN w = D
    BY <1>1, KnownFacts
  <1>4. \A k \in D : w[k] \in Values
    BY <1>2, KnownFacts
  <1>5. QED
    <2> HIDE DEF w, D
    <2>1. w \in Known
      BY <1>3, <1>4, KnownIntro
    <2>2. QED
      BY <1>2, <1>3, <2>1 DEF w, D

LEMMA MergedFacts ==
  ASSUME NEW modules \in Known, NEW new \in Known
  PROVE  /\ Merged(modules, new) \in Known
         /\ DOMAIN Merged(modules, new) = DOMAIN modules \cup DOMAIN new
         /\ \A m \in DOMAIN new : Merged(modules, new)[m] = new[m]
         /\ \A m \in DOMAIN modules \ DOMAIN new : Merged(modules, new)[m] = modules[m]
  <1> DEFINE w == Merged(modules, new)
             D == DOMAIN modules \cup DOMAIN new
  <1>1. w = [m \in D |-> IF m \in DOMAIN new THEN new[m] ELSE modules[m]]
    BY DEF Merged
  <1>2. \A k \in D : w[k] = IF k \in DOMAIN new THEN new[k] ELSE modules[k]
    BY <1>1
  <1>3. D \subseteq Modules /\ w = [k \in D |-> w[k]] /\ DOMAIN w = D
    BY <1>1, KnownFacts
  <1>4. \A k \in D : w[k] \in Values
    BY <1>2, KnownFacts
  <1>5. QED
    <2> HIDE DEF w, D
    <2>1. w \in Known
      BY <1>3, <1>4, KnownIntro
    <2>2. QED
      BY <1>2, <1>3, <2>1 DEF w, D

\* A message tells that module m is as v.
Tells(message, m, v) ==
  \/ message.type = "module_list" /\ m \in DOMAIN message.modules /\ message.modules[m] = v
  \/ message.type = "module_state" /\ message.module = m /\ message.value = v

\* The page shows a message's modules as it tells them, and leaves a module
\* that the message does not touch.
LEMMA ShownFacts ==
  ASSUME NEW message \in Messages, NEW modules \in Known
  PROVE  /\ Shown(message, modules) \in Known
         /\ \A m \in Modules : \A v : Tells(message, m, v) =>
              m \in DOMAIN Shown(message, modules) /\ Shown(message, modules)[m] = v
         /\ \A m \in DOMAIN modules : ~Touches(message, m) =>
              m \in DOMAIN Shown(message, modules) /\ Shown(message, modules)[m] = modules[m]
  <1>1. CASE message.type = "module_list"
    <2> DEFINE w == Shown(message, modules)
               new == message.modules
    <2>1. w = Merged(modules, new) /\ new \in Known
      BY <1>1, MessageCases DEF Shown
    <2>2. \A m : ~Touches(message, m) => m \notin DOMAIN new
      BY <1>1 DEF Touches, About
    <2>3. \A m, v : Tells(message, m, v) => m \in DOMAIN new /\ new[m] = v
      BY <1>1 DEF Tells
    <2> HIDE DEF w, new
    <2>4. /\ w \in Known /\ DOMAIN w = DOMAIN modules \cup DOMAIN new
          /\ \A m \in DOMAIN new : w[m] = new[m]
          /\ \A m \in DOMAIN modules \ DOMAIN new : w[m] = modules[m]
      BY <2>1, MergedFacts
    <2>5. QED
      BY <2>2, <2>3, <2>4 DEF w
  <1>2. CASE message.type = "module_state"
    <2>1. /\ Shown(message, modules) = With(modules, message.module, message.value)
          /\ message.module \in Modules /\ message.value \in Values
      BY <1>2, MessageCases DEF Shown
    <2>2. \A m : ~Touches(message, m) => m # message.module
      BY <1>2 DEF Touches, About
    <2>3. \A m, v : Tells(message, m, v) => m = message.module /\ v = message.value
      BY <1>2 DEF Tells
    <2> DEFINE w == Shown(message, modules)
    <2>4. /\ w \in Known /\ DOMAIN w = DOMAIN modules \cup {message.module}
          /\ w[message.module] = message.value
          /\ \A k \in DOMAIN modules : k # message.module => w[k] = modules[k]
      BY <2>1, WithFacts
    <2> HIDE DEF w
    <2>5. QED
      BY <2>2, <2>3, <2>4 DEF w
  <1>3. CASE message.type = "pressure_sample"
    <2> DEFINE old == IF Gauge \in DOMAIN modules THEN modules[Gauge] ELSE Fresh
               new == [old EXCEPT !.value = message.number]
    <2>1. Shown(message, modules) = With(modules, Gauge, new)
      BY <1>3 DEF Shown
    <2>2. old \in Values
      BY KnownFacts DEF Fresh, Values
    <2>3. message.number \in Nat
      BY <1>3, MessageCases
    <2> HIDE DEF old
    <2>4. new \in Values
      BY <2>2, <2>3 DEF Values
    <2> HIDE DEF new
    <2>5. \A m : ~Touches(message, m) => m # Gauge
      BY <1>3 DEF Touches
    <2>6. \A m, v : ~Tells(message, m, v)
      BY <1>3 DEF Tells
    <2> DEFINE w == Shown(message, modules)
    <2>7. /\ w \in Known /\ DOMAIN w = DOMAIN modules \cup {Gauge}
          /\ w[Gauge] = new
          /\ \A k \in DOMAIN modules : k # Gauge => w[k] = modules[k]
      BY <2>1, <2>4, WithFacts, GaugeAssumption
    <2> HIDE DEF w
    <2>8. QED
      BY <2>5, <2>6, <2>7 DEF w
  <1>4. CASE message.type \notin {"module_list", "module_state", "pressure_sample"}
    <2>1. Shown(message, modules) = modules
      BY <1>4 DEF Shown
    <2>2. QED
      BY <1>4, <2>1 DEF Tells
  <1>5. QED
    BY <1>1, <1>2, <1>3, <1>4

Rising(s) == \A i, j \in DOMAIN s : i < j => s[i] < s[j]
NumbersIn(s) == {s[i] : i \in DOMAIN s}

\* The end of a sequence.
LEMMA EndFacts ==
  ASSUME NEW S, NEW s \in Seq(S), NEW a \in Nat, 1 <= a, a <= Len(s) + 1
  PROVE  /\ SubSeq(s, a, Len(s)) \in Seq(S)
         /\ Len(SubSeq(s, a, Len(s))) = Len(s) + 1 - a
         /\ \A i \in 1 .. Len(s) + 1 - a : SubSeq(s, a, Len(s))[i] = s[i + a - 1]
  <1> DEFINE n == Len(s)
             e == SubSeq(s, a, n)
  <1>1. n \in Nat /\ \A i \in 1 .. n : s[i] \in S
    OBVIOUS
  <1>2. \A i \in a .. n : s[i] \in S
    BY <1>1
  <1>3. e \in Seq(S) /\ Len(e) = IF a <= n THEN n - a + 1 ELSE 0
    BY <1>1, <1>2, SubSeqProperties
  <1>4. \A i \in 1 .. n - a + 1 : e[i] = s[a + i - 1]
    BY <1>1, <1>2, SubSeqProperties
  <1> HIDE DEF e, n
  <1>5. Len(e) = n + 1 - a
    BY <1>1, <1>3 DEF n
  <1>6. ASSUME NEW i \in 1 .. n + 1 - a PROVE e[i] = s[i + a - 1]
    <2>1. i \in 1 .. n - a + 1 /\ a + i - 1 = i + a - 1
      BY <1>1
    <2>2. QED
      BY <1>4, <2>1
  <1>7. QED
    BY <1>3, <1>5, <1>6 DEF e, n

\* How many of the samples a page leaves out when it draws another one.
Cut(h) == IF Len(h) + 1 > ClientLimit THEN Len(h) + 1 - ClientLimit ELSE 0

\* The page draws the samples of a history instead of those it has, and a new
\* sample after the last of those.
LEMMA PlottedFacts ==
  ASSUME NEW message \in Messages, NEW h \in Seq(Nat)
  PROVE  /\ Plotted(message, h) \in Seq(Nat)
         /\ message.type = "history" => Plotted(message, h) = message.samples
         /\ ~Draws(message) => Plotted(message, h) = h
         /\ message.type = "pressure_sample" =>
              /\ Cut(h) \in 0 .. Len(h)
              /\ Len(Plotted(message, h)) = Len(h) + 1 - Cut(h)
              /\ \A i \in 1 .. Len(h) + 1 - Cut(h) :
                   Plotted(message, h)[i] =
                     IF i + Cut(h) = Len(h) + 1 THEN message.number ELSE h[i + Cut(h)]
  <1>1. CASE message.type = "history"
    BY <1>1, MessageCases DEF Plotted, Draws
  <1>2. CASE message.type = "pressure_sample"
    <2> DEFINE all == Append(h, message.number)
               c == Cut(h)
               n == Len(h)
               p == Plotted(message, h)
    <2>1. message.number \in Nat /\ n \in Nat
      BY <1>2, MessageCases
    <2>2. /\ all \in Seq(Nat) /\ Len(all) = n + 1
          /\ \A i \in 1 .. n + 1 : all[i] = IF i = n + 1 THEN message.number ELSE h[i]
      BY <2>1
    <2>3. p = SubSeq(all, IF Len(all) > ClientLimit THEN Len(all) - ClientLimit + 1 ELSE 1, Len(all))
      BY <1>2 DEF Plotted
    <2>4. c \in 0 .. n
      BY <2>1, SizeAssumption DEF Cut
    <2>5. (IF Len(all) > ClientLimit THEN Len(all) - ClientLimit + 1 ELSE 1) = c + 1
      BY <2>1, <2>2, SizeAssumption DEF Cut
    <2> HIDE DEF all, p, c, n
    <2>6. PICK a \in Nat : a = c + 1
      BY <2>4, <2>1
    <2>7. p = SubSeq(all, a, Len(all)) /\ 1 <= a /\ a <= Len(all) + 1
      BY <2>1, <2>2, <2>3, <2>4, <2>5, <2>6
    <2>8. /\ p \in Seq(Nat) /\ Len(p) = Len(all) + 1 - a
          /\ \A i \in 1 .. Len(all) + 1 - a : p[i] = all[i + a - 1]
      BY <2>2, <2>7, EndFacts
    <2>9. Len(p) = n + 1 - c
      BY <2>1, <2>2, <2>4, <2>6, <2>8
    <2>10. ASSUME NEW i \in 1 .. n + 1 - c
           PROVE  p[i] = IF i + c = n + 1 THEN message.number ELSE h[i + c]
      <3>1. /\ i \in 1 .. Len(all) + 1 - a /\ i + a - 1 = i + c /\ i + c \in 1 .. n + 1
        BY <2>1, <2>2, <2>4, <2>6
      <3>2. QED
        BY <2>2, <2>8, <3>1
    <2>11. QED
      BY <1>2, <2>4, <2>8, <2>9, <2>10 DEF p, c, n, Draws
  <1>3. CASE ~Draws(message)
    BY <1>3 DEF Plotted, Draws
  <1>4. QED
    BY <1>1, <1>2, <1>3 DEF Draws

LEMMA ViewFacts ==
  ASSUME NEW message \in Messages, NEW view \in Views
  PROVE  /\ Applied(message, view) \in Views
         /\ Applied(message, view).shown = Shown(message, view.shown)
         /\ Applied(message, view).plotted = Plotted(message, view.plotted)
  <1>1. view.shown \in Known /\ view.plotted \in Seq(Nat)
    BY DEF Views
  <1>2. Shown(message, view.shown) \in Known /\ Plotted(message, view.plotted) \in Seq(Nat)
    BY <1>1, ShownFacts, PlottedFacts
  <1>3. QED
    BY <1>2 DEF Applied, Views

LEMMA AfterIsView ==
  ASSUME NEW messages \in Seq(Messages), NEW view \in Views
  PROVE  After(view, messages) \in Views
  <1> DEFINE Q == [k \in 0 .. Len(messages) |-> Views]
  <1>1. Len(messages) \in Nat /\ \A k \in 1 .. Len(messages) : messages[k] \in Messages
    OBVIOUS
  <1>2. Q[0] = Views /\ Q[Len(messages)] = Views
    BY <1>1
  <1>3. \A k \in 1 .. Len(messages) : Q[k] = Views /\ Q[k - 1] = Views
    BY <1>1
  <1> HIDE DEF Q
  <1>4. \A k \in 1 .. Len(messages) : \A u \in Q[k - 1] : Applied(messages[k], u) \in Q[k]
    BY <1>1, <1>3, ViewFacts
  <1>5. After(view, messages) \in Q[Len(messages)]
    BY <1>2, <1>4, AfterKeeps
  <1>6. QED
    BY <1>2, <1>5

-----------------------------------------------------------------------------
(* What a page will show of a module *)

Untouched(messages, m) == \A i \in DOMAIN messages : ~Touches(messages[i], m)

\* The last message that touches m tells v.
TellsLast(messages, m, v) ==
  \E i \in DOMAIN messages :
    /\ Tells(messages[i], m, v)
    /\ \A j \in DOMAIN messages : j > i => ~Touches(messages[j], m)

LEMMA ConcatCases ==
  ASSUME NEW S, NEW s \in Seq(S), NEW t \in Seq(S)
  PROVE  /\ s \o t \in Seq(S) /\ Len(s \o t) = Len(s) + Len(t)
         /\ Len(s) \in Nat /\ Len(t) \in Nat
         /\ DOMAIN s = 1 .. Len(s) /\ DOMAIN t = 1 .. Len(t)
         /\ DOMAIN (s \o t) = 1 .. Len(s) + Len(t)
         /\ \A k \in 1 .. Len(s) : (s \o t)[k] = s[k]
         /\ \A k \in 1 .. Len(t) : (s \o t)[Len(s) + k] = t[k]
         /\ \A k \in 1 .. Len(s) + Len(t) :
              k <= Len(s) \/ (k - Len(s) \in 1 .. Len(t) /\ (s \o t)[k] = t[k - Len(s)])
  <1>1. /\ s \o t \in Seq(S) /\ Len(s \o t) = Len(s) + Len(t)
        /\ Len(s) \in Nat /\ Len(t) \in Nat
        /\ \A k \in 1 .. Len(s) : (s \o t)[k] = s[k]
        /\ \A k \in 1 .. Len(t) : (s \o t)[Len(s) + k] = t[k]
    BY ConcatProperties
  <1>2. DOMAIN s = 1 .. Len(s) /\ DOMAIN t = 1 .. Len(t) /\ DOMAIN (s \o t) = 1 .. Len(s) + Len(t)
    BY <1>1
  <1>3. ASSUME NEW k \in 1 .. Len(s) + Len(t), ~ (k <= Len(s))
        PROVE  k - Len(s) \in 1 .. Len(t) /\ (s \o t)[k] = t[k - Len(s)]
    <2>1. k - Len(s) \in 1 .. Len(t) /\ Len(s) + (k - Len(s)) = k
      BY <1>1, <1>3
    <2>2. QED
      BY <1>1, <2>1
  <1>4. QED
    BY <1>1, <1>2, <1>3

LEMMA UntouchedConcat ==
  ASSUME NEW s \in Seq(Messages), NEW t \in Seq(Messages), NEW m
  PROVE  Untouched(s \o t, m) <=> Untouched(s, m) /\ Untouched(t, m)
  <1>1. ASSUME Untouched(s \o t, m), NEW i \in DOMAIN s PROVE ~Touches(s[i], m)
    <2>1. i \in DOMAIN (s \o t) /\ (s \o t)[i] = s[i]
      BY ConcatCases
    <2>2. QED
      BY <1>1, <2>1 DEF Untouched
  <1>2. ASSUME Untouched(s \o t, m), NEW i \in DOMAIN t PROVE ~Touches(t[i], m)
    <2>1. Len(s) + i \in DOMAIN (s \o t) /\ (s \o t)[Len(s) + i] = t[i]
      BY ConcatCases
    <2>2. QED
      BY <1>2, <2>1 DEF Untouched
  <1>3. ASSUME Untouched(s, m), Untouched(t, m), NEW k \in DOMAIN (s \o t)
        PROVE  ~Touches((s \o t)[k], m)
    <2>1. CASE k <= Len(s)
      <3>1. k \in DOMAIN s /\ (s \o t)[k] = s[k]
        BY <2>1, ConcatCases
      <3>2. QED
        BY <1>3, <3>1 DEF Untouched
    <2>2. CASE ~ (k <= Len(s))
      <3>1. k - Len(s) \in DOMAIN t /\ (s \o t)[k] = t[k - Len(s)]
        BY <2>2, ConcatCases
      <3>2. QED
        BY <1>3, <3>1 DEF Untouched
    <2>3. QED
      BY <2>1, <2>2
  <1>4. QED
    BY <1>1, <1>2, <1>3 DEF Untouched

LEMMA TellsLastConcat ==
  ASSUME NEW s \in Seq(Messages), NEW t \in Seq(Messages), NEW m, NEW v
  PROVE  TellsLast(s \o t, m, v) <=>
           \/ TellsLast(t, m, v)
           \/ TellsLast(s, m, v) /\ Untouched(t, m)
  <1>1. ASSUME TellsLast(t, m, v) PROVE TellsLast(s \o t, m, v)
    <2>1. PICK i \in DOMAIN t :
            Tells(t[i], m, v) /\ \A j \in DOMAIN t : j > i => ~Touches(t[j], m)
      BY <1>1 DEF TellsLast
    <2>2. PICK p \in Nat : p = Len(s) + i
      BY ConcatCases
    <2>3. p \in DOMAIN (s \o t) /\ (s \o t)[p] = t[i]
      BY <2>2, ConcatCases
    <2>4. ASSUME NEW k \in DOMAIN (s \o t), k > p PROVE ~Touches((s \o t)[k], m)
      <3>1. k - Len(s) \in DOMAIN t /\ (s \o t)[k] = t[k - Len(s)] /\ k - Len(s) > i
        BY <2>2, <2>4, ConcatCases
      <3>2. QED
        BY <2>1, <3>1
    <2>5. QED
      BY <2>1, <2>3, <2>4 DEF TellsLast
  <1>2. ASSUME TellsLast(s, m, v), Untouched(t, m) PROVE TellsLast(s \o t, m, v)
    <2>1. PICK i \in DOMAIN s :
            Tells(s[i], m, v) /\ \A j \in DOMAIN s : j > i => ~Touches(s[j], m)
      BY <1>2 DEF TellsLast
    <2>2. i \in DOMAIN (s \o t) /\ (s \o t)[i] = s[i]
      BY ConcatCases
    <2>3. ASSUME NEW k \in DOMAIN (s \o t), k > i PROVE ~Touches((s \o t)[k], m)
      <3>1. CASE k <= Len(s)
        <4>1. k \in DOMAIN s /\ (s \o t)[k] = s[k]
          BY <3>1, ConcatCases
        <4>2. QED
          BY <2>1, <2>3, <4>1
      <3>2. CASE ~ (k <= Len(s))
        <4>1. k - Len(s) \in DOMAIN t /\ (s \o t)[k] = t[k - Len(s)]
          BY <3>2, ConcatCases
        <4>2. QED
          BY <1>2, <4>1 DEF Untouched
      <3>3. QED
        BY <3>1, <3>2
    <2>4. QED
      BY <2>1, <2>2, <2>3 DEF TellsLast
  <1>3. ASSUME TellsLast(s \o t, m, v), ~TellsLast(t, m, v)
        PROVE  TellsLast(s, m, v) /\ Untouched(t, m)
    <2>1. PICK i \in DOMAIN (s \o t) :
            /\ Tells((s \o t)[i], m, v)
            /\ \A j \in DOMAIN (s \o t) : j > i => ~Touches((s \o t)[j], m)
      BY <1>3 DEF TellsLast
    <2>2. ASSUME NEW j \in DOMAIN t, Len(s) + j > i PROVE ~Touches(t[j], m)
      <3>1. PICK p \in Nat : p = Len(s) + j
        BY ConcatCases
      <3>2. p \in DOMAIN (s \o t) /\ (s \o t)[p] = t[j] /\ p > i
        BY <2>2, <3>1, ConcatCases
      <3>3. QED
        BY <2>1, <3>2
    <2>3. CASE i <= Len(s)
      <3>1. i \in DOMAIN s /\ (s \o t)[i] = s[i]
        BY <2>3, ConcatCases
      <3>2. \A j \in DOMAIN s : j \in DOMAIN (s \o t) /\ (s \o t)[j] = s[j]
        BY ConcatCases
      <3>3. \A j \in DOMAIN s : j > i => ~Touches(s[j], m)
        BY <2>1, <3>2
      <3>4. \A j \in DOMAIN t : Len(s) + j > i
        BY <2>3, ConcatCases
      <3>5. QED
        BY <2>1, <2>2, <3>1, <3>3, <3>4 DEF TellsLast, Untouched
    <2>4. CASE ~ (i <= Len(s))
      <3>1. PICK p \in DOMAIN t : p = i - Len(s) /\ (s \o t)[i] = t[p]
        BY <2>4, ConcatCases
      <3>2. \A j \in DOMAIN t : j > p => Len(s) + j > i
        BY <3>1, ConcatCases
      <3>3. TellsLast(t, m, v)
        BY <2>1, <2>2, <3>1, <3>2 DEF TellsLast
      <3>4. QED
        BY <1>3, <3>3
    <2>5. QED
      BY <2>3, <2>4
  <1>4. QED
    BY <1>1, <1>2, <1>3

\* The views that show v of module m.
Showing(m, v) == {view \in Views : m \in DOMAIN view.shown /\ view.shown[m] = v}

LEMMA ShowingKept ==
  ASSUME NEW message \in Messages, NEW m \in Modules, NEW v, NEW view \in Views
  PROVE  /\ Tells(message, m, v) => Applied(message, view) \in Showing(m, v)
         /\ view \in Showing(m, v) /\ ~Touches(message, m) =>
              Applied(message, view) \in Showing(m, v)
  <1> DEFINE w == Applied(message, view)
             new == Shown(message, view.shown)
  <1>1. view.shown \in Known /\ w \in Views /\ w.shown = new
    BY ViewFacts DEF Views
  <1>2. Tells(message, m, v) => m \in DOMAIN new /\ new[m] = v
    BY <1>1, ShownFacts
  <1>3. m \in DOMAIN view.shown /\ ~Touches(message, m) =>
          m \in DOMAIN new /\ new[m] = view.shown[m]
    BY <1>1, ShownFacts
  <1> HIDE DEF w, new
  <1>4. QED
    BY <1>1, <1>2, <1>3 DEF Showing, w

LEMMA AfterUntouched ==
  ASSUME NEW messages \in Seq(Messages), NEW m \in Modules, NEW v,
         NEW view \in Showing(m, v), Untouched(messages, m)
  PROVE  After(view, messages) \in Showing(m, v)
  <1> DEFINE Q == [k \in 0 .. Len(messages) |-> Showing(m, v)]
  <1>1. /\ Len(messages) \in Nat /\ DOMAIN messages = 1 .. Len(messages)
        /\ \A k \in 1 .. Len(messages) : messages[k] \in Messages
    OBVIOUS
  <1>2. Q[0] = Showing(m, v) /\ Q[Len(messages)] = Showing(m, v)
    BY <1>1
  <1>3. \A k \in 1 .. Len(messages) : Q[k] = Showing(m, v) /\ Q[k - 1] = Showing(m, v)
    BY <1>1
  <1> HIDE DEF Q
  <1>4. \A u \in Showing(m, v) : u \in Views
    BY DEF Showing
  <1>5. \A k \in 1 .. Len(messages) : ~Touches(messages[k], m)
    BY <1>1 DEF Untouched
  <1>6. \A k \in 1 .. Len(messages) : \A u \in Q[k - 1] : Applied(messages[k], u) \in Q[k]
    BY <1>1, <1>3, <1>4, <1>5, ShowingKept
  <1>7. After(view, messages) \in Q[Len(messages)]
    BY <1>2, <1>6, AfterKeeps
  <1>8. QED
    BY <1>2, <1>7

\* What the last message to touch m tells is what the page then shows of m.
LEMMA AfterTold ==
  ASSUME NEW messages \in Seq(Messages), NEW m \in Modules, NEW v,
         NEW view \in Views, TellsLast(messages, m, v)
  PROVE  After(view, messages) \in Showing(m, v)
  <1> DEFINE n == Len(messages)
  <1>1. n \in Nat /\ DOMAIN messages = 1 .. n /\ \A k \in 1 .. n : messages[k] \in Messages
    OBVIOUS
  <1> HIDE DEF n
  <1>2. PICK i \in 1 .. n : /\ Tells(messages[i], m, v)
                            /\ \A j \in 1 .. n : j > i => ~Touches(messages[j], m)
    BY <1>1 DEF TellsLast
  <1> DEFINE Q == [k \in 0 .. n |-> IF k < i THEN Views ELSE Showing(m, v)]
  <1>3. Q[0] = Views /\ Q[n] = Showing(m, v)
    BY <1>1, <1>2
  <1>4. \A k \in 1 .. n :
          /\ Q[k] = IF k < i THEN Views ELSE Showing(m, v)
          /\ Q[k - 1] = IF k - 1 < i THEN Views ELSE Showing(m, v)
    BY <1>1
  <1> HIDE DEF Q
  <1>5. \A u \in Showing(m, v) : u \in Views
    BY DEF Showing
  <1>6. ASSUME NEW k \in 1 .. n, NEW u \in Q[k - 1] PROVE Applied(messages[k], u) \in Q[k]
    <2>1. u \in Views
      BY <1>4, <1>5, <1>6
    <2>2. CASE k < i
      BY <1>1, <1>4, <2>1, <2>2, ViewFacts
    <2>3. CASE k = i
      BY <1>1, <1>2, <1>4, <2>1, <2>3, ShowingKept
    <2>4. CASE k > i
      <3>1. u \in Showing(m, v) /\ Q[k] = Showing(m, v)
        BY <1>2, <1>4, <1>6, <2>4
      <3>2. QED
        BY <1>1, <1>2, <2>1, <2>4, <3>1, ShowingKept
    <2>5. QED
      BY <2>2, <2>3, <2>4, <1>2
  <1>7. After(view, messages) \in Q[Len(messages)]
    BY <1>3, <1>6, AfterKeeps DEF n
  <1>8. QED
    BY <1>3, <1>7 DEF n
-----------------------------------------------------------------------------
(* Messages that the queue drops, and those that it keeps *)

WebTypeOK ==
  /\ known \in Known /\ history \in Seq(Nat) /\ samples \in Nat
  /\ updates \in Nat /\ breaks \in Nat
  /\ connected \in BOOLEAN /\ subscribe \in BOOLEAN
  /\ queue \in Seq(Messages) /\ wire \in Seq(Messages)
  /\ shown \in Known /\ plotted \in Seq(Nat)
  /\ overwritten \subseteq Modules /\ missed \in BOOLEAN

\* The queue keeps the end of what was in it and of the new messages, and
\* drops what came before; the last message is never dropped.
LEMMA QueueSplit ==
  ASSUME queue \in Seq(Messages), NEW messages \in Seq(Messages)
  PROVE  /\ Dropped(messages) \in Seq(Messages) /\ Kept(messages) \in Seq(Messages)
         /\ Queued(messages) = Kept(messages)
         /\ queue \o messages = Dropped(messages) \o Kept(messages)
         /\ messages # <<>> =>
              /\ Kept(messages) # <<>>
              /\ Kept(messages)[Len(Kept(messages))] = messages[Len(messages)]
  <1> DEFINE all == queue \o messages
             n == Len(all)
             excess == IF n > QueueSize THEN n - QueueSize ELSE 0
             d == SubSeq(all, 1, excess)
             k == SubSeq(all, excess + 1, n)
  <1>1. all \in Seq(Messages) /\ n \in Nat /\ DOMAIN all = 1 .. n /\ Len(all) = n
    BY ConcatCases
  <1>2. QueueSize \in Nat /\ QueueSize >= 1
    BY SizeAssumption
  <1>3. excess \in 0 .. n /\ (n >= 1 => excess < n)
    BY <1>1, <1>2
  <1>4. Dropped(messages) = d /\ Queued(messages) = k
    BY DEF Dropped, Queued
  <1> HIDE DEF excess
  <1>5. /\ d \in Seq(Messages) /\ Len(d) = excess
        /\ \A i \in 1 .. excess : d[i] = all[i]
    <2>1. \A i \in 1 .. excess : all[i] \in Messages
      BY <1>1, <1>3
    <2> HIDE DEF all, n
    <2>2. d \in Seq(Messages) /\ Len(d) = IF 1 <= excess THEN excess - 1 + 1 ELSE 0
      BY <1>1, <1>3, <2>1, SubSeqProperties
    <2>3. \A i \in 1 .. excess - 1 + 1 : d[i] = all[1 + i - 1]
      BY <1>1, <1>3, <2>1, SubSeqProperties
    <2>4. \A i \in 1 .. excess : i \in 1 .. excess - 1 + 1 /\ 1 + i - 1 = i
      BY <1>3
    <2>5. QED
      BY <1>1, <1>3, <2>2, <2>3, <2>4
  <1>6. Kept(messages) = k
    BY <1>4, <1>5 DEF Kept
  <1> HIDE DEF all, n
  <1>7. /\ k \in Seq(Messages) /\ Len(k) = n - excess
        /\ \A i \in 1 .. n - excess : k[i] = all[i + excess]
    <2>1. PICK a \in Nat : a = excess + 1
      BY <1>1, <1>3
    <2>2. 1 <= a /\ a <= n + 1 /\ k = SubSeq(all, a, n)
      BY <1>1, <1>3, <2>1
    <2>3. /\ SubSeq(all, a, n) \in Seq(Messages)
          /\ Len(SubSeq(all, a, n)) = n + 1 - a
          /\ \A i \in 1 .. n + 1 - a : SubSeq(all, a, n)[i] = all[i + a - 1]
      BY <1>1, <2>2, EndFacts
    <2>4. \A i \in 1 .. n - excess : i \in 1 .. n + 1 - a /\ i + a - 1 = i + excess
      BY <1>1, <1>3, <2>1
    <2>5. n + 1 - a = n - excess
      BY <1>1, <1>3, <2>1
    <2> HIDE DEF k
    <2>6. QED
      BY <2>2, <2>3, <2>4, <2>5
  <1> HIDE DEF d, k
  <1>8. all = d \o k
    <2>1. Len(d \o k) = n /\ DOMAIN (d \o k) = 1 .. n /\ d \o k \in Seq(Messages)
      BY <1>1, <1>3, <1>5, <1>7, ConcatCases
    <2>2. ASSUME NEW i \in 1 .. n PROVE (d \o k)[i] = all[i]
      <3>1. CASE i <= excess
        BY <3>1, <1>3, <1>5, <1>7, ConcatCases
      <3>2. CASE ~ (i <= excess)
        <4>1. i - excess \in 1 .. n - excess /\ (i - excess) + excess = i
          BY <3>2, <1>1, <1>3
        <4>2. (d \o k)[i] = k[i - excess]
          BY <3>2, <4>1, <1>1, <1>3, <1>5, <1>7, ConcatCases
        <4>3. QED
          BY <4>1, <4>2, <1>7
      <3>3. QED
        BY <3>1, <3>2
    <2>3. QED
      BY <1>1, <2>1, <2>2, SeqEqual
  <1>9. ASSUME messages # <<>>
        PROVE  k # <<>> /\ k[Len(k)] = messages[Len(messages)]
    <2>1. Len(messages) \in Nat /\ Len(messages) >= 1
      BY <1>9, EmptySeq
    <2>2. n = Len(queue) + Len(messages) /\ Len(queue) \in Nat
      BY ConcatCases DEF n, all
    <2>3. all[n] = messages[Len(messages)]
      BY <2>1, <2>2, ConcatCases DEF all
    <2>4. n - excess \in 1 .. n - excess /\ (n - excess) + excess = n /\ n - excess > 0
      BY <2>1, <2>2, <1>1, <1>3
    <2>5. k[Len(k)] = all[n]
      BY <1>7, <2>4
    <2>6. k # <<>>
      BY <1>7, <2>4
    <2>7. QED
      BY <2>3, <2>5, <2>6
  <1>10. QED
    BY <1>4, <1>5, <1>6, <1>7, <1>8, <1>9 DEF all

\* A module that is told of is mentioned, and one that is mentioned is touched.
LEMMA MentionedFacts ==
  ASSUME NEW s \in Seq(Messages)
  PROVE  /\ Mentioned(s) \subseteq Modules
         /\ \A m, v : TellsLast(s, m, v) => m \in Mentioned(s)
         /\ \A m : Untouched(s, m) => m \notin Mentioned(s)
         /\ \A m : m \in Mentioned(s) <=> \E i \in DOMAIN s : m \in About(s[i])
  <1>1. \A m : m \in Mentioned(s) <=> \E i \in DOMAIN s : m \in About(s[i])
    BY DEF Mentioned
  <1>2. ASSUME NEW i \in DOMAIN s, NEW m \in About(s[i]) PROVE m \in Modules
    <2>1. s[i] \in Messages
      OBVIOUS
    <2>2. CASE s[i].type = "module_list"
      BY <1>2, <2>1, <2>2, MessageCases, KnownFacts DEF About
    <2>3. CASE s[i].type = "module_state"
      BY <1>2, <2>1, <2>3, MessageCases DEF About
    <2>4. QED
      BY <1>2, <2>2, <2>3 DEF About
  <1>3. ASSUME NEW i \in DOMAIN s, NEW m, NEW v, Tells(s[i], m, v) PROVE m \in About(s[i])
    BY <1>3 DEF Tells, About
  <1>4. QED
    BY <1>1, <1>2, <1>3 DEF TellsLast, Untouched, Touches

LEMMA MentionedConcat ==
  ASSUME NEW s \in Seq(Messages), NEW t \in Seq(Messages)
  PROVE  Mentioned(s \o t) = Mentioned(s) \cup Mentioned(t)
  <1>1. ASSUME NEW m, m \in Mentioned(s \o t) PROVE m \in Mentioned(s) \cup Mentioned(t)
    <2>1. PICK k \in DOMAIN (s \o t) : m \in About((s \o t)[k])
      BY <1>1 DEF Mentioned
    <2>2. CASE k <= Len(s)
      <3>1. k \in DOMAIN s /\ (s \o t)[k] = s[k]
        BY <2>2, ConcatCases
      <3>2. QED
        BY <2>1, <3>1 DEF Mentioned
    <2>3. CASE ~ (k <= Len(s))
      <3>1. k - Len(s) \in DOMAIN t /\ (s \o t)[k] = t[k - Len(s)]
        BY <2>3, ConcatCases
      <3>2. QED
        BY <2>1, <3>1 DEF Mentioned
    <2>4. QED
      BY <2>2, <2>3
  <1>2. ASSUME NEW m, m \in Mentioned(s) PROVE m \in Mentioned(s \o t)
    <2>1. PICK i \in DOMAIN s : m \in About(s[i])
      BY <1>2 DEF Mentioned
    <2>2. i \in DOMAIN (s \o t) /\ (s \o t)[i] = s[i]
      BY ConcatCases
    <2>3. QED
      BY <2>1, <2>2 DEF Mentioned
  <1>3. ASSUME NEW m, m \in Mentioned(t) PROVE m \in Mentioned(s \o t)
    <2>1. PICK i \in DOMAIN t : m \in About(t[i])
      BY <1>3 DEF Mentioned
    <2>2. Len(s) + i \in DOMAIN (s \o t) /\ (s \o t)[Len(s) + i] = t[i]
      BY ConcatCases
    <2>3. QED
      BY <2>1, <2>2 DEF Mentioned
  <1>4. QED
    BY <1>1, <1>2, <1>3
-----------------------------------------------------------------------------
(* A connected browser is going to show what the manager knows *)

View == [shown |-> shown, plotted |-> plotted]

\* A page that receives the messages will show v of m: the last of them to
\* touch m tells v, or none touches m, and the page shows v already.
Settled(view, messages, m, v) ==
  \/ TellsLast(messages, m, v)
  \/ Untouched(messages, m) /\ view \in Showing(m, v)

LinkInv == ~connected => queue = <<>> /\ wire = <<>> /\ overwritten = {} /\ ~missed

ViewInv ==
  connected =>
    /\ overwritten \cap Mentioned(queue) = {}
    /\ \A m \in DOMAIN known \ overwritten :
         known[m].seen => Settled(View, Under, m, known[m])

\* New messages keep what was settled, and settle what they tell, of every
\* module that the queue does not overwrite.
LEMMA SendSettles ==
  ASSUME queue \in Seq(Messages), wire \in Seq(Messages), NEW messages \in Seq(Messages),
         SendJson(messages), overwritten \cap Mentioned(queue) = {},
         NEW new,
         \A m \in DOMAIN new : new[m].seen =>
           \/ TellsLast(messages, m, new[m])
           \/ /\ Untouched(messages, m)
              /\ m \in overwritten \/ Settled(View, Under, m, new[m])
  PROVE  /\ overwritten' \cap Mentioned(queue') = {}
         /\ \A m \in DOMAIN new \ overwritten' :
              new[m].seen => Settled(View, wire \o queue', m, new[m])
  <1> DEFINE d == Dropped(messages)
             k == Kept(messages)
  <1>1. d \in Seq(Messages) /\ k \in Seq(Messages) /\ queue \o messages = d \o k
    BY QueueSplit
  <1>2. queue' = k /\ overwritten' = (overwritten \cup Mentioned(d)) \ Mentioned(k)
    BY QueueSplit DEF SendJson
  <1> HIDE DEF d, k
  <1>3. ASSUME NEW m \in DOMAIN new \ overwritten', new[m].seen
        PROVE  Settled(View, wire \o k, m, new[m])
    <2> DEFINE v == new[m]
    <2>1. m \in Mentioned(k) \/ (m \notin overwritten /\ m \notin Mentioned(d))
      BY <1>2, <1>3
    <2>2. ASSUME TellsLast(queue \o messages, m, v) PROVE TellsLast(wire \o k, m, v)
      <3>1. TellsLast(k, m, v) \/ (TellsLast(d, m, v) /\ Untouched(k, m))
        BY <1>1, <2>2, TellsLastConcat
      <3>2. ~ (TellsLast(d, m, v) /\ Untouched(k, m))
        BY <1>1, <2>1, MentionedFacts
      <3>3. QED
        BY <1>1, <3>1, <3>2, TellsLastConcat
    <2>3. CASE TellsLast(messages, m, v)
      BY <2>2, <2>3, TellsLastConcat DEF Settled
    <2>4. CASE Untouched(messages, m) /\ m \in overwritten
      <3>1. m \notin Mentioned(queue) /\ m \notin Mentioned(messages)
        BY <2>4, MentionedFacts
      <3>2. m \notin Mentioned(k)
        <4>1. Mentioned(queue \o messages) = Mentioned(queue) \cup Mentioned(messages)
          BY MentionedConcat
        <4>2. Mentioned(d \o k) = Mentioned(d) \cup Mentioned(k)
          BY <1>1, MentionedConcat
        <4>3. QED
          BY <1>1, <3>1, <4>1, <4>2
      <3>3. QED
        BY <2>1, <2>4, <3>2
    <2>5. CASE Untouched(messages, m) /\ Settled(View, wire \o queue, m, v)
      <3>1. ASSUME Untouched(queue, m) PROVE Untouched(k, m)
        <4>1. Untouched(d \o k, m)
          BY <1>1, <2>5, <3>1, UntouchedConcat
        <4>2. QED
          BY <1>1, <4>1, UntouchedConcat
      <3>2. CASE TellsLast(queue, m, v)
        BY <2>2, <2>5, <3>2, TellsLastConcat DEF Settled
      <3>3. CASE TellsLast(wire, m, v) /\ Untouched(queue, m)
        BY <1>1, <3>1, <3>3, TellsLastConcat DEF Settled
      <3>4. CASE Untouched(wire, m) /\ Untouched(queue, m) /\ View \in Showing(m, v)
        BY <1>1, <3>1, <3>4, UntouchedConcat DEF Settled
      <3>5. QED
        BY <2>5, <3>2, <3>3, <3>4, TellsLastConcat, UntouchedConcat DEF Settled
    <2>6. QED
      BY <1>3, <2>3, <2>4, <2>5 DEF Under
  <1>4. QED
    BY <1>2, <1>3

-----------------------------------------------------------------------------
(* Types *)

LEMMA MessageTypes ==
  /\ \A modules \in Known : List(modules) \in Messages
  /\ \A h \in Seq(Nat) : History(h) \in Messages
  /\ \A m \in Modules, value \in Values : State(m, value) \in Messages
  /\ \A n \in Nat : Sample(n) \in Messages
  /\ Result \in Messages
  BY DEF Messages, List, History, State, Sample, Result

LEMMA SnapshotTypes ==
  ASSUME NEW modules \in Known, NEW h \in Seq(Nat)
  PROVE  Snapshot(modules, h) \in Seq(Messages) /\ Snapshot(modules, h) # <<>>
  <1>1. List(modules) \in Messages /\ History(h) \in Messages
    BY MessageTypes
  <1> HIDE DEF List, History
  <1>2. QED
    BY <1>1 DEF Snapshot

LEMMA SendTypes ==
  ASSUME queue \in Seq(Messages), NEW messages \in Seq(Messages), SendJson(messages),
         overwritten \subseteq Modules
  PROVE  queue' \in Seq(Messages) /\ overwritten' \subseteq Modules /\ missed' \in BOOLEAN
  <1>1. Dropped(messages) \in Seq(Messages) /\ queue' = Kept(messages) /\ queue' \in Seq(Messages)
    BY QueueSplit DEF SendJson
  <1>2. Mentioned(Dropped(messages)) \subseteq Modules
    BY <1>1, MentionedFacts
  <1>3. QED
    BY <1>1, <1>2 DEF SendJson

LEMMA BroadcastTypes ==
  ASSUME WebTypeOK, NEW messages \in Seq(Messages), Broadcast(messages)
  PROVE  queue' \in Seq(Messages) /\ overwritten' \subseteq Modules /\ missed' \in BOOLEAN
  BY SendTypes DEF Broadcast, WebTypeOK

LEMMA ValueTypes ==
  ASSUME known \in Known, NEW m \in Modules
  PROVE  ValueOf(m) \in Values
  BY KnownFacts DEF ValueOf, Fresh, Values

LEMMA UpdateTypes ==
  ASSUME WebTypeOK, NEW m \in Modules, NEW value \in Values, Update(m, value)
  PROVE  updates' \in Nat /\ known' \in Known
  <1>1. known \in Known /\ updates \in Nat
    BY DEF WebTypeOK
  <1>2. updates' = updates + 1 /\ known' = With(known, m, value)
    BY DEF Update
  <1>3. With(known, m, value) \in Known
    BY <1>1, WithFacts
  <1>4. QED
    BY <1>1, <1>2, <1>3

\* The values that the handlers set.
LEMMA NewValues ==
  ASSUME NEW value \in Values, NEW online \in BOOLEAN, NEW n \in Nat
  PROVE  /\ [value EXCEPT !.seen = TRUE, !.online = online] \in Values
         /\ [value EXCEPT !.online = FALSE] \in Values
         /\ [value EXCEPT !.seen = TRUE, !.value = n] \in Values
         /\ [value EXCEPT !.seen = TRUE, !.online = online].seen = TRUE
         /\ [value EXCEPT !.seen = TRUE, !.value = n].seen = TRUE
  BY DEF Values

LEMMA OneMessage ==
  ASSUME NEW message \in Messages
  PROVE  /\ <<message>> \in Seq(Messages) /\ Len(<<message>>) = 1
         /\ <<message>>[1] = message /\ DOMAIN <<message>> = {1}
  OBVIOUS

LEMMA TwoMessages ==
  ASSUME NEW a \in Messages, NEW b \in Messages
  PROVE  /\ <<a, b>> \in Seq(Messages) /\ Len(<<a, b>>) = 2
         /\ <<a, b>>[1] = a /\ <<a, b>>[2] = b /\ DOMAIN <<a, b>> = {1, 2}
         /\ <<a, b>> = <<a>> \o <<b>>
  <1> DEFINE s == <<a, b>>
             t == <<a>> \o <<b>>
  <1>1. s \in Seq(Messages) /\ Len(s) = 2 /\ s[1] = a /\ s[2] = b /\ DOMAIN s = {1, 2}
    OBVIOUS
  <1>2. t \in Seq(Messages) /\ Len(t) = 2 /\ t[1] = a /\ t[2] = b
    <2> DEFINE x == <<a>>
               y == <<b>>
    <2>1. x \in Seq(Messages) /\ Len(x) = 1 /\ x[1] = a /\ y \in Seq(Messages) /\ Len(y) = 1 /\ y[1] = b
      BY OneMessage
    <2> HIDE DEF x, y
    <2>2. x \o y \in Seq(Messages) /\ Len(x \o y) = 2 /\ (x \o y)[1] = a /\ (x \o y)[1 + 1] = b
      BY <2>1, ConcatProperties
    <2>3. QED
      BY <2>2 DEF x, y
  <1> HIDE DEF s, t
  <1>3. \A i \in 1 .. Len(s) : s[i] = t[i]
    BY <1>1, <1>2
  <1>4. s = t
    BY <1>1, <1>2, <1>3, SeqEqual
  <1>5. QED
    BY <1>1, <1>4 DEF s, t

LEMMA WebInitTypes == Init => WebTypeOK
  <1> SUFFICES ASSUME Init PROVE WebTypeOK
    OBVIOUS
  <1>1. known \in Known /\ shown \in Known
    BY EmptyKnown DEF Init
  <1>2. history \in Seq(Nat) /\ plotted \in Seq(Nat)
    BY DEF Init
  <1>3. queue \in Seq(Messages) /\ wire \in Seq(Messages)
    BY DEF Init
  <1>4. samples \in Nat /\ updates \in Nat /\ breaks \in Nat
    BY DEF Init
  <1>5. connected \in BOOLEAN /\ subscribe \in BOOLEAN /\ missed \in BOOLEAN /\ overwritten \subseteq Modules
    BY DEF Init
  <1>6. QED
    BY <1>1, <1>2, <1>3, <1>4, <1>5 DEF WebTypeOK

LEMMA WebTypesKept ==
  ASSUME WebTypeOK, [Next]_vars
  PROVE  WebTypeOK'
  <1> USE DEF WebTypeOK
  <1>1. ASSUME NEW m \in Modules, NEW online \in BOOLEAN, IngestPresence(m, online)
        PROVE  WebTypeOK'
    <2> DEFINE value == [ValueOf(m) EXCEPT !.seen = TRUE, !.online = online]
    <2>1. value \in Values
      BY ValueTypes, NewValues
    <2>2. Update(m, value) /\ Broadcast(<<State(m, value)>>)
      BY <1>1 DEF IngestPresence
    <2> HIDE DEF value
    <2>3. <<State(m, value)>> \in Seq(Messages)
      BY <2>1, MessageTypes, OneMessage
    <2>4. QED
      BY <1>1, <2>1, <2>2, <2>3, UpdateTypes, BroadcastTypes DEF IngestPresence, link, page
  <1>2. ASSUME NEW m \in Modules, HeartbeatTimeout(m) PROVE WebTypeOK'
    <2> DEFINE value == [known[m] EXCEPT !.online = FALSE]
    <2>1. value \in Values
      BY <1>2, KnownFacts, NewValues DEF HeartbeatTimeout
    <2>2. Update(m, value) /\ Broadcast(<<State(m, value)>>)
      BY <1>2 DEF HeartbeatTimeout
    <2> HIDE DEF value
    <2>3. <<State(m, value)>> \in Seq(Messages)
      BY <2>1, MessageTypes, OneMessage
    <2>4. QED
      BY <1>2, <2>1, <2>2, <2>3, UpdateTypes, BroadcastTypes DEF HeartbeatTimeout, link, page
  <1>3. ASSUME NEW m \in Modules, Command(m) PROVE WebTypeOK'
    <2>1. ValueOf(m) \in Values /\ <<Result>> \in Seq(Messages)
      BY ValueTypes, MessageTypes, OneMessage
    <2>2. QED
      BY <1>3, <2>1, UpdateTypes, BroadcastTypes DEF Command, link, page
  <1>4. ASSUME IngestReading PROVE WebTypeOK'
    <2> DEFINE value == [ValueOf(Gauge) EXCEPT !.seen = TRUE, !.value = samples']
               all == Append(history, samples')
    <2>1. samples' \in Nat
      BY <1>4 DEF IngestReading
    <2>2. value \in Values
      BY <2>1, ValueTypes, NewValues, GaugeAssumption
    <2>3. Update(Gauge, value) /\ Broadcast(<<Sample(samples'), State(Gauge, value)>>)
      BY <1>4 DEF IngestReading
    <2> HIDE DEF value
    <2>4. <<Sample(samples'), State(Gauge, value)>> \in Seq(Messages)
      BY <2>1, <2>2, MessageTypes, TwoMessages, GaugeAssumption
    <2>5. all \in Seq(Nat) /\ all # <<>>
      BY <2>1
    <2> HIDE DEF all
    <2>6. Tail(all) \in Seq(Nat)
      BY <2>5, HeadTailProperties
    <2>7. history' \in Seq(Nat)
      BY <1>4, <2>5, <2>6 DEF IngestReading, all
    <2>8. QED
      BY <1>4, <2>1, <2>2, <2>3, <2>4, <2>7, UpdateTypes, BroadcastTypes, GaugeAssumption
      DEF IngestReading, link, page
  <1>5. CASE Accept
    BY <1>5, SnapshotTypes, SendTypes DEF Accept, manager, page
  <1>6. CASE HandleSubscribe
    BY <1>6, SnapshotTypes, SendTypes DEF HandleSubscribe, manager, page
  <1>7. CASE SendFrame
    <2>1. Head(queue) \in Messages /\ Tail(queue) \in Seq(Messages)
      BY <1>7, HeadTailProperties DEF SendFrame
    <2>2. QED
      BY <1>7, <2>1, AppendProperties DEF SendFrame, manager, page
  <1>8. CASE Disconnect
    <2>1. breaks' \in Nat /\ connected' = FALSE /\ subscribe' = FALSE
      BY <1>8 DEF Disconnect, Disconnected
    <2>2. queue' \in Seq(Messages) /\ wire' \in Seq(Messages) /\ overwritten' = {} /\ missed' = FALSE
      BY <1>8 DEF Disconnect, Disconnected
    <2>3. QED
      BY <1>8, <2>1, <2>2 DEF Disconnect, manager, page
  <1>9. CASE Restart
    <2>1. known' \in Known /\ shown' \in Known
      BY <1>9, EmptyKnown DEF Restart, page
    <2>2. breaks' \in Nat /\ connected' = FALSE /\ subscribe' = FALSE
      BY <1>9 DEF Restart, Disconnected
    <2>3. queue' \in Seq(Messages) /\ wire' \in Seq(Messages) /\ overwritten' = {} /\ missed' = FALSE
      BY <1>9 DEF Restart, Disconnected
    <2>4. history' \in Seq(Nat) /\ plotted' \in Seq(Nat) /\ samples' \in Nat /\ updates' \in Nat
      BY <1>9 DEF Restart, page
    <2>5. QED
      BY <2>1, <2>2, <2>3, <2>4
  <1>10. CASE Receive
    <2>1. Head(wire) \in Messages /\ Tail(wire) \in Seq(Messages)
      BY <1>10, HeadTailProperties DEF Receive
    <2>2. Shown(Head(wire), shown) \in Known /\ Plotted(Head(wire), plotted) \in Seq(Nat)
      BY <2>1, ShownFacts, PlottedFacts
    <2>3. QED
      BY <1>10, <2>1, <2>2 DEF Receive, manager
  <1>11. CASE UNCHANGED vars
    BY <1>11 DEF vars
  <1>12. QED
    BY <1>1, <1>2, <1>3, <1>4, <1>5, <1>6, <1>7, <1>8, <1>9, <1>10, <1>11 DEF Next

-----------------------------------------------------------------------------
(* The steps keep what a browser is going to show *)

\* What messages must tell of what the manager knows next, unless it was known.
News(messages, new) ==
  \A m \in DOMAIN new : new[m].seen =>
    \/ TellsLast(messages, m, new[m])
    \/ Untouched(messages, m) /\ m \in DOMAIN known /\ new[m] = known[m]

LEMMA BroadcastSettles ==
  ASSUME WebTypeOK, LinkInv, ViewInv, NEW messages \in Seq(Messages),
         Broadcast(messages), UNCHANGED <<link, page>>, News(messages, known')
  PROVE  LinkInv' /\ ViewInv'
  <1>1. connected' = connected /\ wire' = wire /\ View' = View
    BY DEF link, page, View
  <1>2. CASE connected
    <2>1. SendJson(messages) /\ overwritten \cap Mentioned(queue) = {}
      BY <1>2 DEF Broadcast, ViewInv
    <2>2. ASSUME NEW m \in DOMAIN known', known'[m].seen
          PROVE  \/ TellsLast(messages, m, known'[m])
                 \/ /\ Untouched(messages, m)
                    /\ m \in overwritten \/ Settled(View, Under, m, known'[m])
      BY <1>2, <2>2 DEF News, ViewInv
    <2>3. queue \in Seq(Messages) /\ wire \in Seq(Messages)
      BY DEF WebTypeOK
    <2>4. /\ overwritten' \cap Mentioned(queue') = {}
          /\ \A m \in DOMAIN known' \ overwritten' :
               known'[m].seen => Settled(View, wire \o queue', m, known'[m])
      BY <2>1, <2>2, <2>3, SendSettles
    <2>5. Mentioned(queue)' = Mentioned(queue') /\ Under' = wire \o queue'
      BY <1>1 DEF Mentioned, About, Under
    <2>6. \A m \in DOMAIN known' \ overwritten' :
            known'[m].seen => Settled(View', Under', m, known'[m])
      BY <1>1, <2>4, <2>5
    <2>7. QED
      BY <1>1, <1>2, <2>4, <2>5, <2>6 DEF ViewInv, LinkInv
  <1>3. CASE ~connected
    BY <1>1, <1>3 DEF Broadcast, LinkInv, ViewInv
  <1>4. QED
    BY <1>2, <1>3

\* A snapshot tells all that the manager knows.
LEMMA SnapshotTells ==
  ASSUME NEW modules \in Known, NEW h \in Seq(Nat), NEW m \in DOMAIN modules
  PROVE  TellsLast(Snapshot(modules, h), m, modules[m])
  <1>1. List(modules) \in Messages /\ History(h) \in Messages
    BY MessageTypes
  <1>2. Tells(List(modules), m, modules[m]) /\ ~Touches(History(h), m)
    BY DEF Tells, Touches, About, List, History
  <1> HIDE DEF List, History
  <1>3. CASE h = <<>>
    <2>1. Snapshot(modules, h) = <<List(modules)>>
      BY <1>3 DEF Snapshot
    <2>2. QED
      BY <1>1, <1>2, <2>1, OneMessage DEF TellsLast
  <1>4. CASE h # <<>>
    <2> DEFINE s == <<List(modules), History(h)>>
    <2>1. Snapshot(modules, h) = s
      BY <1>4 DEF Snapshot
    <2>2. s[1] = List(modules) /\ s[2] = History(h) /\ DOMAIN s = {1, 2}
      BY <1>1, TwoMessages
    <2> HIDE DEF s
    <2>3. \A j \in DOMAIN s : j > 1 => ~Touches(s[j], m)
      BY <1>2, <2>2
    <2>4. QED
      BY <1>2, <2>1, <2>2, <2>3 DEF TellsLast
  <1>5. QED
    BY <1>3, <1>4

LEMMA SnapshotSettles ==
  ASSUME WebTypeOK, overwritten \cap Mentioned(queue) = {},
         SendJson(Snapshot(known, history)), UNCHANGED <<known, wire, page>>, connected'
  PROVE  LinkInv' /\ ViewInv'
  <1> DEFINE messages == Snapshot(known, history)
  <1>1. /\ queue \in Seq(Messages) /\ wire \in Seq(Messages) /\ messages \in Seq(Messages)
        /\ known \in Known /\ history \in Seq(Nat)
    BY SnapshotTypes DEF WebTypeOK
  <1>2. \A m \in DOMAIN known : TellsLast(messages, m, known[m])
    BY <1>1, SnapshotTells
  <1>3. SendJson(messages)
    OBVIOUS
  <1> HIDE DEF messages
  <1>4. /\ overwritten' \cap Mentioned(queue') = {}
        /\ \A m \in DOMAIN known \ overwritten' :
             known[m].seen => Settled(View, wire \o queue', m, known[m])
    BY <1>1, <1>2, <1>3, SendSettles
  <1>5. Mentioned(queue)' = Mentioned(queue') /\ Under' = wire \o queue' /\ View' = View
    BY DEF Mentioned, About, Under, View, page
  <1>6. QED
    BY <1>4, <1>5 DEF ViewInv, LinkInv

\* What is sent, and received, leaves what is settled so.
LEMMA SendFrameSettles ==
  ASSUME WebTypeOK, SendFrame
  PROVE  /\ Under' = Under /\ queue' \in Seq(Messages)
         /\ queue = <<Head(queue)>> \o queue' /\ Head(queue) \in Messages
  <1>1. queue \in Seq(Messages) /\ queue # <<>> /\ wire \in Seq(Messages)
    BY DEF SendFrame, WebTypeOK
  <1>2. /\ Head(queue) \in Messages /\ Tail(queue) \in Seq(Messages)
        /\ queue = <<Head(queue)>> \o Tail(queue)
    BY <1>1, HeadTailProperties, ConcatProperties
  <1>3. /\ queue' = Tail(queue) /\ wire' = Append(wire, Head(queue))
    BY DEF SendFrame
  <1>4. Append(wire, Head(queue)) = wire \o <<Head(queue)>>
    BY <1>1, <1>2, AppendIsConcat
  <1>5. <<Head(queue)>> \in Seq(Messages)
    BY <1>2, OneMessage
  <1>6. (wire \o <<Head(queue)>>) \o Tail(queue) = wire \o (<<Head(queue)>> \o Tail(queue))
    BY <1>1, <1>2, <1>5, ConcatAssociative
  <1>7. QED
    BY <1>2, <1>3, <1>4, <1>6 DEF Under

LEMMA ReceiveFacts ==
  ASSUME WebTypeOK, Receive
  PROVE  /\ Head(wire) \in Messages /\ wire' \in Seq(Messages)
         /\ Under' \in Seq(Messages) /\ Under = <<Head(wire)>> \o Under'
         /\ View' = Applied(Head(wire), View) /\ View \in Views
  <1>1. wire \in Seq(Messages) /\ wire # <<>> /\ queue \in Seq(Messages)
    BY DEF Receive, WebTypeOK
  <1>2. /\ Head(wire) \in Messages /\ Tail(wire) \in Seq(Messages)
        /\ wire = <<Head(wire)>> \o Tail(wire)
    BY <1>1, HeadTailProperties, ConcatProperties
  <1>3. wire' = Tail(wire) /\ queue' = queue
    BY DEF Receive
  <1>4. <<Head(wire)>> \in Seq(Messages)
    BY <1>2, OneMessage
  <1>5. (<<Head(wire)>> \o Tail(wire)) \o queue = <<Head(wire)>> \o (Tail(wire) \o queue)
    BY <1>1, <1>2, <1>4, ConcatAssociative
  <1>6. Under' = Tail(wire) \o queue /\ Under = wire \o queue
    BY <1>3 DEF Under
  <1>7. Tail(wire) \o queue \in Seq(Messages)
    BY <1>1, <1>2, ConcatProperties
  <1>8. View' = Applied(Head(wire), View)
    BY DEF Receive, View, Applied
  <1>9. View \in Views
    BY DEF View, Views, WebTypeOK
  <1>10. QED
    BY <1>2, <1>3, <1>5, <1>6, <1>7, <1>8, <1>9

\* A message about m alone, of a module that is set to what it tells.
LEMMA StateTells ==
  ASSUME WebTypeOK, NEW m \in Modules, NEW value \in Values, Update(m, value)
  PROVE  /\ <<State(m, value)>> \in Seq(Messages)
         /\ News(<<State(m, value)>>, known')
  <1>1. State(m, value) \in Messages
    BY MessageTypes
  <1>2. \A k : IF k = m THEN Tells(State(m, value), k, value) ELSE ~Touches(State(m, value), k)
    BY DEF State, Tells, Touches, About
  <1> HIDE DEF State
  <1>3. /\ known' = With(known, m, value) /\ known \in Known
    BY DEF Update, WebTypeOK
  <1>4. /\ DOMAIN known' = DOMAIN known \cup {m} /\ known'[m] = value
        /\ \A k \in DOMAIN known : k # m => known'[k] = known[k]
    BY <1>3, WithFacts
  <1> DEFINE s == <<State(m, value)>>
  <1>5. s \in Seq(Messages) /\ DOMAIN s = {1} /\ s[1] = State(m, value)
    BY <1>1, OneMessage
  <1> HIDE DEF s
  <1>6. TellsLast(s, m, known'[m])
    BY <1>2, <1>4, <1>5 DEF TellsLast
  <1>7. \A k \in DOMAIN known' : k # m =>
          Untouched(s, k) /\ k \in DOMAIN known /\ known'[k] = known[k]
    BY <1>2, <1>4, <1>5 DEF Untouched
  <1>8. QED
    BY <1>5, <1>6, <1>7 DEF News, s

LEMMA ReadingTells ==
  ASSUME WebTypeOK, NEW n \in Nat, NEW value \in Values, Update(Gauge, value)
  PROVE  /\ <<Sample(n), State(Gauge, value)>> \in Seq(Messages)
         /\ News(<<Sample(n), State(Gauge, value)>>, known')
  <1>1. <<State(Gauge, value)>> \in Seq(Messages) /\ News(<<State(Gauge, value)>>, known')
    BY StateTells, GaugeAssumption
  <1>2. Sample(n) \in Messages /\ State(Gauge, value) \in Messages
    BY MessageTypes, GaugeAssumption
  <1>3. \A m : m # Gauge => ~Touches(Sample(n), m)
    BY DEF Sample, Touches, About
  <1>4. /\ \A m : m # Gauge => ~Touches(State(Gauge, value), m)
        /\ Tells(State(Gauge, value), Gauge, value)
    BY DEF State, Touches, Tells, About
  <1> HIDE DEF Sample, State
  <1>5. known'[Gauge] = value
    BY WithFacts, GaugeAssumption DEF Update, WebTypeOK
  <1> DEFINE s == <<Sample(n), State(Gauge, value)>>
             t == <<State(Gauge, value)>>
  <1>6. /\ s \in Seq(Messages) /\ DOMAIN s = {1, 2}
        /\ s[1] = Sample(n) /\ s[2] = State(Gauge, value)
        /\ DOMAIN t = {1} /\ t[1] = State(Gauge, value)
    BY <1>2, OneMessage, TwoMessages
  <1> HIDE DEF s, t
  <1>7. TellsLast(s, Gauge, known'[Gauge])
    BY <1>4, <1>5, <1>6 DEF TellsLast
  <1>8. ASSUME NEW m \in DOMAIN known', m # Gauge, known'[m].seen
        PROVE  Untouched(s, m) /\ m \in DOMAIN known /\ known'[m] = known[m]
    <2>1. ~TellsLast(t, m, known'[m])
      <3>1. State(Gauge, value).type = "module_state" /\ State(Gauge, value).module = Gauge
        BY DEF State
      <3>2. QED
        BY <1>6, <1>8, <3>1 DEF TellsLast, Tells
    <2>2. Untouched(t, m) /\ m \in DOMAIN known /\ known'[m] = known[m]
      BY <1>1, <1>8, <2>1 DEF News, t
    <2>3. Untouched(s, m)
      BY <1>3, <1>4, <1>6, <1>8 DEF Untouched
    <2>4. QED
      BY <2>2, <2>3
  <1>9. QED
    BY <1>6, <1>7, <1>8 DEF News, s

\* A command makes its module known, and tells nothing.
LEMMA ResultTells ==
  ASSUME WebTypeOK, NEW m \in Modules, Update(m, ValueOf(m))
  PROVE  <<Result>> \in Seq(Messages) /\ News(<<Result>>, known')
  <1>1. Result \in Messages /\ ValueOf(m) \in Values
    BY MessageTypes, ValueTypes DEF WebTypeOK
  <1>2. \A k : ~Touches(Result, k)
    BY DEF Result, Touches, About
  <1> HIDE DEF Result
  <1>3. known' = With(known, m, ValueOf(m)) /\ known \in Known
    BY DEF Update, WebTypeOK
  <1>4. /\ DOMAIN known' = DOMAIN known \cup {m} /\ known'[m] = ValueOf(m)
        /\ \A k \in DOMAIN known : k # m => known'[k] = known[k]
    BY <1>1, <1>3, WithFacts
  <1>5. m \notin DOMAIN known => ~known'[m].seen
    BY <1>4 DEF ValueOf, Fresh
  <1>6. m \in DOMAIN known => known'[m] = known[m]
    BY <1>4 DEF ValueOf
  <1> DEFINE s == <<Result>>
  <1>7. s \in Seq(Messages) /\ DOMAIN s = {1} /\ s[1] = Result
    BY <1>1, OneMessage
  <1> HIDE DEF s
  <1>8. \A k : Untouched(s, k)
    BY <1>2, <1>7 DEF Untouched
  <1>9. QED
    BY <1>4, <1>5, <1>6, <1>7, <1>8 DEF News, s

LEMMA ViewKept ==
  ASSUME WebTypeOK, LinkInv, ViewInv, [Next]_vars
  PROVE  LinkInv' /\ ViewInv'
  <1>1. ASSUME NEW m \in Modules, NEW online \in BOOLEAN, IngestPresence(m, online)
        PROVE  LinkInv' /\ ViewInv'
    <2> DEFINE value == [ValueOf(m) EXCEPT !.seen = TRUE, !.online = online]
    <2>1. value \in Values
      BY ValueTypes, NewValues DEF WebTypeOK
    <2>2. Update(m, value) /\ Broadcast(<<State(m, value)>>) /\ UNCHANGED <<link, page>>
      BY <1>1 DEF IngestPresence
    <2> HIDE DEF value
    <2>3. QED
      BY <2>1, <2>2, StateTells, BroadcastSettles
  <1>2. ASSUME NEW m \in Modules, HeartbeatTimeout(m) PROVE LinkInv' /\ ViewInv'
    <2> DEFINE value == [known[m] EXCEPT !.online = FALSE]
    <2>1. value \in Values
      BY <1>2, KnownFacts, NewValues DEF HeartbeatTimeout, WebTypeOK
    <2>2. Update(m, value) /\ Broadcast(<<State(m, value)>>) /\ UNCHANGED <<link, page>>
      BY <1>2 DEF HeartbeatTimeout
    <2> HIDE DEF value
    <2>3. QED
      BY <2>1, <2>2, StateTells, BroadcastSettles
  <1>3. ASSUME NEW m \in Modules, Command(m) PROVE LinkInv' /\ ViewInv'
    BY <1>3, ResultTells, BroadcastSettles DEF Command
  <1>4. ASSUME IngestReading PROVE LinkInv' /\ ViewInv'
    <2> DEFINE value == [ValueOf(Gauge) EXCEPT !.seen = TRUE, !.value = samples']
    <2>1. samples' \in Nat
      BY <1>4 DEF IngestReading, WebTypeOK
    <2>2. value \in Values
      BY <2>1, ValueTypes, NewValues, GaugeAssumption DEF WebTypeOK
    <2>3. /\ Update(Gauge, value) /\ Broadcast(<<Sample(samples'), State(Gauge, value)>>)
          /\ UNCHANGED <<link, page>>
      BY <1>4 DEF IngestReading
    <2> HIDE DEF value
    <2>4. QED
      BY <2>1, <2>2, <2>3, ReadingTells, BroadcastSettles
  <1>5. CASE Accept
    <2>1. overwritten \cap Mentioned(queue) = {}
      BY <1>5 DEF Accept, LinkInv
    <2>2. QED
      BY <1>5, <2>1, SnapshotSettles DEF Accept, manager
  <1>6. CASE HandleSubscribe
    <2>1. overwritten \cap Mentioned(queue) = {}
      BY <1>6 DEF HandleSubscribe, ViewInv
    <2>2. connected'
      BY <1>6 DEF HandleSubscribe
    <2>3. QED
      BY <1>6, <2>1, <2>2, SnapshotSettles DEF HandleSubscribe, manager
  <1>7. CASE SendFrame
    <2>1. /\ Under' = Under /\ queue' \in Seq(Messages)
          /\ queue = <<Head(queue)>> \o queue' /\ Head(queue) \in Messages
      BY <1>7, SendFrameSettles
    <2>2. Mentioned(queue') \subseteq Mentioned(queue)
      <3> DEFINE h == <<Head(queue)>>
      <3>1. h \in Seq(Messages) /\ queue = h \o queue'
        BY <2>1, OneMessage
      <3> HIDE DEF h
      <3>2. Mentioned(h \o queue') = Mentioned(h) \cup Mentioned(queue')
        BY <2>1, <3>1, MentionedConcat
      <3>3. QED
        BY <3>1, <3>2
    <2>3. connected /\ known' = known /\ overwritten' = overwritten /\ View' = View /\ connected' = connected
      BY <1>7 DEF SendFrame, manager, page, View
    <2>4. Mentioned(queue)' = Mentioned(queue')
      BY DEF Mentioned, About
    <2>5. QED
      BY <2>1, <2>2, <2>3, <2>4 DEF ViewInv, LinkInv
  <1>8. CASE Disconnect \/ Restart
    BY <1>8 DEF Disconnect, Restart, Disconnected, LinkInv, ViewInv
  <1>9. CASE Receive
    <2>1. /\ Head(wire) \in Messages
          /\ Under' \in Seq(Messages) /\ Under = <<Head(wire)>> \o Under'
          /\ View' = Applied(Head(wire), View) /\ View \in Views
      BY <1>9, ReceiveFacts
    <2>2. /\ known' = known /\ overwritten' = overwritten /\ connected' = connected
          /\ queue' = queue /\ missed' = missed /\ wire # <<>>
      BY <1>9 DEF Receive, manager
    <2>3. connected
      BY <2>2 DEF LinkInv
    <2> DEFINE x == Head(wire)
    <2>4. ASSUME NEW m \in Modules, NEW v, Settled(View, Under, m, v)
          PROVE  Settled(View', Under', m, v)
      <3>1. <<x>> \in Seq(Messages) /\ DOMAIN <<x>> = {1} /\ <<x>>[1] = x
        BY <2>1, OneMessage
      <3>2. CASE TellsLast(Under', m, v)
        BY <3>2 DEF Settled
      <3>3. CASE TellsLast(<<x>>, m, v) /\ Untouched(Under', m)
        <4>1. Tells(x, m, v)
          BY <3>1, <3>3 DEF TellsLast
        <4>2. View' \in Showing(m, v)
          BY <2>1, <4>1, ShowingKept
        <4>3. QED
          BY <3>3, <4>2 DEF Settled
      <3>4. CASE Untouched(<<x>>, m) /\ Untouched(Under', m) /\ View \in Showing(m, v)
        <4>1. ~Touches(x, m)
          BY <3>1, <3>4 DEF Untouched
        <4>2. View' \in Showing(m, v)
          BY <2>1, <3>4, <4>1, ShowingKept
        <4>3. QED
          BY <3>4, <4>2 DEF Settled
      <3>5. QED
        BY <2>1, <2>4, <3>1, <3>2, <3>3, <3>4, TellsLastConcat, UntouchedConcat DEF Settled
    <2>5. Mentioned(queue)' = Mentioned(queue)
      BY <2>2 DEF Mentioned, About
    <2>6. \A m \in DOMAIN known : m \in Modules
      BY KnownFacts DEF WebTypeOK
    <2>7. QED
      BY <2>2, <2>3, <2>4, <2>5, <2>6 DEF ViewInv, LinkInv
  <1>10. CASE UNCHANGED vars
    BY <1>10 DEF vars, LinkInv, ViewInv, View, Under, Mentioned, About
  <1>11. QED
    BY <1>1, <1>2, <1>3, <1>4, <1>5, <1>6, <1>7, <1>8, <1>9, <1>10 DEF Next

\* What is settled of a module is what the page will show of it.
LEMMA SettledShown ==
  ASSUME WebTypeOK, NEW m \in Modules, NEW v, Settled(View, Under, m, v)
  PROVE  m \in DOMAIN FinallyShown /\ FinallyShown[m] = v
  <1>1. View \in Views /\ Under \in Seq(Messages)
    BY ConcatProperties DEF View, Views, WebTypeOK, Under
  <1>2. After(View, Under) \in Showing(m, v)
    BY <1>1, AfterTold, AfterUntouched DEF Settled
  <1>3. FinallyShown = After(View, Under).shown
    BY DEF FinallyShown, Finally, View
  <1>4. QED
    BY <1>2, <1>3 DEF Showing

\* A connected browser is going to show every module that this run of the
\* manager has heard as the manager has it, unless the queue dropped the newest
\* update of that very module.
THEOREM BrowserIsCurrent == Spec => []ViewCurrent
  <1> DEFINE Inv == WebTypeOK /\ LinkInv /\ ViewInv
  <1>1. Init => Inv
    BY WebInitTypes DEF Init, LinkInv, ViewInv
  <1>2. Inv /\ [Next]_vars => Inv'
    BY WebTypesKept, ViewKept
  <1>3. Inv => ViewCurrent
    <2> SUFFICES ASSUME Inv, connected, NEW m \in DOMAIN known \ overwritten, known[m].seen
                 PROVE  m \in DOMAIN FinallyShown /\ FinallyShown[m] = known[m]
      BY DEF ViewCurrent
    <2>1. m \in Modules
      BY KnownFacts DEF WebTypeOK
    <2>2. QED
      BY <2>1, SettledShown DEF ViewInv
  <1>4. QED
    BY <1>1, <1>2, <1>3, PTL DEF Spec

-----------------------------------------------------------------------------
(* The numbers of the samples under way *)

NumbersOf(message) ==
  CASE message.type = "history" -> NumbersIn(message.samples)
    [] message.type = "pressure_sample" -> {message.number}
    [] OTHER -> {}

Numbers(messages) == UNION {NumbersOf(messages[i]) : i \in DOMAIN messages}

\* Every new sample among the messages is later than the samples in N.
Above(N, messages) ==
  \A i \in DOMAIN messages : messages[i].type = "pressure_sample" =>
    \A n \in N : n < messages[i].number

\* Histories rise, and a new sample is later than all that come before it.
Orderly(messages) ==
  \A i \in DOMAIN messages :
    /\ messages[i].type = "history" => Rising(messages[i].samples)
    /\ messages[i].type = "pressure_sample" =>
         \A h \in DOMAIN messages : h < i =>
           \A n \in NumbersOf(messages[h]) : n < messages[i].number

LEMMA NumbersConcat ==
  ASSUME NEW s \in Seq(Messages), NEW t \in Seq(Messages)
  PROVE  Numbers(s \o t) = Numbers(s) \cup Numbers(t)
  <1>1. ASSUME NEW n, n \in Numbers(s \o t) PROVE n \in Numbers(s) \cup Numbers(t)
    <2>1. PICK k \in DOMAIN (s \o t) : n \in NumbersOf((s \o t)[k])
      BY <1>1 DEF Numbers
    <2>2. CASE k <= Len(s)
      <3>1. k \in DOMAIN s /\ (s \o t)[k] = s[k]
        BY <2>2, ConcatCases
      <3>2. QED
        BY <2>1, <3>1 DEF Numbers
    <2>3. CASE ~ (k <= Len(s))
      <3>1. k - Len(s) \in DOMAIN t /\ (s \o t)[k] = t[k - Len(s)]
        BY <2>3, ConcatCases
      <3>2. QED
        BY <2>1, <3>1 DEF Numbers
    <2>4. QED
      BY <2>2, <2>3
  <1>2. ASSUME NEW n, n \in Numbers(s) PROVE n \in Numbers(s \o t)
    <2>1. PICK i \in DOMAIN s : n \in NumbersOf(s[i])
      BY <1>2 DEF Numbers
    <2>2. i \in DOMAIN (s \o t) /\ (s \o t)[i] = s[i]
      BY ConcatCases
    <2>3. QED
      BY <2>1, <2>2 DEF Numbers
  <1>3. ASSUME NEW n, n \in Numbers(t) PROVE n \in Numbers(s \o t)
    <2>1. PICK i \in DOMAIN t : n \in NumbersOf(t[i])
      BY <1>3 DEF Numbers
    <2>2. Len(s) + i \in DOMAIN (s \o t) /\ (s \o t)[Len(s) + i] = t[i]
      BY ConcatCases
    <2>3. QED
      BY <2>1, <2>2 DEF Numbers
  <1>4. QED
    BY <1>1, <1>2, <1>3

LEMMA AboveConcat ==
  ASSUME NEW s \in Seq(Messages), NEW t \in Seq(Messages), NEW N
  PROVE  Above(N, s \o t) <=> Above(N, s) /\ Above(N, t)
  <1>1. ASSUME Above(N, s \o t), NEW i \in DOMAIN s, s[i].type = "pressure_sample", NEW n \in N
        PROVE  n < s[i].number
    <2>1. i \in DOMAIN (s \o t) /\ (s \o t)[i] = s[i]
      BY ConcatCases
    <2>2. QED
      BY <1>1, <2>1 DEF Above
  <1>2. ASSUME Above(N, s \o t), NEW i \in DOMAIN t, t[i].type = "pressure_sample", NEW n \in N
        PROVE  n < t[i].number
    <2>1. Len(s) + i \in DOMAIN (s \o t) /\ (s \o t)[Len(s) + i] = t[i]
      BY ConcatCases
    <2>2. QED
      BY <1>2, <2>1 DEF Above
  <1>3. ASSUME Above(N, s), Above(N, t), NEW k \in DOMAIN (s \o t),
               (s \o t)[k].type = "pressure_sample", NEW n \in N
        PROVE  n < (s \o t)[k].number
    <2>1. CASE k <= Len(s)
      <3>1. k \in DOMAIN s /\ (s \o t)[k] = s[k]
        BY <2>1, ConcatCases
      <3>2. QED
        BY <1>3, <3>1 DEF Above
    <2>2. CASE ~ (k <= Len(s))
      <3>1. k - Len(s) \in DOMAIN t /\ (s \o t)[k] = t[k - Len(s)]
        BY <2>2, ConcatCases
      <3>2. QED
        BY <1>3, <3>1 DEF Above
    <2>3. QED
      BY <2>1, <2>2
  <1>4. QED
    BY <1>1, <1>2, <1>3 DEF Above

LEMMA AboveSubset ==
  ASSUME NEW s, NEW N, NEW M, M \subseteq N, Above(N, s)
  PROVE  Above(M, s)
  BY DEF Above

LEMMA OrderlyConcat ==
  ASSUME NEW s \in Seq(Messages), NEW t \in Seq(Messages)
  PROVE  Orderly(s \o t) <=> Orderly(s) /\ Orderly(t) /\ Above(Numbers(s), t)
  <1>1. ASSUME Orderly(s \o t) PROVE Orderly(s)
    <2>1. \A i \in DOMAIN s : i \in DOMAIN (s \o t) /\ (s \o t)[i] = s[i]
      BY ConcatCases
    <2>2. QED
      BY <1>1, <2>1 DEF Orderly
  <1>2. ASSUME Orderly(s \o t) PROVE Orderly(t)
    <2>1. ASSUME NEW i \in DOMAIN t
          PROVE  /\ t[i].type = "history" => Rising(t[i].samples)
                 /\ t[i].type = "pressure_sample" =>
                      \A h \in DOMAIN t : h < i => \A n \in NumbersOf(t[h]) : n < t[i].number
      <3>1. PICK p \in Nat : p = Len(s) + i
        BY ConcatCases
      <3>2. p \in DOMAIN (s \o t) /\ (s \o t)[p] = t[i]
        BY <3>1, ConcatCases
      <3>3. ASSUME NEW h \in DOMAIN t, h < i, t[i].type = "pressure_sample", NEW n \in NumbersOf(t[h])
            PROVE  n < t[i].number
        <4>1. PICK q \in Nat : q = Len(s) + h
          BY ConcatCases
        <4>2. q \in DOMAIN (s \o t) /\ (s \o t)[q] = t[h] /\ q < p
          BY <3>1, <3>3, <4>1, ConcatCases
        <4>3. QED
          BY <1>2, <3>2, <3>3, <4>2 DEF Orderly
      <3>4. QED
        BY <1>2, <3>2, <3>3 DEF Orderly
    <2>2. QED
      BY <2>1 DEF Orderly
  <1>3. ASSUME Orderly(s \o t), NEW i \in DOMAIN t, t[i].type = "pressure_sample", NEW n \in Numbers(s)
        PROVE  n < t[i].number
    <2>1. PICK h \in DOMAIN s : n \in NumbersOf(s[h])
      BY DEF Numbers
    <2>2. PICK p \in Nat : p = Len(s) + i
      BY ConcatCases
    <2>3. /\ p \in DOMAIN (s \o t) /\ (s \o t)[p] = t[i]
          /\ h \in DOMAIN (s \o t) /\ (s \o t)[h] = s[h] /\ h < p
      BY <2>2, ConcatCases
    <2>4. QED
      BY <1>3, <2>1, <2>3 DEF Orderly
  <1>4. ASSUME Orderly(s), Orderly(t), Above(Numbers(s), t) PROVE Orderly(s \o t)
    <2> DEFINE u == s \o t
    <2>1. ASSUME NEW k \in DOMAIN u, k <= Len(s)
          PROVE  /\ u[k].type = "history" => Rising(u[k].samples)
                 /\ u[k].type = "pressure_sample" =>
                      \A h \in DOMAIN u : h < k => \A n \in NumbersOf(u[h]) : n < u[k].number
      <3>1. k \in DOMAIN s /\ u[k] = s[k]
        BY <2>1, ConcatCases
      <3>2. \A h \in DOMAIN u : h < k => h \in DOMAIN s /\ u[h] = s[h]
        BY <2>1, ConcatCases
      <3> HIDE DEF u
      <3>3. QED
        BY <1>4, <3>1, <3>2 DEF Orderly
    <2>2. ASSUME NEW k \in DOMAIN u, ~ (k <= Len(s))
          PROVE  /\ u[k].type = "history" => Rising(u[k].samples)
                 /\ u[k].type = "pressure_sample" =>
                      \A h \in DOMAIN u : h < k => \A n \in NumbersOf(u[h]) : n < u[k].number
      <3>1. PICK p \in DOMAIN t : p = k - Len(s) /\ u[k] = t[p]
        BY <2>2, ConcatCases
      <3>2. ASSUME NEW h \in DOMAIN u, h < k, u[k].type = "pressure_sample", NEW n \in NumbersOf(u[h])
            PROVE  n < u[k].number
        <4>1. CASE h <= Len(s)
          <5>1. h \in DOMAIN s /\ u[h] = s[h]
            BY <4>1, ConcatCases
          <5>2. n \in Numbers(s)
            BY <3>2, <5>1 DEF Numbers
          <5>3. QED
            BY <1>4, <3>1, <3>2, <5>2 DEF Above
        <4>2. CASE ~ (h <= Len(s))
          <5>1. PICK q \in DOMAIN t : q = h - Len(s) /\ u[h] = t[q]
            BY <4>2, ConcatCases
          <5>2. q < p
            BY <3>1, <3>2, <5>1, ConcatCases
          <5>3. QED
            BY <1>4, <3>1, <3>2, <5>1, <5>2 DEF Orderly
        <4>3. QED
          BY <4>1, <4>2
      <3>3. QED
        BY <1>4, <3>1, <3>2 DEF Orderly
    <2>3. QED
      BY <2>1, <2>2 DEF Orderly
  <1>5. QED
    BY <1>1, <1>2, <1>3, <1>4 DEF Above

-----------------------------------------------------------------------------
(* What a page will draw *)

LEMMA PlottedRises ==
  ASSUME NEW message \in Messages, NEW h \in Seq(Nat), Rising(h),
         message.type = "history" => Rising(message.samples),
         message.type = "pressure_sample" => \A n \in NumbersIn(h) : n < message.number
  PROVE  /\ Rising(Plotted(message, h))
         /\ NumbersIn(Plotted(message, h)) \subseteq NumbersIn(h) \cup NumbersOf(message)
  <1> DEFINE p == Plotted(message, h)
  <1>1. CASE message.type = "history"
    BY <1>1, PlottedFacts DEF NumbersOf
  <1>2. CASE message.type = "pressure_sample"
    <2> DEFINE c == Cut(h)
               n == Len(h)
    <2>1. /\ c \in 0 .. n /\ p \in Seq(Nat) /\ Len(p) = n + 1 - c
          /\ \A i \in 1 .. n + 1 - c :
               p[i] = IF i + c = n + 1 THEN message.number ELSE h[i + c]
      BY <1>2, PlottedFacts
    <2>2. n \in Nat /\ DOMAIN h = 1 .. n /\ message.number \in Nat /\ \A i \in 1 .. n : h[i] \in Nat
      BY <1>2, MessageCases
    <2>3. \A i \in 1 .. n : h[i] < message.number
      BY <1>2, <2>2 DEF NumbersIn
    <2>4. \A i, j \in 1 .. n : i < j => h[i] < h[j]
      BY <2>2 DEF Rising
    <2> HIDE DEF p, c, n
    <2>5. DOMAIN p = 1 .. n + 1 - c
      BY <2>1
    <2>6. ASSUME NEW i \in 1 .. n + 1 - c, NEW j \in 1 .. n + 1 - c, i < j PROVE p[i] < p[j]
      <3>1. i + c \in 1 .. n /\ p[i] = h[i + c]
        BY <2>1, <2>2, <2>6
      <3>2. CASE j + c = n + 1
        BY <2>1, <2>3, <3>1, <3>2
      <3>3. CASE j + c # n + 1
        <4>1. j + c \in 1 .. n /\ p[j] = h[j + c] /\ i + c < j + c
          BY <2>1, <2>2, <2>6, <3>3
        <4>2. QED
          BY <2>4, <3>1, <4>1
      <3>4. QED
        BY <3>2, <3>3
    <2>7. ASSUME NEW i \in 1 .. n + 1 - c PROVE p[i] \in NumbersIn(h) \cup NumbersOf(message)
      <3>1. CASE i + c = n + 1
        BY <1>2, <2>1, <3>1 DEF NumbersOf
      <3>2. CASE i + c # n + 1
        <4>1. i + c \in DOMAIN h /\ p[i] = h[i + c]
          BY <2>1, <2>2, <3>2
        <4>2. QED
          BY <4>1 DEF NumbersIn
      <3>3. QED
        BY <3>1, <3>2
    <2>8. Rising(p)
      BY <2>5, <2>6 DEF Rising
    <2>9. NumbersIn(p) \subseteq NumbersIn(h) \cup NumbersOf(message)
      BY <2>5, <2>7 DEF NumbersIn
    <2>10. QED
      BY <2>8, <2>9 DEF p
  <1>3. CASE ~Draws(message)
    <2>1. p = h
      BY <1>3, PlottedFacts
    <2>2. QED
      BY <2>1
  <1>4. QED
    BY <1>1, <1>2, <1>3 DEF Draws

\* Messages that are in order, and later than what is drawn, keep it in order.
LEMMA AfterRises ==
  ASSUME NEW s \in Seq(Messages), NEW view \in Views, Rising(view.plotted),
         Orderly(s), Above(NumbersIn(view.plotted), s)
  PROVE  Rising(After(view, s).plotted)
  <1> DEFINE n == Len(s)
             P == NumbersIn(view.plotted)
             Before(k) == P \cup UNION {NumbersOf(s[i]) : i \in 1 .. k}
             Good(k) == {u \in Views : Rising(u.plotted) /\ NumbersIn(u.plotted) \subseteq Before(k)}
             Q == [k \in 0 .. n |-> Good(k)]
  <1>1. n \in Nat /\ DOMAIN s = 1 .. n /\ \A k \in 1 .. n : s[k] \in Messages
    OBVIOUS
  <1> HIDE DEF n
  <1>2. view \in Good(0)
    OBVIOUS
  <1>3. ASSUME NEW k \in 1 .. n, NEW u \in Good(k - 1) PROVE Applied(s[k], u) \in Good(k)
    <2>1. u \in Views /\ Rising(u.plotted) /\ NumbersIn(u.plotted) \subseteq Before(k - 1)
      BY <1>3
    <2>2. /\ s[k] \in Messages /\ u.plotted \in Seq(Nat)
          /\ Applied(s[k], u) \in Views /\ Applied(s[k], u).plotted = Plotted(s[k], u.plotted)
      BY <1>1, <2>1, ViewFacts DEF Views
    <2>3. s[k].type = "history" => Rising(s[k].samples)
      BY <1>1 DEF Orderly
    <2>4. ASSUME s[k].type = "pressure_sample", NEW x \in NumbersIn(u.plotted) PROVE x < s[k].number
      <3>1. CASE x \in P
        BY <1>1, <2>4, <3>1 DEF Above
      <3>2. CASE x \notin P
        <4>1. PICK i \in 1 .. k - 1 : x \in NumbersOf(s[i])
          BY <2>1, <2>4, <3>2
        <4>2. i \in DOMAIN s /\ k \in DOMAIN s /\ i < k
          BY <1>1, <1>3
        <4>3. QED
          BY <2>4, <4>1, <4>2 DEF Orderly
      <3>3. QED
        BY <3>1, <3>2
    <2> DEFINE p == Plotted(s[k], u.plotted)
    <2>5. Rising(p) /\ NumbersIn(p) \subseteq NumbersIn(u.plotted) \cup NumbersOf(s[k])
      BY <2>1, <2>2, <2>3, <2>4, PlottedRises
    <2> HIDE DEF p
    <2>6. Before(k - 1) \subseteq Before(k) /\ NumbersOf(s[k]) \subseteq Before(k)
      <3>1. \A i \in 1 .. k - 1 : i \in 1 .. k
        OBVIOUS
      <3>2. k \in 1 .. k
        BY <1>1, <1>3
      <3>3. QED
        BY <3>1, <3>2
    <2> HIDE DEF Before
    <2>7. QED
      BY <2>1, <2>2, <2>5, <2>6 DEF p
  <1> HIDE DEF Good
  <1>4. Q[0] = Good(0) /\ Q[n] = Good(n)
    BY <1>1
  <1>5. \A k \in 1 .. n : Q[k] = Good(k) /\ Q[k - 1] = Good(k - 1)
    BY <1>1
  <1> HIDE DEF Q
  <1>6. After(view, s) \in Q[Len(s)]
    BY <1>2, <1>3, <1>4, <1>5, AfterKeeps DEF n
  <1>7. QED
    BY <1>4, <1>6 DEF Good, n

\* What two pages draw does not differ in the end, when they draw the same, or
\* when a history is among the messages.
LEMMA SamePlotted ==
  ASSUME NEW s \in Seq(Messages), NEW x \in Views, NEW y \in Views,
         Replaced(s) \/ x.plotted = y.plotted
  PROVE  After(x, s).plotted = After(y, s).plotted
  <1> DEFINE n == Len(s)
  <1>1. n \in Nat /\ DOMAIN s = 1 .. n /\ \A k \in 1 .. n : s[k] \in Messages
    OBVIOUS
  <1>2. PICK f : Passes(f, x, s)
    BY PassesExist
  <1>3. PICK g : Passes(g, y, s)
    BY PassesExist
  <1> HIDE DEF n
  <1>4. PICK i \in 0 .. n : IF i = 0 THEN x.plotted = y.plotted ELSE s[i].type = "history"
    BY <1>1 DEF Replaced
  <1> DEFINE T == {k \in 0 .. n : /\ f[k] \in Views /\ g[k] \in Views
                                  /\ k >= i => f[k].plotted = g[k].plotted}
  <1>5. 0 \in T
    BY <1>1, <1>2, <1>3, <1>4 DEF Passes
  <1>6. ASSUME NEW k \in 0 .. n - 1, k \in T PROVE k + 1 \in T
    <2>1. PICK l \in 1 .. n : l = k + 1 /\ l - 1 = k
      BY <1>1
    <2>2. f[l] = Applied(s[l], f[k]) /\ g[l] = Applied(s[l], g[k]) /\ s[l] \in Messages
      BY <1>1, <1>2, <1>3, <2>1 DEF Passes, n
    <2>3. f[k] \in Views /\ g[k] \in Views /\ (k >= i => f[k].plotted = g[k].plotted)
      BY <1>6
    <2>4. /\ f[l] \in Views /\ f[l].plotted = Plotted(s[l], f[k].plotted)
          /\ g[l] \in Views /\ g[l].plotted = Plotted(s[l], g[k].plotted)
          /\ f[k].plotted \in Seq(Nat) /\ g[k].plotted \in Seq(Nat)
      BY <2>2, <2>3, ViewFacts DEF Views
    <2>5. ASSUME l >= i PROVE f[l].plotted = g[l].plotted
      <3>1. CASE l = i
        <4>1. s[l].type = "history"
          BY <1>4, <3>1, <2>1
        <4>2. Plotted(s[l], f[k].plotted) = s[l].samples
          BY <2>2, <2>4, <4>1, PlottedFacts
        <4>3. Plotted(s[l], g[k].plotted) = s[l].samples
          BY <2>2, <2>4, <4>1, PlottedFacts
        <4>4. QED
          BY <2>4, <4>2, <4>3
      <3>2. CASE l # i
        <4>1. k >= i
          BY <1>1, <1>4, <2>1, <2>5, <3>2
        <4>2. QED
          BY <2>3, <2>4, <4>1
      <3>3. QED
        BY <3>1, <3>2
    <2>6. QED
      BY <2>1, <2>4, <2>5
  <1> HIDE DEF T
  <1>7. \A k \in 0 .. n : k \in T
    BY <1>1, <1>5, <1>6, AllNumbers
  <1>8. f[n].plotted = g[n].plotted
    BY <1>1, <1>4, <1>7 DEF T
  <1>9. QED
    BY <1>2, <1>3, <1>8, AfterPasses DEF n

\* Messages that draw nothing leave what is drawn.
LEMMA AfterDrawnNothing ==
  ASSUME NEW s \in Seq(Messages), NEW view \in Views, \A i \in DOMAIN s : ~Draws(s[i])
  PROVE  After(view, s).plotted = view.plotted
  <1> DEFINE n == Len(s)
             Same == {u \in Views : u.plotted = view.plotted}
             Q == [k \in 0 .. n |-> Same]
  <1>1. n \in Nat /\ DOMAIN s = 1 .. n /\ \A k \in 1 .. n : s[k] \in Messages
    OBVIOUS
  <1> HIDE DEF n
  <1>2. Q[0] = Same /\ Q[n] = Same /\ \A k \in 1 .. n : Q[k] = Same /\ Q[k - 1] = Same
    BY <1>1
  <1> HIDE DEF Q
  <1>3. ASSUME NEW k \in 1 .. n, NEW u \in Same PROVE Applied(s[k], u) \in Same
    <2>1. u \in Views /\ u.plotted \in Seq(Nat) /\ s[k] \in Messages /\ ~Draws(s[k])
      BY <1>1 DEF Views
    <2>2. QED
      BY <2>1, ViewFacts, PlottedFacts
  <1>4. view \in Same
    OBVIOUS
  <1> HIDE DEF Same
  <1>5. After(view, s) \in Q[Len(s)]
    BY <1>2, <1>3, <1>4, AfterKeeps DEF n
  <1>6. QED
    BY <1>2, <1>5 DEF Same, n

\* A history that comes last is what is drawn.
LEMMA AfterHistory ==
  ASSUME NEW s \in Seq(Messages), s # <<>>, s[Len(s)].type = "history", NEW view \in Views
  PROVE  After(view, s).plotted = s[Len(s)].samples
  <1> DEFINE n == Len(s)
             Drawn == {u \in Views : u.plotted = s[n].samples}
             Q == [k \in 0 .. n |-> IF k < n THEN Views ELSE Drawn]
  <1>1. n \in Nat /\ n > 0 /\ \A k \in 1 .. n : s[k] \in Messages
    BY EmptySeq
  <1>2. s[n].type = "history"
    OBVIOUS
  <1> HIDE DEF n
  <1>3. /\ Q[0] = Views /\ Q[n] = Drawn
        /\ \A k \in 1 .. n : Q[k - 1] = Views /\ Q[k] = IF k < n THEN Views ELSE Drawn
    BY <1>1
  <1> HIDE DEF Q
  <1>4. ASSUME NEW k \in 1 .. n, NEW u \in Views
        PROVE  Applied(s[k], u) \in Views /\ (k = n => Applied(s[k], u) \in Drawn)
    <2>1. u.plotted \in Seq(Nat) /\ s[k] \in Messages
      BY <1>1 DEF Views
    <2>2. /\ Applied(s[k], u) \in Views
          /\ Applied(s[k], u).plotted = Plotted(s[k], u.plotted)
      BY <2>1, ViewFacts
    <2>3. ASSUME k = n PROVE Plotted(s[k], u.plotted) = s[n].samples
      <3>1. s[k].type = "history"
        BY <1>2, <2>3
      <3>2. Plotted(s[k], u.plotted) = s[k].samples
        BY <2>1, <3>1, PlottedFacts
      <3>3. QED
        BY <2>3, <3>2
    <2>4. QED
      BY <2>2, <2>3
  <1> HIDE DEF Drawn
  <1>5. After(view, s) \in Q[Len(s)]
    BY <1>1, <1>3, <1>4, AfterKeeps DEF n
  <1>6. QED
    BY <1>3, <1>5 DEF Drawn, n

-----------------------------------------------------------------------------
(* The samples drawn rise *)

OrderInv ==
  /\ Rising(plotted) /\ Rising(history)
  /\ NumbersIn(plotted) \subseteq 0 .. samples
  /\ NumbersIn(history) \subseteq 0 .. samples
  /\ Numbers(Under) \subseteq 0 .. samples
  /\ Orderly(Under) /\ Above(NumbersIn(plotted), Under)

\* New messages, in order and later than what is under way and drawn, keep the
\* order, whatever the queue drops.
LEMMA SendOrder ==
  ASSUME queue \in Seq(Messages), wire \in Seq(Messages), NEW messages \in Seq(Messages),
         SendJson(messages), NEW P,
         Orderly(Under), Above(P, Under), Orderly(messages), Above(P, messages),
         Above(Numbers(Under), messages)
  PROVE  /\ Orderly(wire \o queue') /\ Above(P, wire \o queue')
         /\ Numbers(wire \o queue') \subseteq Numbers(Under) \cup Numbers(messages)
  <1> DEFINE d == Dropped(messages)
             k == Kept(messages)
  <1>1. d \in Seq(Messages) /\ k \in Seq(Messages) /\ queue \o messages = d \o k /\ queue' = k
    BY QueueSplit DEF SendJson
  <1> HIDE DEF d, k
  <1>2. queue \o messages \in Seq(Messages)
    BY ConcatProperties
  <1>3. /\ Orderly(wire) /\ Orderly(queue) /\ Above(Numbers(wire), queue)
        /\ Above(P, wire) /\ Above(P, queue)
    BY OrderlyConcat, AboveConcat DEF Under
  <1>4. Numbers(Under) = Numbers(wire) \cup Numbers(queue)
    BY NumbersConcat DEF Under
  <1>5. Above(Numbers(wire), messages) /\ Above(Numbers(queue), messages)
    BY <1>4, AboveSubset
  <1>6. Orderly(queue \o messages) /\ Above(P, queue \o messages) /\ Above(Numbers(wire), queue \o messages)
    BY <1>3, <1>5, OrderlyConcat, AboveConcat
  <1>7. Orderly(k) /\ Above(P, k) /\ Above(Numbers(wire), k)
    BY <1>1, <1>6, OrderlyConcat, AboveConcat
  <1>8. Orderly(wire \o k) /\ Above(P, wire \o k)
    BY <1>1, <1>3, <1>7, OrderlyConcat, AboveConcat
  <1>9. Numbers(k) \subseteq Numbers(queue) \cup Numbers(messages)
    <2>1. Numbers(queue \o messages) = Numbers(queue) \cup Numbers(messages)
      BY NumbersConcat
    <2>2. Numbers(d \o k) = Numbers(d) \cup Numbers(k)
      BY <1>1, NumbersConcat
    <2>3. QED
      BY <1>1, <2>1, <2>2
  <1>10. Numbers(wire \o k) = Numbers(wire) \cup Numbers(k)
    BY <1>1, NumbersConcat
  <1>11. QED
    BY <1>1, <1>4, <1>8, <1>9, <1>10

\* Messages without a sample or a history.
Plain(messages) == \A i \in DOMAIN messages : ~Draws(messages[i])

LEMMA PlainFacts ==
  ASSUME NEW messages \in Seq(Messages), Plain(messages)
  PROVE  /\ Orderly(messages) /\ Numbers(messages) = {} /\ ~Replaced(messages)
         /\ \A N : Above(N, messages)
  <1>1. \A i \in DOMAIN messages : /\ messages[i].type # "history"
                                   /\ messages[i].type # "pressure_sample"
                                   /\ NumbersOf(messages[i]) = {}
    BY DEF Plain, Draws, NumbersOf
  <1>2. QED
    BY <1>1 DEF Orderly, Numbers, Replaced, Above

LEMMA StatePlain ==
  ASSUME NEW m \in Modules, NEW value \in Values
  PROVE  Plain(<<State(m, value)>>) /\ Plain(<<Result>>)
  <1>1. State(m, value) \in Messages /\ Result \in Messages
    BY MessageTypes
  <1>2. ~Draws(State(m, value)) /\ ~Draws(Result)
    BY DEF State, Result, Draws
  <1> HIDE DEF State, Result
  <1>3. QED
    BY <1>1, <1>2, OneMessage DEF Plain

LEMMA SnapshotOrder ==
  ASSUME NEW modules \in Known, NEW h \in Seq(Nat), Rising(h)
  PROVE  /\ Orderly(Snapshot(modules, h)) /\ Numbers(Snapshot(modules, h)) \subseteq NumbersIn(h)
         /\ \A N : Above(N, Snapshot(modules, h))
         /\ h # <<>> =>
              LET s == Snapshot(modules, h)
              IN s[Len(s)].type = "history" /\ s[Len(s)].samples = h
  <1>1. List(modules) \in Messages /\ History(h) \in Messages
    BY MessageTypes
  <1>2. /\ List(modules).type = "module_list"
        /\ History(h).type = "history" /\ History(h).samples = h
    BY DEF List, History
  <1>3. NumbersOf(List(modules)) = {} /\ NumbersOf(History(h)) = NumbersIn(h)
    BY <1>2 DEF NumbersOf
  <1> HIDE DEF List, History
  <1>4. CASE h = <<>>
    <2> DEFINE s == <<List(modules)>>
    <2>1. s = Snapshot(modules, h)
      BY <1>4 DEF Snapshot
    <2>2. DOMAIN s = {1} /\ s[1] = List(modules) /\ s \in Seq(Messages)
      BY <1>1, OneMessage
    <2> HIDE DEF s
    <2>3. Plain(s)
      BY <1>2, <2>2 DEF Plain, Draws
    <2>4. QED
      BY <1>4, <2>1, <2>2, <2>3, PlainFacts
  <1>5. CASE h # <<>>
    <2> DEFINE s == <<List(modules), History(h)>>
    <2>1. s = Snapshot(modules, h)
      BY <1>5 DEF Snapshot
    <2>2. DOMAIN s = {1, 2} /\ s[1] = List(modules) /\ s[2] = History(h) /\ Len(s) = 2
      BY <1>1, TwoMessages
    <2> HIDE DEF s
    <2>3. Orderly(s) /\ \A N : Above(N, s)
      BY <1>2, <2>2 DEF Orderly, Above
    <2>4. Numbers(s) \subseteq NumbersIn(h)
      BY <1>3, <2>2 DEF Numbers
    <2>5. QED
      BY <1>2, <2>1, <2>2, <2>3, <2>4
  <1>6. QED
    BY <1>4, <1>5

\* A new sample, and what is told of the gauge.
LEMMA ReadingOrder ==
  ASSUME NEW n \in Nat, NEW value \in Values
  PROVE  LET s == <<Sample(n), State(Gauge, value)>>
         IN /\ s \in Seq(Messages) /\ Orderly(s) /\ Numbers(s) = {n} /\ ~Replaced(s)
            /\ \A N : (\A x \in N : x < n) => Above(N, s)
            /\ \A view \in Views : After(view, s).plotted = Plotted(Sample(n), view.plotted)
  <1> DEFINE s == <<Sample(n), State(Gauge, value)>>
  <1>1. Sample(n) \in Messages /\ State(Gauge, value) \in Messages
    BY MessageTypes, GaugeAssumption
  <1>2. /\ Sample(n).type = "pressure_sample" /\ Sample(n).number = n
        /\ State(Gauge, value).type = "module_state"
    BY DEF Sample, State
  <1>3. NumbersOf(Sample(n)) = {n} /\ NumbersOf(State(Gauge, value)) = {}
    BY <1>2 DEF NumbersOf
  <1> DEFINE a == Sample(n)
             b == State(Gauge, value)
  <1> HIDE DEF a, b
  <1>4. /\ s = <<a, b>> /\ a \in Messages /\ b \in Messages
        /\ a.type = "pressure_sample" /\ a.number = n /\ b.type = "module_state"
        /\ NumbersOf(a) = {n} /\ NumbersOf(b) = {}
    BY <1>1, <1>2, <1>3 DEF a, b
  <1>5. DOMAIN s = {1, 2} /\ s[1] = a /\ s[2] = b /\ s \in Seq(Messages)
    BY <1>4, TwoMessages
  <1>6. s = <<a>> \o <<b>> /\ <<a>> \in Seq(Messages) /\ <<b>> \in Seq(Messages)
    <2>1. <<a>> \in Seq(Messages) /\ <<b>> \in Seq(Messages)
      BY <1>4, OneMessage
    <2> HIDE DEF s
    <2>2. <<a, b>> = <<a>> \o <<b>>
      BY <1>4, TwoMessages
    <2>3. QED
      BY <1>4, <2>1, <2>2
  <1> HIDE DEF s
  <1>7. Orderly(s) /\ ~Replaced(s) /\ \A N : (\A x \in N : x < n) => Above(N, s)
    BY <1>4, <1>5 DEF Orderly, Replaced, Above
  <1>8. Numbers(s) = {n}
    BY <1>4, <1>5 DEF Numbers
  <1>9. ASSUME NEW view \in Views PROVE After(view, s).plotted = Plotted(a, view.plotted)
    <2>1. After(view, s) = After(After(view, <<a>>), <<b>>)
      BY <1>6, AfterConcat
    <2>2. After(view, <<a>>) = Applied(a, view)
      BY <1>4, AfterOne
    <2>3. After(Applied(a, view), <<b>>) = Applied(b, Applied(a, view))
      BY <1>4, AfterOne
    <2>4. /\ Applied(a, view) \in Views /\ Applied(a, view).plotted = Plotted(a, view.plotted)
      BY <1>4, ViewFacts
    <2>5. /\ Applied(b, Applied(a, view)).plotted = Plotted(b, Applied(a, view).plotted)
          /\ Applied(a, view).plotted \in Seq(Nat)
      BY <1>4, <2>4, ViewFacts DEF Views
    <2>6. Plotted(b, Applied(a, view).plotted) = Applied(a, view).plotted
      BY <1>4, <2>5, PlottedFacts DEF Draws
    <2>7. QED
      BY <2>1, <2>2, <2>3, <2>4, <2>5, <2>6
  <1>10. QED
    BY <1>5, <1>7, <1>8, <1>9 DEF s, a

LEMMA OrderSent ==
  ASSUME WebTypeOK, OrderInv, NEW messages \in Seq(Messages),
         SendJson(messages) \/ queue' = queue, wire' = wire, plotted' = plotted,
         samples' \in Nat, samples' >= samples,
         Rising(history'), NumbersIn(history') \subseteq 0 .. samples',
         Orderly(messages), Numbers(messages) \subseteq 0 .. samples',
         \A N : N \subseteq 0 .. samples => Above(N, messages)
  PROVE  OrderInv'
  <1>1. queue \in Seq(Messages) /\ wire \in Seq(Messages) /\ samples \in Nat
    BY DEF WebTypeOK
  <1>2. /\ NumbersIn(plotted) \subseteq 0 .. samples /\ Numbers(Under) \subseteq 0 .. samples
        /\ Orderly(Under) /\ Above(NumbersIn(plotted), Under) /\ Rising(plotted)
    BY DEF OrderInv
  <1>3. /\ Orderly(wire \o queue') /\ Above(NumbersIn(plotted), wire \o queue')
        /\ Numbers(wire \o queue') \subseteq Numbers(Under) \cup Numbers(messages)
    <2>1. CASE SendJson(messages)
      BY <1>1, <1>2, <2>1, SendOrder
    <2>2. CASE queue' = queue
      BY <1>2, <2>2 DEF Under
    <2>3. QED
      BY <2>1, <2>2
  <1>4. Numbers(wire \o queue') \subseteq 0 .. samples' /\ NumbersIn(plotted) \subseteq 0 .. samples'
    <2>1. \A n \in 0 .. samples : n \in 0 .. samples'
      BY <1>1
    <2>2. QED
      BY <1>2, <1>3, <2>1
  <1>5. /\ Orderly(Under)' = Orderly(wire \o queue')
        /\ Numbers(Under)' = Numbers(wire \o queue')
        /\ Above(NumbersIn(plotted), Under)' = Above(NumbersIn(plotted), wire \o queue')
        /\ NumbersIn(plotted)' = NumbersIn(plotted) /\ Rising(plotted)' = Rising(plotted)
        /\ NumbersIn(history)' = NumbersIn(history') /\ Rising(history)' = Rising(history')
    BY DEF Orderly, Numbers, Above, NumbersIn, Rising, NumbersOf, Under
  <1>6. QED
    BY <1>2, <1>3, <1>4, <1>5 DEF OrderInv

\* The history of the manager takes the new sample, and loses the oldest one
\* when it is full.
LEMMA HistoryFacts ==
  ASSUME WebTypeOK, IngestReading
  PROVE  /\ samples' = samples + 1 /\ samples \in Nat /\ history' \in Seq(Nat)
         /\ \E c \in 0 .. 1 :
              /\ c <= Len(history) /\ Len(history') = Len(history) + 1 - c
              /\ c # 0 => ServerLimit <= Len(history')
              /\ \A i \in 1 .. Len(history) + 1 - c :
                   history'[i] = IF i + c = Len(history) + 1 THEN samples' ELSE history[i + c]
  <1> DEFINE all == Append(history, samples')
             n == Len(history)
             c == IF Len(all) > ServerLimit THEN 1 ELSE 0
  <1>1. /\ samples' = samples + 1 /\ samples \in Nat
        /\ history' = IF Len(all) > ServerLimit THEN Tail(all) ELSE all
    BY DEF IngestReading, WebTypeOK
  <1>2. history \in Seq(Nat) /\ n \in Nat
    BY DEF WebTypeOK
  <1>3. /\ all \in Seq(Nat) /\ Len(all) = n + 1
        /\ \A i \in 1 .. n + 1 : all[i] = IF i = n + 1 THEN samples' ELSE history[i]
    BY <1>1, <1>2, AppendProperties
  <1>4. c \in 0 .. 1 /\ c <= n /\ (c # 0 => ServerLimit <= n + 1 - c)
    BY <1>2, <1>3, SizeAssumption
  <1> HIDE DEF all, n
  <1>5. /\ history' \in Seq(Nat) /\ Len(history') = n + 1 - c
        /\ \A i \in 1 .. n + 1 - c : history'[i] = all[i + c]
    <2>1. CASE c = 0
      <3>1. history' = all
        BY <1>1, <2>1
      <3>2. QED
        BY <1>2, <1>3, <2>1, <3>1
    <2>2. CASE c = 1
      <3>1. history' = Tail(all) /\ all # <<>>
        BY <1>1, <1>2, <1>3, <2>2
      <3>2. /\ Tail(all) \in Seq(Nat) /\ Len(Tail(all)) = Len(all) - 1
            /\ \A i \in 1 .. Len(Tail(all)) : Tail(all)[i] = all[i + 1]
        BY <1>3, <3>1, HeadTailProperties
      <3>3. Len(Tail(all)) = n + 1 - 1
        BY <1>2, <1>3, <3>2
      <3>4. QED
        BY <2>2, <3>1, <3>2, <3>3
    <2>3. QED
      BY <2>1, <2>2
  <1> HIDE DEF c
  <1>6. ASSUME NEW i \in 1 .. n + 1 - c
        PROVE  history'[i] = IF i + c = n + 1 THEN samples' ELSE history[i + c]
    <2>1. i + c \in 1 .. n + 1
      BY <1>2, <1>4
    <2>2. QED
      BY <1>3, <1>5, <2>1
  <1>7. QED
    BY <1>1, <1>4, <1>5, <1>6 DEF n

LEMMA HistoryRises ==
  ASSUME WebTypeOK, OrderInv, IngestReading
  PROVE  Rising(history') /\ NumbersIn(history') \subseteq 0 .. samples'
  <1> DEFINE n == Len(history)
  <1>1. /\ samples' = samples + 1 /\ samples \in Nat /\ history' \in Seq(Nat)
        /\ history \in Seq(Nat) /\ n \in Nat /\ DOMAIN history = 1 .. n
    BY HistoryFacts DEF WebTypeOK
  <1>2. /\ \A i \in 1 .. n : history[i] \in 0 .. samples
        /\ \A i, j \in 1 .. n : i < j => history[i] < history[j]
    BY <1>1 DEF OrderInv, Rising, NumbersIn
  <1>3. PICK c \in 0 .. 1 :
          /\ c <= n /\ Len(history') = n + 1 - c
          /\ \A i \in 1 .. n + 1 - c :
               history'[i] = IF i + c = n + 1 THEN samples' ELSE history[i + c]
    BY HistoryFacts
  <1> HIDE DEF n
  <1>4. DOMAIN history' = 1 .. n + 1 - c
    BY <1>1, <1>3
  <1>5. ASSUME NEW i \in 1 .. n + 1 - c, NEW j \in 1 .. n + 1 - c, i < j
        PROVE  history'[i] < history'[j]
    <2>1. i + c \in 1 .. n /\ history'[i] = history[i + c]
      BY <1>1, <1>3, <1>5
    <2>2. CASE j + c = n + 1
      BY <1>1, <1>2, <1>3, <2>1, <2>2
    <2>3. CASE j + c # n + 1
      <3>1. j + c \in 1 .. n /\ history'[j] = history[j + c] /\ i + c < j + c
        BY <1>1, <1>3, <1>5, <2>3
      <3>2. QED
        BY <1>2, <2>1, <3>1
    <2>4. QED
      BY <2>2, <2>3
  <1>6. ASSUME NEW i \in 1 .. n + 1 - c PROVE history'[i] \in 0 .. samples'
    <2>1. CASE i + c = n + 1
      BY <1>1, <1>3, <2>1
    <2>2. CASE i + c # n + 1
      <3>1. i + c \in 1 .. n
        BY <1>1, <1>3, <2>2
      <3>2. history'[i] = history[i + c]
        BY <1>3, <2>2
      <3>3. history[i + c] \in 0 .. samples
        BY <1>2, <3>1
      <3>4. QED
        BY <1>1, <3>2, <3>3
    <2>3. QED
      BY <2>1, <2>2
  <1>7. QED
    BY <1>4, <1>5, <1>6 DEF Rising, NumbersIn

LEMMA OrderKept ==
  ASSUME WebTypeOK, WebTypeOK', OrderInv, [Next]_vars
  PROVE  OrderInv'
  <1>1. ASSUME NEW messages \in Seq(Messages), Plain(messages), Broadcast(messages),
               UNCHANGED <<history, samples, link, page>>
        PROVE  OrderInv'
    <2>1. Orderly(messages) /\ Numbers(messages) = {} /\ \A N : Above(N, messages)
      BY <1>1, PlainFacts
    <2>2. SendJson(messages) \/ queue' = queue
      BY <1>1 DEF Broadcast
    <2>3. wire' = wire /\ plotted' = plotted /\ samples' = samples /\ samples \in Nat /\ history' = history
      BY <1>1 DEF link, page, WebTypeOK
    <2>4. Rising(history') /\ NumbersIn(history') \subseteq 0 .. samples'
      BY <2>3 DEF OrderInv
    <2>5. Numbers(messages) \subseteq 0 .. samples' /\ samples' >= samples
      BY <2>1, <2>3
    <2>6. QED
      BY <2>1, <2>2, <2>3, <2>4, <2>5, OrderSent
  <1>2. ASSUME NEW m \in Modules, NEW online \in BOOLEAN, IngestPresence(m, online)
        PROVE  OrderInv'
    <2> DEFINE value == [ValueOf(m) EXCEPT !.seen = TRUE, !.online = online]
    <2>1. value \in Values
      BY ValueTypes, NewValues DEF WebTypeOK
    <2>2. Broadcast(<<State(m, value)>>) /\ UNCHANGED <<history, samples, link, page>>
      BY <1>2 DEF IngestPresence
    <2> HIDE DEF value
    <2>3. <<State(m, value)>> \in Seq(Messages) /\ Plain(<<State(m, value)>>)
      BY <2>1, MessageTypes, OneMessage, StatePlain
    <2>4. QED
      BY <1>1, <2>2, <2>3
  <1>3. ASSUME NEW m \in Modules, HeartbeatTimeout(m) PROVE OrderInv'
    <2> DEFINE value == [known[m] EXCEPT !.online = FALSE]
    <2>1. value \in Values
      BY <1>3, KnownFacts, NewValues DEF HeartbeatTimeout, WebTypeOK
    <2>2. Broadcast(<<State(m, value)>>) /\ UNCHANGED <<history, samples, link, page>>
      BY <1>3 DEF HeartbeatTimeout
    <2> HIDE DEF value
    <2>3. <<State(m, value)>> \in Seq(Messages) /\ Plain(<<State(m, value)>>)
      BY <2>1, MessageTypes, OneMessage, StatePlain
    <2>4. QED
      BY <1>1, <2>2, <2>3
  <1>4. ASSUME NEW m \in Modules, Command(m) PROVE OrderInv'
    <2>1. Broadcast(<<Result>>) /\ UNCHANGED <<history, samples, link, page>>
      BY <1>4 DEF Command
    <2>2. ValueOf(m) \in Values
      BY ValueTypes DEF WebTypeOK
    <2>3. <<Result>> \in Seq(Messages) /\ Plain(<<Result>>)
      BY <2>2, MessageTypes, OneMessage, StatePlain
    <2>4. QED
      BY <1>1, <2>1, <2>3
  <1>5. CASE IngestReading
    <2> DEFINE value == [ValueOf(Gauge) EXCEPT !.seen = TRUE, !.value = samples']
    <2>1. /\ samples' = samples + 1 /\ samples \in Nat /\ samples' \in Nat
          /\ Rising(history') /\ NumbersIn(history') \subseteq 0 .. samples'
      BY <1>5, HistoryFacts, HistoryRises
    <2>2. value \in Values
      BY <2>1, ValueTypes, NewValues, GaugeAssumption DEF WebTypeOK
    <2>3. /\ Broadcast(<<Sample(samples'), State(Gauge, value)>>)
          /\ UNCHANGED <<link, page>>
      BY <1>5 DEF IngestReading
    <2> HIDE DEF value
    <2> DEFINE s == <<Sample(samples'), State(Gauge, value)>>
    <2>4. /\ s \in Seq(Messages) /\ Orderly(s) /\ Numbers(s) = {samples'}
          /\ \A N : (\A x \in N : x < samples') => Above(N, s)
      BY <2>1, <2>2, ReadingOrder
    <2>5. SendJson(s) \/ queue' = queue
      BY <2>3 DEF Broadcast
    <2> HIDE DEF s
    <2>6. \A N : N \subseteq 0 .. samples => Above(N, s)
      <3>1. \A N : N \subseteq 0 .. samples => \A x \in N : x < samples'
        BY <2>1
      <3>2. QED
        BY <2>4, <3>1
    <2>7. Numbers(s) \subseteq 0 .. samples' /\ samples' >= samples
      BY <2>1, <2>4
    <2>8. wire' = wire /\ plotted' = plotted
      BY <2>3 DEF link, page
    <2>9. QED
      BY <2>1, <2>4, <2>5, <2>6, <2>7, <2>8, OrderSent
  <1>6. CASE Accept \/ HandleSubscribe
    <2> DEFINE s == Snapshot(known, history)
    <2>1. known \in Known /\ history \in Seq(Nat) /\ Rising(history) /\ samples \in Nat
          /\ NumbersIn(history) \subseteq 0 .. samples
      BY DEF WebTypeOK, OrderInv
    <2>2. /\ s \in Seq(Messages) /\ Orderly(s) /\ Numbers(s) \subseteq NumbersIn(history)
          /\ \A N : Above(N, s)
      BY <2>1, SnapshotTypes, SnapshotOrder
    <2>3. /\ SendJson(s) /\ wire' = wire /\ plotted' = plotted
          /\ samples' = samples /\ history' = history
      BY <1>6 DEF Accept, HandleSubscribe, manager, page
    <2> HIDE DEF s
    <2>4. /\ samples' \in Nat /\ samples' >= samples /\ Rising(history')
          /\ NumbersIn(history') \subseteq 0 .. samples' /\ Numbers(s) \subseteq 0 .. samples'
      BY <2>1, <2>2, <2>3
    <2>5. QED
      BY <2>2, <2>3, <2>4, OrderSent
  <1>7. CASE SendFrame
    <2>1. Under' = Under
      BY <1>7, SendFrameSettles
    <2>2. plotted' = plotted /\ history' = history /\ samples' = samples
      BY <1>7 DEF SendFrame, manager, page
    <2>3. QED
      BY <2>1, <2>2 DEF OrderInv, Orderly, Numbers, Above, NumbersIn, Rising, NumbersOf
  <1>8. CASE Disconnect \/ Restart
    <2>1. /\ queue' = <<>> /\ wire' = <<>> /\ plotted' = plotted /\ samples' = samples
          /\ history' = history \/ history' = <<>>
      BY <1>8 DEF Disconnect, Restart, Disconnected, manager, page
    <2>2. Under' = <<>>
      BY <2>1 DEF Under
    <2>3. Rising(history)' /\ NumbersIn(history)' \subseteq 0 .. samples'
      <3>1. CASE history' = history
        BY <2>1, <3>1 DEF OrderInv, Rising, NumbersIn
      <3>2. CASE history' = <<>>
        BY <3>2 DEF Rising, NumbersIn
      <3>3. QED
        BY <2>1, <3>1, <3>2
    <2>4. Rising(plotted)' /\ NumbersIn(plotted)' \subseteq 0 .. samples'
      BY <2>1 DEF OrderInv, Rising, NumbersIn
    <2>5. Orderly(Under)' /\ Numbers(Under)' = {} /\ Above(NumbersIn(plotted), Under)'
      BY <2>2 DEF Orderly, Numbers, Above
    <2>6. QED
      BY <2>3, <2>4, <2>5 DEF OrderInv
  <1>9. CASE Receive
    <2> DEFINE x == Head(wire)
               h == <<x>>
               u == Under'
    <2>1. /\ x \in Messages /\ u \in Seq(Messages) /\ Under = h \o u
      BY <1>9, ReceiveFacts
    <2>2. plotted' = Plotted(x, plotted) /\ history' = history /\ samples' = samples
      BY <1>9 DEF Receive, manager
    <2> HIDE DEF x, u
    <2>3. h \in Seq(Messages) /\ DOMAIN h = {1} /\ h[1] = x
      BY <2>1, OneMessage
    <2> HIDE DEF h
    <2>4. /\ Orderly(h) /\ Orderly(u) /\ Above(Numbers(h), u)
          /\ Above(NumbersIn(plotted), h) /\ Above(NumbersIn(plotted), u)
          /\ Numbers(h) \subseteq 0 .. samples /\ Numbers(u) \subseteq 0 .. samples
      <3>1. /\ Orderly(h \o u) /\ Above(NumbersIn(plotted), h \o u)
            /\ Numbers(h \o u) \subseteq 0 .. samples
        BY <2>1 DEF OrderInv
      <3>2. Numbers(h \o u) = Numbers(h) \cup Numbers(u)
        BY <2>1, <2>3, NumbersConcat
      <3>3. QED
        BY <2>1, <2>3, <3>1, <3>2, OrderlyConcat, AboveConcat
    <2>5. Numbers(h) = NumbersOf(x)
      BY <2>3 DEF Numbers
    <2>6. /\ x.type = "history" => Rising(x.samples)
          /\ x.type = "pressure_sample" => \A n \in NumbersIn(plotted) : n < x.number
      BY <2>3, <2>4 DEF Orderly, Above
    <2>7. plotted \in Seq(Nat) /\ Rising(plotted) /\ NumbersIn(plotted) \subseteq 0 .. samples
      BY DEF WebTypeOK, OrderInv
    <2> DEFINE p == Plotted(x, plotted)
    <2>8. Rising(p) /\ NumbersIn(p) \subseteq NumbersIn(plotted) \cup NumbersOf(x)
      BY <2>1, <2>6, <2>7, PlottedRises
    <2> HIDE DEF p
    <2>9. Above(NumbersIn(p), u)
      BY <2>4, <2>5, <2>8 DEF Above
    <2>10. NumbersIn(p) \subseteq 0 .. samples
      BY <2>4, <2>5, <2>7, <2>8
    <2>11. /\ Rising(plotted)' = Rising(p) /\ NumbersIn(plotted)' = NumbersIn(p)
           /\ Rising(history)' = Rising(history) /\ NumbersIn(history)' = NumbersIn(history)
           /\ Orderly(Under)' = Orderly(u) /\ Numbers(Under)' = Numbers(u)
           /\ Above(NumbersIn(plotted), Under)' = Above(NumbersIn(p), u)
      BY <2>2 DEF Orderly, Numbers, Above, NumbersIn, Rising, NumbersOf, p, u
    <2>12. QED
      BY <2>2, <2>4, <2>8, <2>9, <2>10, <2>11 DEF OrderInv
  <1>10. CASE UNCHANGED vars
    BY <1>10 DEF vars, OrderInv, Orderly, Numbers, Above, NumbersIn, Rising, NumbersOf, Under
  <1>11. QED
    BY <1>2, <1>3, <1>4, <1>5, <1>6, <1>7, <1>8, <1>9, <1>10 DEF Next

-----------------------------------------------------------------------------
(* The samples drawn have no gap *)

\* h ends with the numbers up to last, one by one, as far as h goes back and
\* not before first; it goes back as far as S.
Remembers(h, first, last, S) ==
  \A k \in Nat : k < last - first =>
    /\ k < Len(h) => h[Len(h) - k] = last - k
    /\ k \in S => k < Len(h)

\* p is h with n at its end, and without its first c.
Grown(p, h, n, c) ==
  /\ c \in 0 .. Len(h) /\ Len(p) = Len(h) + 1 - c
  /\ \A i \in 1 .. Len(h) + 1 - c : p[i] = IF i + c = Len(h) + 1 THEN n ELSE h[i + c]

\* The next number is taken at the end.
LEMMA RemembersGrows ==
  ASSUME NEW h \in Seq(Nat), NEW first \in Nat, NEW last \in Nat,
         NEW S, \A k \in S : k \in Nat /\ (k # 0 => k - 1 \in S),
         Remembers(h, first, last, S),
         NEW p \in Seq(Nat), NEW c, Grown(p, h, last + 1, c),
         c # 0 => \A k \in S : k < Len(p)
  PROVE  Remembers(p, first, last + 1, S)
  <1> DEFINE n == Len(h)
  <1>1. /\ n \in Nat /\ c \in 0 .. n /\ Len(p) = n + 1 - c
        /\ \A i \in 1 .. n + 1 - c : p[i] = IF i + c = n + 1 THEN last + 1 ELSE h[i + c]
    BY DEF Grown
  <1>2. \A k \in Nat : k < last - first =>
          (k < n => h[n - k] = last - k) /\ (k \in S => k < n)
    BY DEF Remembers
  <1> HIDE DEF n
  <1>3. ASSUME NEW k \in Nat, k < last + 1 - first
        PROVE  /\ k < Len(p) => p[Len(p) - k] = last + 1 - k
               /\ k \in S => k < Len(p)
    <2>1. CASE k = 0
      <3>1. Len(p) \in 1 .. n + 1 - c /\ Len(p) + c = n + 1
        BY <1>1
      <3>2. p[Len(p)] = last + 1
        BY <1>1, <3>1
      <3>3. QED
        BY <1>1, <2>1, <3>1, <3>2
    <2>2. CASE k # 0
      <3>1. PICK j \in Nat : j = k - 1
        BY <2>2
      <3>2. j < last - first
        BY <1>3, <3>1
      <3>3. ASSUME k < Len(p) PROVE p[Len(p) - k] = last + 1 - k
        <4>1. PICK i : i = Len(p) - k
          OBVIOUS
        <4>2. i \in 1 .. n + 1 - c /\ i + c = n - j /\ i + c # n + 1 /\ j < n
          BY <1>1, <2>2, <3>1, <3>3, <4>1
        <4>3. p[i] = h[n - j]
          BY <1>1, <4>2
        <4>4. h[n - j] = last - j
          BY <1>2, <3>2, <4>2
        <4>5. last - j = last + 1 - k
          BY <3>1
        <4>6. QED
          BY <4>1, <4>3, <4>4, <4>5
      <3>4. ASSUME k \in S PROVE k < Len(p)
        <4>1. CASE c # 0
          BY <3>4, <4>1
        <4>2. CASE c = 0
          <5>1. j \in S
            BY <2>2, <3>1, <3>4
          <5>2. j < n
            BY <1>2, <3>2, <5>1
          <5>3. QED
            BY <1>1, <3>1, <4>2, <5>2
        <4>3. QED
          BY <4>1, <4>2
      <3>5. QED
        BY <3>3, <3>4
    <2>3. QED
      BY <2>1, <2>2
  <1>4. QED
    BY <1>3 DEF Remembers

\* How far back the history of the manager goes, and the page.
ServerBack == 0 .. ServerLimit - 1
PageBack == {k \in ServerBack : k < ClientLimit}

LEMMA BackFacts ==
  /\ \A k \in ServerBack : k \in Nat /\ k < ServerLimit /\ (k # 0 => k - 1 \in ServerBack)
  /\ \A k \in PageBack : k \in Nat /\ k < ClientLimit /\ (k # 0 => k - 1 \in PageBack)
  /\ PageBack \subseteq ServerBack
  BY SizeAssumption DEF ServerBack, PageBack

\* The history of the manager is that of its present run.
RunInv ==
  /\ forgotten \in Nat
  /\ Remembers(history, forgotten, samples, ServerBack)

LEMMA RunKept ==
  ASSUME WebTypeOK, RunInv, [Next]_vars
  PROVE  RunInv'
  <1>1. RunInv' = (forgotten' \in Nat /\ Remembers(history', forgotten', samples', ServerBack))
    BY DEF RunInv, Remembers, ServerBack
  <1>2. CASE UNCHANGED <<history, samples, forgotten>>
    BY <1>1, <1>2 DEF RunInv
  <1>3. CASE IngestReading
    <2>1. /\ samples' = samples + 1 /\ samples \in Nat /\ forgotten' = forgotten
          /\ history' \in Seq(Nat) /\ history \in Seq(Nat)
      BY <1>3, HistoryFacts DEF IngestReading, WebTypeOK
    <2>2. PICK c \in 0 .. 1 :
            /\ c <= Len(history) /\ Len(history') = Len(history) + 1 - c
            /\ c # 0 => ServerLimit <= Len(history')
            /\ \A i \in 1 .. Len(history) + 1 - c :
                 history'[i] = IF i + c = Len(history) + 1 THEN samples' ELSE history[i + c]
      BY <1>3, HistoryFacts
    <2>3. PICK q \in Seq(Nat) : q = history'
      BY <2>1
    <2>4. c \in 0 .. Len(history)
      BY <2>1, <2>2
    <2>5. Grown(q, history, samples + 1, c)
      BY <2>1, <2>2, <2>3, <2>4 DEF Grown
    <2>6. c # 0 => \A k \in ServerBack : k < Len(q)
      <3>1. Len(q) \in Nat /\ ServerLimit \in Nat /\ (c # 0 => ServerLimit <= Len(q))
        BY <2>2, <2>3, SizeAssumption
      <3>2. \A k \in ServerBack : k \in Nat /\ k < ServerLimit
        BY BackFacts
      <3>3. QED
        BY <3>1, <3>2
    <2>7. Remembers(q, forgotten, samples + 1, ServerBack)
      BY <2>1, <2>5, <2>6, BackFacts, RemembersGrows DEF RunInv
    <2>8. QED
      BY <1>1, <2>1, <2>3, <2>7 DEF RunInv
  <1>4. CASE Restart
    <2>1. forgotten' = samples /\ samples' = samples /\ samples \in Nat
      BY <1>4 DEF Restart, WebTypeOK
    <2>2. Remembers(history', samples, samples, ServerBack)
      BY <2>1 DEF Remembers
    <2>3. QED
      BY <1>1, <2>1, <2>2
  <1>5. ASSUME NEW m \in Modules,
               (\E online \in BOOLEAN : IngestPresence(m, online)) \/ HeartbeatTimeout(m) \/ Command(m)
        PROVE  UNCHANGED <<history, samples, forgotten>>
    BY <1>5 DEF IngestPresence, HeartbeatTimeout, Command
  <1>6. CASE Accept \/ HandleSubscribe \/ SendFrame \/ Disconnect \/ Receive \/ UNCHANGED vars
    BY <1>2, <1>6 DEF Accept, HandleSubscribe, SendFrame, Disconnect, Receive, manager, vars
  <1>7. QED
    BY <1>2, <1>3, <1>4, <1>5, <1>6 DEF Next

\* A history newer than what was dropped is under way, unless missed says so.
GapInv == missed => ~Replaced(queue)

LEMMA ReplacedConcat ==
  ASSUME NEW s \in Seq(Messages), NEW t \in Seq(Messages)
  PROVE  Replaced(s \o t) <=> Replaced(s) \/ Replaced(t)
  <1>1. ASSUME Replaced(s \o t) PROVE Replaced(s) \/ Replaced(t)
    <2>1. PICK k \in DOMAIN (s \o t) : (s \o t)[k].type = "history"
      BY <1>1 DEF Replaced
    <2>2. CASE k <= Len(s)
      <3>1. k \in DOMAIN s /\ (s \o t)[k] = s[k]
        BY <2>2, ConcatCases
      <3>2. QED
        BY <2>1, <3>1 DEF Replaced
    <2>3. CASE ~ (k <= Len(s))
      <3>1. k - Len(s) \in DOMAIN t /\ (s \o t)[k] = t[k - Len(s)]
        BY <2>3, ConcatCases
      <3>2. QED
        BY <2>1, <3>1 DEF Replaced
    <2>4. QED
      BY <2>2, <2>3
  <1>2. ASSUME Replaced(s) PROVE Replaced(s \o t)
    <2>1. PICK i \in DOMAIN s : s[i].type = "history"
      BY <1>2 DEF Replaced
    <2>2. i \in DOMAIN (s \o t) /\ (s \o t)[i] = s[i]
      BY ConcatCases
    <2>3. QED
      BY <2>1, <2>2 DEF Replaced
  <1>3. ASSUME Replaced(t) PROVE Replaced(s \o t)
    <2>1. PICK i \in DOMAIN t : t[i].type = "history"
      BY <1>3 DEF Replaced
    <2>2. Len(s) + i \in DOMAIN (s \o t) /\ (s \o t)[Len(s) + i] = t[i]
      BY ConcatCases
    <2>3. QED
      BY <2>1, <2>2 DEF Replaced
  <1>4. QED
    BY <1>1, <1>2, <1>3

\* When no sample has been missed, what the queue drops makes no difference to
\* what the page draws.
LEMMA SendDraws ==
  ASSUME WebTypeOK, GapInv, NEW messages \in Seq(Messages), SendJson(messages),
         ~Replaced(messages), ~missed'
  PROVE  /\ ~missed
         /\ After(View, wire \o queue').plotted = After(After(View, Under), messages).plotted
  <1> DEFINE d == Dropped(messages)
             k == Kept(messages)
  <1>1. d \in Seq(Messages) /\ k \in Seq(Messages) /\ queue \o messages = d \o k /\ queue' = k
    BY QueueSplit DEF SendJson, WebTypeOK
  <1>2. Replaced(k) \/ (~missed /\ \A i \in DOMAIN d : ~Draws(d[i]))
    BY DEF SendJson, Draws
  <1> HIDE DEF d, k
  <1>3. queue \in Seq(Messages) /\ wire \in Seq(Messages) /\ View \in Views
    BY DEF WebTypeOK, View, Views
  <1>4. Replaced(k) => Replaced(queue)
    <2>1. Replaced(d \o k) <=> Replaced(d) \/ Replaced(k)
      BY <1>1, ReplacedConcat
    <2>2. Replaced(queue \o messages) <=> Replaced(queue) \/ Replaced(messages)
      BY <1>3, ReplacedConcat
    <2>3. QED
      BY <1>1, <2>1, <2>2
  <1>5. ~missed
    BY <1>2, <1>4 DEF GapInv
  <1> DEFINE w == After(View, wire)
  <1>6. w \in Views
    BY <1>3, AfterIsView
  <1>7. After(View, wire \o k) = After(w, k)
    BY <1>1, <1>3, AfterConcat
  <1>8. After(View, Under) = After(w, queue)
    BY <1>3, AfterConcat DEF Under
  <1> HIDE DEF w
  <1>9. After(w, queue \o messages) = After(After(w, queue), messages)
    BY <1>3, AfterConcat
  <1>10. After(w, d \o k) = After(After(w, d), k)
    BY <1>1, AfterConcat
  <1>11. After(w, d) \in Views
    BY <1>1, <1>6, AfterIsView
  <1>12. Replaced(k) \/ w.plotted = After(w, d).plotted
    BY <1>1, <1>2, <1>6, AfterDrawnNothing
  <1>13. After(w, k).plotted = After(After(w, d), k).plotted
    BY <1>1, <1>6, <1>11, <1>12, SamePlotted
  <1>14. QED
    BY <1>1, <1>5, <1>7, <1>8, <1>9, <1>10, <1>13

\* A connected page that has missed nothing draws the end of this run.
DrawInv == connected /\ ~missed => Remembers(FinallyPlotted, forgotten, samples, PageBack)

LEMMA DrawInvNext ==
  DrawInv' = (connected' /\ ~missed' =>
                Remembers(FinallyPlotted', forgotten', samples', PageBack))
  BY DEF DrawInv, Remembers, PageBack, ServerBack

LEMMA FinallyDrawn ==
  /\ FinallyPlotted = After(View, Under).plotted
  /\ FinallyPlotted' = After(View', Under').plotted
  BY DEF FinallyPlotted, Finally, View

LEMMA FinallyTypes ==
  ASSUME WebTypeOK
  PROVE  /\ View \in Views /\ Under \in Seq(Messages) /\ After(View, Under) \in Views
         /\ FinallyPlotted \in Seq(Nat)
  <1>1. View \in Views /\ Under \in Seq(Messages)
    BY ConcatProperties DEF View, Views, WebTypeOK, Under
  <1>2. After(View, Under) \in Views
    BY <1>1, AfterIsView
  <1>3. QED
    BY <1>1, <1>2, FinallyDrawn DEF Views

LEMMA SendGap ==
  ASSUME queue \in Seq(Messages), NEW messages \in Seq(Messages), SendJson(messages)
  PROVE  GapInv'
  <1>1. queue' = Kept(messages) /\ (missed' => ~Replaced(Kept(messages)))
    BY QueueSplit DEF SendJson
  <1>2. Replaced(queue)' = Replaced(queue')
    BY DEF Replaced
  <1>3. QED
    BY <1>1, <1>2 DEF GapInv

\* What is drawn after a broadcast that does not replace it.
LEMMA BroadcastDraws ==
  ASSUME WebTypeOK, GapInv, LinkInv, NEW messages \in Seq(Messages), Broadcast(messages),
         ~Replaced(messages), UNCHANGED <<link, page>>
  PROVE  /\ GapInv'
         /\ connected' /\ ~missed' =>
              /\ connected /\ ~missed
              /\ FinallyPlotted' = After(After(View, Under), messages).plotted
  <1>1. connected' = connected /\ wire' = wire /\ View' = View /\ queue \in Seq(Messages)
    BY DEF link, page, View, WebTypeOK
  <1>2. CASE connected
    <2>1. SendJson(messages)
      BY <1>2 DEF Broadcast
    <2>2. Under' = wire \o queue'
      BY <1>1 DEF Under
    <2>3. GapInv'
      BY <1>1, <2>1, SendGap
    <2>4. ASSUME ~missed'
          PROVE  ~missed /\ FinallyPlotted' = After(After(View, Under), messages).plotted
      <3>1. /\ ~missed
            /\ After(View, wire \o queue').plotted = After(After(View, Under), messages).plotted
        BY <2>1, <2>4, SendDraws
      <3>2. QED
        BY <1>1, <2>2, <3>1, FinallyDrawn
    <2>5. QED
      BY <1>2, <2>3, <2>4
  <1>3. CASE ~connected
    <2>1. queue' = queue /\ missed' = missed /\ ~connected'
      BY <1>1, <1>3 DEF Broadcast
    <2>2. GapInv'
      BY <2>1 DEF GapInv, Replaced
    <2>3. QED
      BY <2>1, <2>2
  <1>4. QED
    BY <1>2, <1>3

LEMMA PlainDraws ==
  ASSUME WebTypeOK, GapInv, LinkInv, DrawInv, NEW messages \in Seq(Messages),
         Broadcast(messages), Plain(messages), UNCHANGED <<samples, forgotten, link, page>>
  PROVE  GapInv' /\ DrawInv'
  <1>1. ~Replaced(messages)
    BY PlainFacts
  <1>2. /\ GapInv'
        /\ connected' /\ ~missed' =>
             /\ connected /\ ~missed
             /\ FinallyPlotted' = After(After(View, Under), messages).plotted
    BY <1>1, BroadcastDraws
  <1>3. After(After(View, Under), messages).plotted = FinallyPlotted
    BY FinallyTypes, FinallyDrawn, AfterDrawnNothing DEF Plain
  <1>4. QED
    BY <1>2, <1>3, DrawInvNext DEF DrawInv

LEMMA ReadingDraws ==
  ASSUME WebTypeOK, GapInv, LinkInv, RunInv, DrawInv, IngestReading
  PROVE  GapInv' /\ DrawInv'
  <1> DEFINE value == [ValueOf(Gauge) EXCEPT !.seen = TRUE, !.value = samples']
  <1>1. samples' = samples + 1 /\ samples \in Nat
    BY DEF IngestReading, WebTypeOK
  <1>2. forgotten' = forgotten /\ forgotten \in Nat
    BY DEF IngestReading, RunInv
  <1>3. value \in Values
    <2>1. samples' \in Nat
      BY <1>1
    <2>2. QED
      BY <2>1, ValueTypes, NewValues, GaugeAssumption DEF WebTypeOK
  <1>4. Broadcast(<<Sample(samples'), State(Gauge, value)>>) /\ UNCHANGED <<link, page>>
    BY DEF IngestReading
  <1> HIDE DEF value
  <1> DEFINE s == <<Sample(samples'), State(Gauge, value)>>
             w == After(View, Under)
             h == FinallyPlotted
             x == Sample(samples')
             p == Plotted(x, h)
  <1>5. samples' \in Nat
    BY <1>1
  <1>6. /\ s \in Seq(Messages) /\ ~Replaced(s)
        /\ \A view \in Views : After(view, s).plotted = Plotted(x, view.plotted)
    BY <1>3, <1>5, ReadingOrder
  <1>7. Broadcast(s)
    BY <1>4
  <1> HIDE DEF s
  <1>8. /\ GapInv'
        /\ connected' /\ ~missed' =>
             connected /\ ~missed /\ FinallyPlotted' = After(w, s).plotted
    BY <1>4, <1>6, <1>7, BroadcastDraws
  <1>9. w \in Views /\ w.plotted = h /\ h \in Seq(Nat)
    BY FinallyTypes, FinallyDrawn
  <1>10. After(w, s).plotted = p
    BY <1>6, <1>9
  <1>11. x \in Messages /\ x.type = "pressure_sample" /\ x.number = samples'
    BY <1>5, MessageTypes DEF Sample
  <1> HIDE DEF x, h
  <1>12. /\ p \in Seq(Nat) /\ Cut(h) \in 0 .. Len(h) /\ Len(p) = Len(h) + 1 - Cut(h)
         /\ \A i \in 1 .. Len(h) + 1 - Cut(h) :
              p[i] = IF i + Cut(h) = Len(h) + 1 THEN x.number ELSE h[i + Cut(h)]
    BY <1>9, <1>11, PlottedFacts
  <1> HIDE DEF p
  <1>13. Grown(p, h, samples + 1, Cut(h))
    BY <1>1, <1>11, <1>12 DEF Grown
  <1>14. Cut(h) # 0 => \A k \in PageBack : k < Len(p)
    <2>1. Cut(h) # 0 => Len(p) = ClientLimit
      BY <1>9, <1>12, SizeAssumption DEF Cut
    <2>2. QED
      BY <2>1, BackFacts
  <1>15. Remembers(h, forgotten, samples, PageBack) =>
           Remembers(p, forgotten, samples + 1, PageBack)
    BY <1>1, <1>2, <1>9, <1>12, <1>13, <1>14, BackFacts, RemembersGrows
  <1>16. QED
    BY <1>1, <1>2, <1>8, <1>10, <1>15, DrawInvNext DEF DrawInv, h

LEMMA SnapshotDraws ==
  ASSUME WebTypeOK, OrderInv, RunInv, SendJson(Snapshot(known, history)),
         UNCHANGED <<samples, forgotten, wire, page>>
  PROVE  GapInv' /\ DrawInv'
  <1> DEFINE s == Snapshot(known, history)
  <1>1. known \in Known /\ history \in Seq(Nat) /\ Rising(history) /\ queue \in Seq(Messages)
    BY DEF WebTypeOK, OrderInv
  <1>2. /\ s \in Seq(Messages) /\ s # <<>>
        /\ history # <<>> => s[Len(s)].type = "history" /\ s[Len(s)].samples = history
    BY <1>1, SnapshotTypes, SnapshotOrder
  <1>3. SendJson(s)
    OBVIOUS
  <1> HIDE DEF s
  <1>4. GapInv'
    BY <1>1, <1>2, <1>3, SendGap
  <1> DEFINE k == queue'
  <1>5. k \in Seq(Messages) /\ k # <<>> /\ k[Len(k)] = s[Len(s)]
    BY <1>1, <1>2, <1>3, QueueSplit DEF SendJson
  <1>6. View' = View /\ wire' = wire
    BY DEF View, page
  <1>7. FinallyPlotted' = After(View, wire \o k).plotted
    BY <1>6, FinallyDrawn DEF Under
  <1>8. wire \in Seq(Messages) /\ View \in Views
    BY DEF WebTypeOK, View, Views
  <1> HIDE DEF k
  <1>9. After(View, wire \o k) = After(After(View, wire), k) /\ After(View, wire) \in Views
    BY <1>5, <1>8, AfterConcat, AfterIsView
  <1>10. Remembers(FinallyPlotted', forgotten, samples, PageBack)
    <2>1. CASE history = <<>>
      <3>1. ~ (0 < samples - forgotten)
        <4>1. 0 \in ServerBack /\ Len(history) = 0
          BY <2>1, SizeAssumption DEF ServerBack
        <4>2. QED
          BY <4>1 DEF RunInv, Remembers
      <3>2. samples \in Nat /\ forgotten \in Nat
        BY DEF WebTypeOK, RunInv
      <3>3. QED
        BY <3>1, <3>2 DEF Remembers
    <2>2. CASE history # <<>>
      <3>1. k[Len(k)].type = "history" /\ k[Len(k)].samples = history
        BY <1>2, <1>5, <2>2
      <3>2. After(After(View, wire), k).plotted = history
        BY <1>5, <1>9, <3>1, AfterHistory
      <3>3. FinallyPlotted' = history
        BY <1>7, <1>9, <3>2
      <3>4. QED
        BY <3>3, BackFacts DEF RunInv, Remembers
    <2>3. QED
      BY <2>1, <2>2
  <1>11. QED
    BY <1>4, <1>10, DrawInvNext

LEMMA DrawKept ==
  ASSUME WebTypeOK, LinkInv, OrderInv, RunInv, GapInv, DrawInv, [Next]_vars
  PROVE  GapInv' /\ DrawInv'
  <1>1. ASSUME NEW m \in Modules, NEW online \in BOOLEAN, IngestPresence(m, online)
        PROVE  GapInv' /\ DrawInv'
    <2> DEFINE value == [ValueOf(m) EXCEPT !.seen = TRUE, !.online = online]
    <2>1. value \in Values
      BY ValueTypes, NewValues DEF WebTypeOK
    <2>2. Broadcast(<<State(m, value)>>) /\ UNCHANGED <<samples, forgotten, link, page>>
      BY <1>1 DEF IngestPresence
    <2> HIDE DEF value
    <2>3. <<State(m, value)>> \in Seq(Messages) /\ Plain(<<State(m, value)>>)
      BY <2>1, MessageTypes, OneMessage, StatePlain
    <2>4. QED
      BY <2>2, <2>3, PlainDraws
  <1>2. ASSUME NEW m \in Modules, HeartbeatTimeout(m) PROVE GapInv' /\ DrawInv'
    <2> DEFINE value == [known[m] EXCEPT !.online = FALSE]
    <2>1. value \in Values
      BY <1>2, KnownFacts, NewValues DEF HeartbeatTimeout, WebTypeOK
    <2>2. Broadcast(<<State(m, value)>>) /\ UNCHANGED <<samples, forgotten, link, page>>
      BY <1>2 DEF HeartbeatTimeout
    <2> HIDE DEF value
    <2>3. <<State(m, value)>> \in Seq(Messages) /\ Plain(<<State(m, value)>>)
      BY <2>1, MessageTypes, OneMessage, StatePlain
    <2>4. QED
      BY <2>2, <2>3, PlainDraws
  <1>3. ASSUME NEW m \in Modules, Command(m) PROVE GapInv' /\ DrawInv'
    <2>1. Broadcast(<<Result>>) /\ UNCHANGED <<samples, forgotten, link, page>>
      BY <1>3 DEF Command
    <2>2. ValueOf(m) \in Values
      BY ValueTypes DEF WebTypeOK
    <2>3. <<Result>> \in Seq(Messages) /\ Plain(<<Result>>)
      BY <2>2, MessageTypes, OneMessage, StatePlain
    <2>4. QED
      BY <2>1, <2>3, PlainDraws
  <1>4. CASE IngestReading
    BY <1>4, ReadingDraws
  <1>5. CASE Accept \/ HandleSubscribe
    <2>1. SendJson(Snapshot(known, history)) /\ UNCHANGED <<samples, forgotten, wire, page>>
      BY <1>5 DEF Accept, HandleSubscribe, manager
    <2>2. QED
      BY <2>1, SnapshotDraws
  <1>6. CASE SendFrame
    <2>1. /\ Under' = Under /\ queue' \in Seq(Messages)
          /\ queue = <<Head(queue)>> \o queue' /\ Head(queue) \in Messages
      BY <1>6, SendFrameSettles
    <2>2. /\ View' = View /\ samples' = samples /\ forgotten' = forgotten
          /\ connected' = connected /\ missed' = missed
      BY <1>6 DEF SendFrame, manager, page, View
    <2>3. FinallyPlotted' = FinallyPlotted
      BY <2>1, <2>2, FinallyDrawn
    <2>4. Replaced(queue') => Replaced(queue)
      <3> DEFINE h == <<Head(queue)>>
      <3>1. h \in Seq(Messages) /\ queue = h \o queue'
        BY <2>1, OneMessage
      <3> HIDE DEF h
      <3>2. Replaced(h \o queue') <=> Replaced(h) \/ Replaced(queue')
        BY <2>1, <3>1, ReplacedConcat
      <3>3. QED
        BY <3>1, <3>2
    <2>5. Replaced(queue)' = Replaced(queue')
      BY DEF Replaced
    <2>6. QED
      BY <2>2, <2>3, <2>4, <2>5 DEF GapInv, DrawInv
  <1>7. CASE Disconnect \/ Restart
    BY <1>7 DEF Disconnect, Restart, Disconnected, GapInv, DrawInv
  <1>8. CASE Receive
    <2> DEFINE x == Head(wire)
               h == <<x>>
               u == Under'
    <2>1. /\ x \in Messages /\ u \in Seq(Messages) /\ Under = h \o u
          /\ View' = Applied(x, View)
      BY <1>8, ReceiveFacts
    <2>2. /\ samples' = samples /\ forgotten' = forgotten /\ connected' = connected
          /\ missed' = missed /\ queue' = queue
      BY <1>8 DEF Receive, manager
    <2> HIDE DEF x
    <2>3. h \in Seq(Messages) /\ After(View, h) = Applied(x, View)
      BY <2>1, OneMessage, AfterOne
    <2> HIDE DEF h, u
    <2>4. After(View, h \o u) = After(After(View, h), u)
      BY <2>1, <2>3, AfterConcat
    <2>5. FinallyPlotted' = After(View', u).plotted
      BY FinallyDrawn DEF u
    <2>6. FinallyPlotted = After(View, h \o u).plotted
      BY <2>1, FinallyDrawn
    <2>7. FinallyPlotted' = FinallyPlotted
      BY <2>1, <2>3, <2>4, <2>5, <2>6
    <2>8. Replaced(queue)' = Replaced(queue)
      BY <2>2 DEF Replaced
    <2>9. QED
      BY <2>2, <2>7, <2>8 DEF GapInv, DrawInv
  <1>9. CASE UNCHANGED vars
    <2>1. /\ View' = View /\ Under' = Under /\ samples' = samples /\ forgotten' = forgotten /\ connected' = connected
          /\ missed' = missed /\ queue' = queue
      BY <1>9 DEF vars, View, Under
    <2>2. FinallyPlotted' = FinallyPlotted
      BY <2>1, FinallyDrawn
    <2>3. QED
      BY <2>1, <2>2 DEF GapInv, DrawInv, Replaced
  <1>10. QED
    BY <1>1, <1>2, <1>3, <1>4, <1>5, <1>6, <1>7, <1>8, <1>9 DEF Next

LEMMA DrawnIsTrue ==
  ASSUME WebTypeOK, OrderInv, RunInv, DrawInv
  PROVE  HistoryTrue
  <1>1. /\ View \in Views /\ Under \in Seq(Messages) /\ FinallyPlotted \in Seq(Nat)
        /\ FinallyPlotted = After(View, Under).plotted
    BY FinallyTypes, FinallyDrawn
  <1>2. Rising(View.plotted) /\ Orderly(Under) /\ Above(NumbersIn(View.plotted), Under)
    BY DEF View, OrderInv
  <1>3. Rising(FinallyPlotted)
    BY <1>1, <1>2, AfterRises
  <1>4. ASSUME connected, ~missed, NEW k \in 0 .. samples - forgotten - 1
        PROVE  /\ k < Len(FinallyPlotted) =>
                    FinallyPlotted[Len(FinallyPlotted) - k] = samples - k
               /\ k < ClientLimit /\ k < ServerLimit => k < Len(FinallyPlotted)
    <2>1. samples \in Nat /\ forgotten \in Nat
      BY DEF WebTypeOK, RunInv
    <2>2. k \in Nat /\ k < samples - forgotten
      BY <2>1
    <2>3. k < ClientLimit /\ k < ServerLimit => k \in PageBack
      BY <2>2, SizeAssumption DEF PageBack, ServerBack
    <2>4. QED
      BY <1>4, <2>2, <2>3 DEF DrawInv, Remembers
  <1>5. QED
    BY <1>3, <1>4 DEF HistoryTrue, Rising

\* The samples drawn never repeat or go back, through reconnections, overflows
\* and restarts of the manager; and those of this run of the manager have no
\* gap and are there as far as the page and the manager remember, unless the
\* queue of this connection dropped some.
THEOREM GraphIsTrue == Spec => []HistoryTrue
  <1> DEFINE Inv == WebTypeOK /\ LinkInv /\ ViewInv /\ OrderInv /\ RunInv /\ GapInv /\ DrawInv
  <1>1. Init => Inv
    <2> SUFFICES ASSUME Init PROVE Inv
      OBVIOUS
    <2>1. Under = <<>> /\ plotted = <<>> /\ history = <<>> /\ samples = 0
      BY DEF Init, Under
    <2>2. OrderInv
      BY <2>1 DEF OrderInv, Orderly, Numbers, Above, NumbersIn, Rising
    <2>3. RunInv
      BY DEF Init, RunInv, Remembers
    <2>4. QED
      BY <2>2, <2>3, WebInitTypes DEF Init, LinkInv, ViewInv, GapInv, DrawInv
  <1>2. Inv /\ [Next]_vars => Inv'
    <2> SUFFICES ASSUME Inv, [Next]_vars PROVE Inv'
      OBVIOUS
    <2>1. WebTypeOK'
      BY WebTypesKept
    <2>2. LinkInv' /\ ViewInv'
      BY ViewKept
    <2>3. OrderInv'
      BY <2>1, OrderKept
    <2>4. RunInv'
      BY RunKept
    <2>5. GapInv' /\ DrawInv'
      BY DrawKept
    <2>6. QED
      BY <2>1, <2>2, <2>3, <2>4, <2>5
  <1>3. Inv => HistoryTrue
    BY DrawnIsTrue
  <1>4. QED
    BY <1>1, <1>2, <1>3, PTL DEF Spec
=============================================================================
