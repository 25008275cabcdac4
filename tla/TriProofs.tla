------------------------------ MODULE TriProofs ------------------------------
(***************************************************************************)
(* What TriClient does in the right order, for any frames, images and      *)
(* resizes: it destroys nothing the device still uses, and frees each      *)
(* command buffer before its pool.  Both are about the calls that remain:  *)
(* which may come first, and which follow which.                           *)
(***************************************************************************)
EXTENDS TriClient, TLAPS, SequenceTheorems, FiniteSetTheorems

Sequence(s) == s \in Seq(Range(s))

LEMMA SequenceOf ==
    ASSUME NEW S, NEW s \in Seq(S)
    PROVE  Sequence(s) /\ Len(s) \in Nat /\ DOMAIN s = 1..Len(s)
<1>1. Len(s) \in Nat /\ DOMAIN s = 1..Len(s) /\ s = [i \in 1..Len(s) |-> s[i]]
  OBVIOUS
<1>2. s \in [1..Len(s) -> Range(s)]
  BY ONLY <1>1 DEF Range
<1>3. s \in Seq(Range(s))
  BY ONLY <1>1, <1>2, SeqDef
<1> QED BY <1>1, <1>3 DEF Sequence

LEMMA SequenceType ==
    ASSUME NEW s, Sequence(s)
    PROVE  Len(s) \in Nat /\ DOMAIN s = 1..Len(s) /\ Range(s) = {s[i] : i \in 1..Len(s)}
<1>1. s \in Seq(Range(s))
  BY DEF Sequence
<1>2. Len(s) \in Nat /\ DOMAIN s = 1..Len(s)
  BY ONLY <1>1
<1> QED BY <1>2 DEF Range

LEMMA ConcatSequence ==
    ASSUME NEW s, NEW t, Sequence(s), Sequence(t)
    PROVE  /\ Sequence(s \o t) /\ Len(s \o t) = Len(s) + Len(t)
           /\ \A i \in 1..Len(s) : (s \o t)[i] = s[i]
           /\ \A i \in 1..Len(t) : (s \o t)[i + Len(s)] = t[i]
           /\ \A i \in 1..Len(s) + Len(t) : i \in 1..Len(s) \/ i - Len(s) \in 1..Len(t)
<1> DEFINE S == Range(s) \cup Range(t)
<1>1. Len(s) \in Nat /\ Len(t) \in Nat /\ s \in [1..Len(s) -> S] /\ t \in [1..Len(t) -> S]
  <2>1. /\ s \in Seq(Range(s)) /\ t \in Seq(Range(t)) /\ Len(s) \in Nat /\ Len(t) \in Nat
        /\ DOMAIN s = 1..Len(s) /\ DOMAIN t = 1..Len(t)
    BY SequenceType DEF Sequence
  <2>2. s \in [1..Len(s) -> Range(s)] /\ t \in [1..Len(t) -> Range(t)]
    BY ONLY <2>1
  <2> QED BY ONLY <2>1, <2>2
<1> HIDE DEF S
<1>2. s \in Seq(S) /\ t \in Seq(S)
  BY ONLY <1>1
<1>3. /\ s \o t \in Seq(S) /\ Len(s \o t) = Len(s) + Len(t)
      /\ \A i \in 1..Len(s) + Len(t) : (s \o t)[i] = IF i <= Len(s) THEN s[i] ELSE t[i - Len(s)]
  BY ONLY <1>2, ConcatProperties
<1>4. Sequence(s \o t)
  BY ONLY <1>3, SequenceOf
<1>5. /\ \A i \in 1..Len(s) : i \in 1..Len(s) + Len(t) /\ i <= Len(s)
      /\ \A i \in 1..Len(t) : /\ i + Len(s) \in 1..Len(s) + Len(t) /\ ~(i + Len(s) <= Len(s))
                              /\ (i + Len(s)) - Len(s) = i
      /\ \A i \in 1..Len(s) + Len(t) : i \in 1..Len(s) \/ i - Len(s) \in 1..Len(t)
  BY ONLY <1>1
<1> QED BY ONLY <1>3, <1>4, <1>5

LEMMA TailSequence ==
    ASSUME NEW s, Sequence(s), s # <<>>
    PROVE  /\ Sequence(Tail(s)) /\ Len(s) \in Nat \ {0} /\ Len(Tail(s)) = Len(s) - 1
           /\ Head(s) = s[1] /\ \A i \in 1..Len(s) - 1 : Tail(s)[i] = s[i + 1]
<1>1. s \in Seq(Range(s))
  BY DEF Sequence
<1>2. /\ Tail(s) \in Seq(Range(s)) /\ Len(s) \in Nat \ {0} /\ Len(Tail(s)) = Len(s) - 1
      /\ Head(s) = s[1] /\ \A i \in 1..Len(s) - 1 : Tail(s)[i] = s[i + 1]
  BY ONLY <1>1, s # <<>>
<1> QED BY ONLY <1>2, SequenceOf

(* A submission is the last one, the ones before stay. *)
LEMMA AppendSequence ==
    ASSUME NEW s, NEW e, Sequence(s)
    PROVE  /\ Sequence(Append(s, e)) /\ Len(Append(s, e)) = Len(s) + 1 /\ Last(Append(s, e)) = e
           /\ Range(Append(s, e)) = Range(s) \cup {e} /\ Append(s, e) # <<>>
<1> DEFINE S == Range(s) \cup {e}
           u == Append(s, e)
<1>1. Len(s) \in Nat /\ DOMAIN s = 1..Len(s) /\ Range(s) = {s[i] : i \in 1..Len(s)}
      /\ s \in [1..Len(s) -> Range(s)]
  <2>1. Len(s) \in Nat /\ DOMAIN s = 1..Len(s) /\ Range(s) = {s[i] : i \in 1..Len(s)}
    BY SequenceType
  <2>2. s \in Seq(Range(s))
    BY DEF Sequence
  <2> QED BY ONLY <2>1, <2>2
<1>2. s \in Seq(S)
  <2>1. s \in [1..Len(s) -> S]
    BY ONLY <1>1
  <2> HIDE DEF S
  <2> QED BY ONLY <1>1, <2>1
<1>3. /\ u \in Seq(S) /\ Len(u) = Len(s) + 1 /\ u[Len(s) + 1] = e
      /\ \A i \in 1..Len(s) : u[i] = s[i]
  <2>1. e \in S
    OBVIOUS
  <2> HIDE DEF S
  <2> QED BY ONLY <1>2, <2>1, AppendProperties DEF u
<1> HIDE DEF u
<1>4. Sequence(u) /\ DOMAIN u = 1..Len(s) + 1
  BY <1>3, SequenceOf
<1>5. Range(u) = Range(s) \cup {e}
  <2>1. \A i \in 1..Len(s) + 1 : i \in 1..Len(s) \/ i = Len(s) + 1
    BY ONLY <1>1
  <2>2. (\A i \in 1..Len(s) : i \in 1..Len(s) + 1) /\ Len(s) + 1 \in 1..Len(s) + 1
    BY ONLY <1>1
  <2>3. Range(u) = {u[i] : i \in 1..Len(s) + 1}
    BY ONLY <1>4 DEF Range
  <2> QED BY ONLY <1>1, <1>3, <2>1, <2>2, <2>3
<1>6. u # <<>>
  BY ONLY <1>1, <1>3
<1> QED BY <1>3, <1>4, <1>5, <1>6 DEF Last, u
-----------------------------------------------------------------------------
(* How the calls of the program follow each other: a submission is waited  *)
(* for, a present as well, which is made of what has been drawn before; a  *)
(* command buffer is freed before the pool, the set-up one first, and its  *)
(* field is cleared once it is freed.  main ends in the loop of demo_run,  *)
(* demo_cleanup in its return.                                             *)
Destroys(c, o) == c[1] = "destroy" /\ c[2] = o

Linkable(a, b) ==
    /\ b[1] # "connect"
    /\ b[1] = "setup_null" => Destroys(a, SetupCmd)
    /\ Destroys(b, CmdPool) => Destroys(a, DrawCmd)
    /\ Destroys(b, DrawCmd) => Destroys(a, SetupCmd) \/ a[1] = "free_setup"

Ends == {"run", "return"}

(* Barriers are for images, and only they allocate the set-up commands. *)
Spares(c) ==
    /\ c[1] \in {"barrier", "copy"} => c[2][1][1] = "image"
    /\ c[1] \in {"create", "memory"} => c[2] # SetupCmd

Obeys(s) ==
    /\ Sequence(s)
    /\ \A k \in 1..Len(s) :
           /\ s[k][1] \in {"submit_setup", "present"} => k < Len(s) /\ s[k + 1][1] = "idle"
           /\ s[k][1] = "draw" => k < Len(s) /\ s[k + 1][1] = "present"
           /\ Spares(s[k])
           /\ s[k][1] \in Ends => k = Len(s)
           /\ k > 1 => Linkable(s[k - 1], s[k])

(* A call that may come behind any other one, and calls that begin so.     *)
Free(c) == /\ c[1] \notin {"connect", "setup_null"}
           /\ ~Destroys(c, CmdPool) /\ ~Destroys(c, DrawCmd)
Opens(s) == s # <<>> => Free(s[1])
Endless(s) == \A k \in 1..Len(s) : s[k][1] \notin Ends

Good(s) == Obeys(s) /\ Opens(s) /\ Endless(s)

(* Calls that begin no frame and end none. *)
Frames == {"acquire", "draw", "present", "run"}
Calm(s) == \A k \in 1..Len(s) : s[k][1] \notin Frames

(* Most calls may come anywhere. *)
PlainCall(c) ==
    /\ Free(c)
    /\ c[1] \notin Frames \cup {"submit_setup", "return"}
    /\ Spares(c)
Plain(s) == Sequence(s) /\ \A k \in 1..Len(s) : PlainCall(s[k])

LEMMA PlainGood ==
    ASSUME NEW s, Plain(s)
    PROVE  Good(s) /\ Calm(s)
<1>1. Sequence(s) /\ Len(s) \in Nat
  BY SequenceType DEF Plain
<1>2. \A k \in 1..Len(s) : PlainCall(s[k])
  BY DEF Plain
<1>3. \A a, b : PlainCall(b) => Linkable(a, b)
  BY DEF PlainCall, Free, Linkable
<1>4. s # <<>> => 1 \in 1..Len(s)
  BY <1>1, EmptySeq DEF Sequence
<1>5. Opens(s)
  BY ONLY <1>2, <1>4 DEF Opens, PlainCall
<1>6. Endless(s) /\ Calm(s)
  BY ONLY <1>2 DEF Endless, Calm, PlainCall, Ends, Frames
<1>7. Obeys(s)
  BY ONLY <1>1, <1>2, <1>3 DEF Obeys, PlainCall, Ends, Frames
<1> QED BY <1>5, <1>6, <1>7 DEF Good

LEMMA PlainConcat ==
    ASSUME NEW s, NEW t, Plain(s), Plain(t)
    PROVE  Plain(s \o t)
<1>1. /\ Sequence(s \o t) /\ Len(s \o t) = Len(s) + Len(t)
      /\ \A i \in 1..Len(s) : (s \o t)[i] = s[i]
      /\ \A i \in 1..Len(t) : (s \o t)[i + Len(s)] = t[i]
      /\ \A i \in 1..Len(s) + Len(t) : i \in 1..Len(s) \/ i - Len(s) \in 1..Len(t)
  BY ConcatSequence DEF Plain
<1>2. Len(s) \in Nat /\ Len(t) \in Nat
  BY SequenceType DEF Plain
<1>3. ASSUME NEW i \in 1..Len(s) + Len(t) PROVE PlainCall((s \o t)[i])
  <2>1. (i - Len(s)) + Len(s) = i
    BY <1>2
  <2> QED BY <1>1, <2>1 DEF Plain
<1> QED BY ONLY <1>1, <1>3 DEF Plain

(* Calls one after the other obey if they do, and if those where they meet *)
(* may follow each other.                                                  *)
LEMMA ObeysConcat ==
    ASSUME NEW s, NEW t, Obeys(s), Obeys(t), Endless(s),
           s # <<>> /\ t # <<>> => Linkable(s[Len(s)], t[1])
    PROVE  Obeys(s \o t)
<1> DEFINE u == s \o t
           n == Len(s)
           m == Len(t)
<1>1. /\ Sequence(u) /\ Len(u) = n + m
      /\ \A i \in 1..n : u[i] = s[i]
      /\ \A i \in 1..m : u[i + n] = t[i]
      /\ \A i \in 1..n + m : i \in 1..n \/ i - n \in 1..m
  BY ConcatSequence DEF Obeys
<1>2. n \in Nat /\ m \in Nat
  BY SequenceType DEF Obeys
<1>3. (n > 0 => s # <<>>) /\ (m > 0 => t # <<>>)
  BY <1>2
<1>4. \A k \in 1..n :
         /\ s[k][1] \in {"submit_setup", "present"} => k < n /\ s[k + 1][1] = "idle"
         /\ s[k][1] = "draw" => k < n /\ s[k + 1][1] = "present"
         /\ Spares(s[k])
         /\ s[k][1] \notin Ends
         /\ k > 1 => Linkable(s[k - 1], s[k])
  BY DEF Obeys, Endless
<1>5. \A k \in 1..m :
         /\ t[k][1] \in {"submit_setup", "present"} => k < m /\ t[k + 1][1] = "idle"
         /\ t[k][1] = "draw" => k < m /\ t[k + 1][1] = "present"
         /\ Spares(t[k])
         /\ t[k][1] \in Ends => k = m
         /\ k > 1 => Linkable(t[k - 1], t[k])
  BY DEF Obeys
<1>6. n > 0 /\ m > 0 => Linkable(s[n], t[1])
  BY <1>3
<1> HIDE DEF u, n, m
<1>7. ASSUME NEW k \in 1..n + m
      PROVE  /\ u[k][1] \in {"submit_setup", "present"} => k < n + m /\ u[k + 1][1] = "idle"
             /\ u[k][1] = "draw" => k < n + m /\ u[k + 1][1] = "present"
             /\ Spares(u[k])
             /\ u[k][1] \in Ends => k = n + m
             /\ k > 1 => Linkable(u[k - 1], u[k])
  <2>1. CASE k \in 1..n
    <3>1. u[k] = s[k] /\ (k < n => u[k + 1] = s[k + 1]) /\ (k > 1 => u[k - 1] = s[k - 1])
          /\ (k < n => k < n + m)
      <4>1. k \in 1..n /\ (k < n => k + 1 \in 1..n /\ k < n + m) /\ (k > 1 => k - 1 \in 1..n)
        BY ONLY <1>2, <2>1
      <4> QED BY ONLY <1>1, <4>1
    <3> QED BY ONLY <1>4, <2>1, <3>1
  <2>2. CASE k - n \in 1..m
    <3> DEFINE j == k - n
    <3>1. /\ j \in 1..m /\ k = j + n /\ u[k] = t[j] /\ (j < m => u[k + 1] = t[j + 1] /\ k < n + m)
          /\ (j > 1 => u[k - 1] = t[j - 1])
          /\ (j = 1 /\ k > 1 => u[k - 1] = s[n] /\ n > 0 /\ m > 0)
          /\ (j = m => k = n + m)
      <4>1. j \in 1..m /\ k = j + n /\ j \in Int /\ k \in Int
        BY <1>2, <2>2
      <4> HIDE DEF j
      <4>2. /\ j < m => j + 1 \in 1..m /\ (j + 1) + n = k + 1
            /\ j > 1 => j - 1 \in 1..m /\ (j - 1) + n = k - 1
            /\ j = 1 /\ k > 1 => k - 1 = n /\ n \in 1..n /\ m > 0 /\ n > 0
        BY ONLY <1>2, <4>1
      <4>3. u[j + n] = t[j] /\ (j < m => u[(j + 1) + n] = t[j + 1])
            /\ (j > 1 => u[(j - 1) + n] = t[j - 1])
        BY ONLY <1>1, <4>1, <4>2
      <4>4. (j < m => k < n + m) /\ (j = m => k = n + m)
        BY ONLY <1>2, <4>1
      <4>5. n \in 1..n => u[n] = s[n]
        BY ONLY <1>1
      <4> QED BY ONLY <4>1, <4>2, <4>3, <4>4, <4>5
    <3> HIDE DEF j
    <3>2. j = 1 \/ j > 1
      BY ONLY <1>2, <3>1
    <3> QED BY ONLY <1>5, <1>6, <3>1, <3>2
  <2> QED BY <1>1, <2>1, <2>2
<1> QED BY ONLY <1>1, <1>7 DEF Obeys, u

LEMMA GoodConcat ==
    ASSUME NEW s, NEW t, Good(s), Good(t)
    PROVE  /\ Good(s \o t)
           /\ Calm(s) /\ Calm(t) => Calm(s \o t)
<1>1. Sequence(s) /\ Sequence(t) /\ Len(s) \in Nat /\ Len(t) \in Nat
  BY SequenceType DEF Good, Obeys
<1>2. /\ Sequence(s \o t) /\ Len(s \o t) = Len(s) + Len(t)
      /\ \A i \in 1..Len(s) : (s \o t)[i] = s[i]
      /\ \A i \in 1..Len(t) : (s \o t)[i + Len(s)] = t[i]
      /\ \A i \in 1..Len(s) + Len(t) : i \in 1..Len(s) \/ i - Len(s) \in 1..Len(t)
  BY ONLY <1>1, ConcatSequence
<1>3. \A a, b : Free(b) => Linkable(a, b)
  BY DEF Free, Linkable
<1>4. Obeys(s \o t)
  <2>1. s # <<>> /\ t # <<>> => Linkable(s[Len(s)], t[1])
    BY <1>3 DEF Good, Opens
  <2> QED BY <2>1, ObeysConcat DEF Good
<1>5. ASSUME NEW k \in 1..Len(s \o t)
      PROVE  \/ k \in 1..Len(s) /\ (s \o t)[k] = s[k]
             \/ k - Len(s) \in 1..Len(t) /\ (s \o t)[k] = t[k - Len(s)]
  <2>1. (k - Len(s)) + Len(s) = k
    BY ONLY <1>1, <1>2
  <2> QED BY ONLY <1>2, <2>1, k \in 1..Len(s \o t)
<1>6. Endless(s \o t) /\ (Calm(s) /\ Calm(t) => Calm(s \o t))
  <2>1. Endless(s) /\ Endless(t)
    BY DEF Good
  <2> QED BY ONLY <1>5, <2>1 DEF Endless, Calm
<1>7. Opens(s \o t)
  <2>1. CASE s = <<>>
    <3>1. s \o t = t
      BY <1>1, <2>1, ConcatEmptySeq DEF Sequence
    <3> QED BY <3>1 DEF Good
  <2>2. CASE s # <<>>
    <3>1. 1 \in 1..Len(s)
      BY <1>1, <2>2, EmptySeq DEF Sequence
    <3> QED BY <1>2, <2>2, <3>1 DEF Good, Opens
  <2> QED BY <2>1, <2>2
<1> QED BY <1>4, <1>6, <1>7 DEF Good
-----------------------------------------------------------------------------
LEMMA PlainTuples ==
    /\ Plain(<<>>)
    /\ \A a : PlainCall(a) => Plain(<<a>>)
    /\ \A a, b : PlainCall(a) /\ PlainCall(b) => Plain(<<a, b>>)
    /\ \A a, b, c : PlainCall(a) /\ PlainCall(b) /\ PlainCall(c) => Plain(<<a, b, c>>)
<1>1. Plain(<<>>)
  <2>1. <<>> \in Seq({1}) /\ Len(<<>>) = 0
    OBVIOUS
  <2>2. Sequence(<<>>)
    BY ONLY <2>1, SequenceOf
  <2>3. \A k \in 1..0 : FALSE
    OBVIOUS
  <2> QED BY ONLY <2>1, <2>2, <2>3 DEF Plain
<1>2. ASSUME NEW a, PlainCall(a) PROVE Plain(<<a>>)
  <2>1. <<a>> \in Seq({a}) /\ Len(<<a>>) = 1 /\ <<a>>[1] = a
    OBVIOUS
  <2>2. Sequence(<<a>>)
    BY ONLY <2>1, SequenceOf
  <2> QED BY <1>2, <2>1, <2>2 DEF Plain
<1>3. ASSUME NEW a, NEW b, PlainCall(a), PlainCall(b) PROVE Plain(<<a, b>>)
  <2>1. <<a, b>> \in Seq({a, b}) /\ Len(<<a, b>>) = 2 /\ <<a, b>>[1] = a /\ <<a, b>>[2] = b
    OBVIOUS
  <2>2. Sequence(<<a, b>>)
    BY ONLY <2>1, SequenceOf
  <2> QED BY <1>3, <2>1, <2>2 DEF Plain
<1>4. ASSUME NEW a, NEW b, NEW c, PlainCall(a), PlainCall(b), PlainCall(c) PROVE Plain(<<a, b, c>>)
  <2>1. /\ <<a, b, c>> \in Seq({a, b, c}) /\ Len(<<a, b, c>>) = 3
        /\ <<a, b, c>>[1] = a /\ <<a, b, c>>[2] = b /\ <<a, b, c>>[3] = c
    OBVIOUS
  <2>2. Sequence(<<a, b, c>>)
    BY ONLY <2>1, SequenceOf
  <2> QED BY <1>4, <2>1, <2>2 DEF Plain
<1> QED BY ONLY <1>1, <1>2, <1>3, <1>4

LEMMA PlainLonger ==
    ASSUME NEW a, NEW b, NEW c, NEW d, NEW e, NEW f, NEW g, NEW h,
           PlainCall(a), PlainCall(b), PlainCall(c), PlainCall(d), PlainCall(e),
           PlainCall(f), PlainCall(g), PlainCall(h)
    PROVE  Plain(<<a, b, c, d, e>>) /\ Plain(<<a, b, c, d, e, f, g, h>>)
<1>1. Plain(<<a, b, c, d, e>>)
  <2>1. /\ <<a, b, c, d, e>> \in Seq({a, b, c, d, e}) /\ Len(<<a, b, c, d, e>>) = 5
        /\ \A k \in 1..5 : <<a, b, c, d, e>>[k] \in {a, b, c, d, e}
    OBVIOUS
  <2>2. Sequence(<<a, b, c, d, e>>)
    BY ONLY <2>1, SequenceOf
  <2> QED BY <2>1, <2>2 DEF Plain
<1>2. Plain(<<a, b, c, d, e, f, g, h>>)
  <2>1. /\ <<a, b, c, d, e, f, g, h>> \in Seq({a, b, c, d, e, f, g, h})
        /\ Len(<<a, b, c, d, e, f, g, h>>) = 8
        /\ \A k \in 1..8 : <<a, b, c, d, e, f, g, h>>[k] \in {a, b, c, d, e, f, g, h}
    OBVIOUS
  <2>2. Sequence(<<a, b, c, d, e, f, g, h>>)
    BY ONLY <2>1, SequenceOf
  <2> QED BY <2>1, <2>2 DEF Plain
<1> QED BY <1>1, <1>2

(* The calls of a name that needs no care. *)
Careless == {"flush", "texture", "capabilities", "create_swapchain", "color_views",
             "destroy_old_swapchain", "framebuffers", "prepared", "unprepared", "window",
             "instance_layers", "instance_extensions", "device_layers", "device_extensions",
             "debug_callback", "choose_queue", "idle", "free_setup", "surface_formats",
             "update_descriptor_sets"}

LEMMA PlainCalls ==
    /\ \A n \in Careless : PlainCall(<<n>>) /\ \A a : PlainCall(<<n, a>>) /\ \A b : PlainCall(<<n, a, b>>)
    /\ \A o : o # SetupCmd => PlainCall(create(o)) /\ \A p : PlainCall(<<"memory", o, p>>)
    /\ \A o : o[1] # "command_pool" /\ o # DrawCmd => PlainCall(destroy(o))
    /\ \A b : b[1][1] = "image" => PlainCall(<<"barrier", b>>) /\ PlainCall(<<"copy", b>>)
<1> USE DEF PlainCall, Free, Frames, Destroys, Spares
<1>1. \A n \in Careless : PlainCall(<<n>>) /\ \A a : PlainCall(<<n, a>>) /\ \A b : PlainCall(<<n, a, b>>)
  BY DEF Careless
<1>2. \A o : o # SetupCmd => PlainCall(create(o)) /\ \A p : PlainCall(<<"memory", o, p>>)
  <2> HIDE DEF SetupCmd
  <2> QED BY DEF create
<1>3. \A o : o[1] # "command_pool" /\ o # DrawCmd => PlainCall(destroy(o))
  <2> SUFFICES ASSUME NEW o, o[1] # "command_pool", o # DrawCmd PROVE PlainCall(destroy(o))
    OBVIOUS
  <2>1. destroy(o)[1] = "destroy" /\ destroy(o)[2] = o
    BY DEF destroy
  <2>2. CmdPool[1] = "command_pool"
    BY DEF CmdPool, Obj
  <2>3. o # CmdPool
    BY ONLY <2>2, o[1] # "command_pool"
  <2> HIDE DEF CmdPool, DrawCmd, destroy
  <2> QED BY ONLY <2>1, <2>3, o # DrawCmd
<1>4. \A b : b[1][1] = "image" => PlainCall(<<"barrier", b>>) /\ PlainCall(<<"copy", b>>)
  OBVIOUS
<1> QED BY ONLY <1>1, <1>2, <1>3, <1>4

LEMMA PlainImages ==
    ASSUME NEW image, image[1] = "image"
    PROVE  /\ \A old, new : Plain(demo_set_image_layout(image, old, new))
           /\ \A properties : Plain(WithMemory(image, properties))
           /\ Plain(DestroyViews(image))
<1>1. \A old, new : Plain(demo_set_image_layout(image, old, new))
  <2> SUFFICES ASSUME NEW old, NEW new PROVE Plain(demo_set_image_layout(image, old, new))
    OBVIOUS
  <2>1. PlainCall(<<"barrier", <<image, old, new>>>>)
    BY PlainCalls
  <2> QED BY ONLY <2>1, PlainTuples DEF demo_set_image_layout
<1>2. \A properties : Plain(WithMemory(image, properties))
  <2> SUFFICES ASSUME NEW properties PROVE Plain(WithMemory(image, properties))
    OBVIOUS
  <2>1. image # SetupCmd /\ Obj("memory", image[2]) # SetupCmd
    BY DEF Obj, SetupCmd
  <2>2. PlainCall(create(image)) /\ PlainCall(<<"memory", Obj("memory", image[2]), properties>>)
    BY ONLY <2>1, PlainCalls
  <2> QED BY ONLY <2>2, PlainTuples DEF WithMemory
<1>3. Plain(DestroyViews(image))
  <2>1. PlainCall(destroy(Obj("view", image[2]))) /\ PlainCall(destroy(Obj("memory", image[2])))
    BY PlainCalls DEF Obj, DrawCmd
  <2>2. PlainCall(destroy(image))
    BY PlainCalls DEF Obj, DrawCmd
  <2> QED BY ONLY <2>1, <2>2, PlainTuples DEF DestroyViews
<1> QED BY <1>1, <1>2, <1>3

LEMMA PlainTextures ==
    ASSUME NEW use
    PROVE  /\ \A properties : Plain(demo_prepare_texture_image(use, properties))
           /\ Plain(demo_destroy_texture_image(use))
           /\ Plain(StagedTexture)
<1> DEFINE image(u) == Obj("image", u)
<1>1. \A u : image(u)[1] = "image"
  BY DEF Obj
<1> HIDE DEF image
<1>2. \A s, t : Plain(s) /\ Plain(t) => Plain(s \o t)
  BY PlainConcat
<1>3. \A u : /\ \A old, new : Plain(demo_set_image_layout(image(u), old, new))
             /\ \A properties : Plain(WithMemory(image(u), properties))
  BY ONLY <1>1, PlainImages
<1>4. \A u, properties : Plain(demo_prepare_texture_image(u, properties))
  BY ONLY <1>2, <1>3 DEF demo_prepare_texture_image, image
<1>5. \A u : Plain(demo_destroy_texture_image(u))
  <2> SUFFICES ASSUME NEW u PROVE Plain(demo_destroy_texture_image(u))
    OBVIOUS
  <2>1. PlainCall(destroy(Obj("image", u))) /\ PlainCall(destroy(Obj("memory", u)))
    BY PlainCalls DEF Obj, DrawCmd
  <2> QED BY ONLY <2>1, PlainTuples DEF demo_destroy_texture_image
<1>6. Plain(<<<<"copy", <<image("staging"), "transfer_src", "transfer_src">>>>,
              <<"copy", <<image("texture"), "transfer_dst", "transfer_dst">>>>>>)
  <2>1. /\ PlainCall(<<"copy", <<image("staging"), "transfer_src", "transfer_src">>>>)
        /\ PlainCall(<<"copy", <<image("texture"), "transfer_dst", "transfer_dst">>>>)
    BY <1>1, PlainCalls
  <2> QED BY ONLY <2>1, PlainTuples
<1>7. Plain(demo_flush_init_cmd)
  <2>1. PlainCall(<<"flush">>)
    BY PlainCalls DEF Careless
  <2> QED BY ONLY <2>1, PlainTuples DEF demo_flush_init_cmd
<1>8. Plain(StagedTexture)
  BY ONLY <1>2, <1>3, <1>4, <1>5, <1>6, <1>7 DEF StagedTexture, image
<1> QED BY <1>4, <1>5, <1>8

(* Objects that are destroyed like any other one. *)
Common == {"view", "memory", "image", "malloc", "buffer", "sampler", "pipeline", "pipeline_cache",
           "pipeline_layout", "desc_layout", "desc_pool", "render_pass", "shader_module",
           "framebuffer", "swapchain", "semaphore", "device", "surface", "instance",
           "debug_callback"}

LEMMA PlainDestroys ==
    /\ \A use : \A k \in Common : PlainCall(destroy(Obj(k, use)))
    /\ \A i : /\ PlainCall(destroy(Framebuffer(i))) /\ PlainCall(destroy(ColorView(i)))
              /\ PlainCall(destroy(Swapchain(i))) /\ PlainCall(destroy(Semaphore(i)))
    /\ PlainCall(destroy(SetupCmd)) /\ PlainCall(destroy(DescPool)) /\ PlainCall(destroy(Device))
    /\ PlainCall(destroy(Surface)) /\ PlainCall(destroy(Instance))
<1>1. DrawCmd = <<"command_buffer", "draw", 0>>
  BY DEF DrawCmd, Obj
<1>2. \A o : o[1] \in Common => PlainCall(destroy(o))
  BY <1>1, PlainCalls DEF Common
<1>3. SetupCmd[1] # "command_pool" /\ SetupCmd # DrawCmd
  BY DEF SetupCmd, DrawCmd, Obj
<1>4. PlainCall(destroy(SetupCmd))
  BY ONLY <1>3, PlainCalls
<1>5. \A use : \A k \in Common : Obj(k, use)[1] \in Common
  BY DEF Obj
<1>6. /\ \A i : /\ Framebuffer(i)[1] \in Common /\ ColorView(i)[1] \in Common
                /\ Swapchain(i)[1] \in Common /\ Semaphore(i)[1] \in Common
      /\ DescPool[1] \in Common /\ Device[1] \in Common /\ Surface[1] \in Common
      /\ Instance[1] \in Common
  BY DEF Framebuffer, ColorView, Swapchain, Semaphore, DescPool, Device, Surface, Instance,
     Obj, Common
<1> QED BY ONLY <1>2, <1>4, <1>5, <1>6

LEMMA PlainCreates ==
    /\ \A k, use : k # "command_buffer" => /\ PlainCall(create(Obj(k, use)))
                                         /\ \A p : PlainCall(<<"memory", Obj(k, use), p>>)
    /\ PlainCall(create(CmdPool)) /\ PlainCall(create(DrawCmd)) /\ PlainCall(create(DescPool))
    /\ PlainCall(create(DescSet)) /\ PlainCall(create(Device)) /\ PlainCall(create(Surface))
    /\ PlainCall(create(Instance))
    /\ \A i : /\ PlainCall(create(ColorView(i))) /\ PlainCall(create(Framebuffer(i)))
              /\ PlainCall(create(Semaphore(i)))
<1>1. /\ \A k, use : k # "command_buffer" => Obj(k, use) # SetupCmd
      /\ CmdPool # SetupCmd /\ DrawCmd # SetupCmd /\ DescPool # SetupCmd /\ DescSet # SetupCmd
      /\ Device # SetupCmd /\ Surface # SetupCmd /\ Instance # SetupCmd
      /\ \A i : ColorView(i) # SetupCmd /\ Framebuffer(i) # SetupCmd /\ Semaphore(i) # SetupCmd
  BY DEF Obj, SetupCmd, CmdPool, DrawCmd, DescPool, DescSet, Device, Surface, Instance, ColorView,
     Framebuffer, Semaphore
<1> QED BY ONLY <1>1, PlainCalls

LEMMA PlainPrepare == Plain(demo_prepare)
<1>1. \A s, t : Plain(s) /\ Plain(t) => Plain(s \o t)
  BY PlainConcat
<1>2. /\ \A k, use : k # "command_buffer" => PlainCall(create(Obj(k, use)))
      /\ PlainCall(create(CmdPool)) /\ PlainCall(create(DrawCmd)) /\ PlainCall(create(DescPool))
      /\ PlainCall(create(DescSet))
  BY PlainCreates
<1>3. Plain(<<create(CmdPool), create(DrawCmd)>>) /\ Plain(demo_prepare_descriptor_layout)
      /\ Plain(demo_prepare_render_pass) /\ Plain(demo_prepare_vs) /\ Plain(demo_prepare_fs)
      /\ Plain(demo_prepare_descriptor_pool)
  BY ONLY <1>2, PlainTuples DEF demo_prepare_descriptor_layout, demo_prepare_render_pass,
     demo_prepare_vs, demo_prepare_fs, demo_prepare_descriptor_pool
<1>4. Plain(demo_prepare_framebuffers) /\ Plain(<<<<"prepared">>>>)
  <2>1. PlainCall(<<"framebuffers">>) /\ PlainCall(<<"prepared">>)
    BY PlainCalls DEF Careless
  <2> QED BY ONLY <1>2, <2>1, PlainTuples DEF demo_prepare_framebuffers
<1>5. Plain(demo_prepare_vertices)
  <2>1. PlainCall(<<"memory", Obj("memory", Obj("buffer", "vertices")[2]), {"host_visible"}>>)
    BY PlainCreates
  <2> QED BY ONLY <1>2, <2>1, PlainTuples DEF demo_prepare_vertices, WithMemory
<1>6. Plain(demo_prepare_textures)
  <2>1. PlainCall(<<"texture">>)
    BY PlainCalls DEF Careless
  <2> QED BY ONLY <1>2, <2>1, PlainTuples DEF demo_prepare_textures
<1>7. Plain(demo_prepare_buffers)
  <2>1. /\ PlainCall(<<"capabilities">>) /\ PlainCall(<<"create_swapchain">>)
        /\ PlainCall(<<"destroy_old_swapchain">>) /\ PlainCall(<<"color_views", 1>>)
    BY PlainCalls DEF Careless
  <2>2. PlainCall(destroy(Obj("malloc", "presentModes")))
    BY PlainDestroys DEF Common
  <2> QED BY ONLY <1>2, <2>1, <2>2, PlainLonger DEF demo_prepare_buffers
<1>8. Plain(demo_prepare_depth)
  <2>1. \A c : DepthImage(c)[1] = "image"
    BY DEF DepthImage
  <2>2. /\ Plain(WithMemory(DepthImage(chain + 1), {}))
        /\ Plain(demo_set_image_layout(DepthImage(chain + 1), "undefined", "depth_stencil"))
    BY ONLY <2>1, PlainImages
  <2>3. Plain(<<create(Obj("view", "depth"))>>)
    BY ONLY <1>2, PlainTuples
  <2> QED BY ONLY <1>1, <2>2, <2>3 DEF demo_prepare_depth
<1>9. Plain(demo_prepare_pipeline)
  <2>1. /\ PlainCall(destroy(Obj("pipeline_cache", ""))) /\ PlainCall(destroy(Obj("shader_module", "frag")))
        /\ PlainCall(destroy(Obj("shader_module", "vert")))
    BY PlainDestroys DEF Common
  <2>2. Plain(<<create(Obj("pipeline_cache", "")), create(Obj("pipeline", "")),
                destroy(Obj("pipeline_cache", "")), destroy(Obj("shader_module", "frag")),
                destroy(Obj("shader_module", "vert"))>>)
    BY ONLY <1>2, <2>1, PlainLonger
  <2> QED BY ONLY <1>1, <1>3, <2>2 DEF demo_prepare_pipeline
<1>10. Plain(demo_prepare_descriptor_set)
  <2>1. PlainCall(<<"update_descriptor_sets", {<<Obj("image", "texture"), "general">>}>>)
    BY PlainCalls DEF Careless
  <2> QED BY ONLY <1>2, <2>1, PlainTuples DEF demo_prepare_descriptor_set
<1> QED BY ONLY <1>1, <1>3, <1>4, <1>5, <1>6, <1>7, <1>8, <1>9, <1>10 DEF demo_prepare

LEMMA ImagesFinite == Cardinality(ImagesOf(chain)) \in Nat /\ Images = 1..Cardinality(ImagesOf(chain))
<1> DEFINE all == {ColorImage(chain, i) : i \in 1..MaxImages}
           f == [i \in 1..MaxImages |-> ColorImage(chain, i)]
<1>1. IsFiniteSet(1..MaxImages)
  BY TriAssumption, FS_Interval
<1>2. f \in Surjection(1..MaxImages, all)
  BY DEF Surjection
<1>3. IsFiniteSet(all)
  BY ONLY <1>1, <1>2, FS_Surjection
<1>4. IsFiniteSet(ImagesOf(chain))
  BY <1>3, FS_Subset DEF ImagesOf
<1> QED BY <1>4, FS_CardinalityType DEF Images

LEMMA PlainLoop ==
    ASSUME NEW n \in Nat, NEW s, DOMAIN s = 1..n, s = [i \in 1..n |-> s[i]],
           \A i \in 1..n : PlainCall(s[i])
    PROVE  Plain(s)
<1>1. s \in [1..n -> Range(s)]
  BY DEF Range
<1>2. s \in Seq(Range(s)) /\ Len(s) = n
  BY ONLY <1>1, n \in Nat, SeqDef
<1> QED BY <1>2 DEF Plain, Sequence

LEMMA PlainOnImages ==
    /\ Plain([i \in Images |-> destroy(Framebuffer(i))])
    /\ Plain([i \in Images |-> destroy(ColorView(i))])
    /\ Plain([i \in Images |-> create(Framebuffer(i))])
<1> DEFINE n == Cardinality(ImagesOf(chain))
           a == [i \in 1..n |-> destroy(Framebuffer(i))]
           b == [i \in 1..n |-> destroy(ColorView(i))]
           c == [i \in 1..n |-> create(Framebuffer(i))]
<1>1. n \in Nat /\ Images = 1..n
  BY ImagesFinite
<1>2. /\ DOMAIN a = 1..n /\ DOMAIN b = 1..n /\ DOMAIN c = 1..n
      /\ a = [i \in 1..n |-> a[i]] /\ b = [i \in 1..n |-> b[i]] /\ c = [i \in 1..n |-> c[i]]
  OBVIOUS
<1>3. \A i \in 1..n : PlainCall(a[i]) /\ PlainCall(b[i]) /\ PlainCall(c[i])
  BY PlainDestroys, PlainCreates
<1> HIDE DEF n, a, b, c
<1>4. Plain(a) /\ Plain(b) /\ Plain(c)
  BY ONLY <1>1, <1>2, <1>3, PlainLoop
<1> QED BY <1>1, <1>4 DEF a, b, c

(* The command buffers and their pool, between other calls. *)
LEMMA FreeCommands ==
    ASSUME NEW a, NEW b, NEW e, NEW f, NEW g, NEW h, NEW i, NEW j,
           PlainCall(a), PlainCall(b), PlainCall(e), PlainCall(f), PlainCall(g), PlainCall(h),
           PlainCall(i), PlainCall(j)
    PROVE  LET s == <<a, b, <<"free_setup">>, destroy(DrawCmd), destroy(CmdPool), e, f, g, h, i, j>>
           IN  Good(s) /\ Calm(s)
<1> DEFINE c == <<"free_setup">>
           d == destroy(DrawCmd)
           p == destroy(CmdPool)
           s == <<a, b, c, d, p, e, f, g, h, i, j>>
<1>1. /\ c[1] = "free_setup" /\ d[1] = "destroy" /\ p[1] = "destroy"
      /\ Destroys(d, DrawCmd) /\ ~Destroys(d, CmdPool) /\ Destroys(p, CmdPool) /\ ~Destroys(p, DrawCmd)
  <2>1. DrawCmd # CmdPool
    BY DEF DrawCmd, CmdPool, Obj
  <2> QED BY <2>1 DEF destroy, Destroys
<1>2. PlainCall(c)
  BY PlainCalls DEF Careless
<1> HIDE DEF c, d, p
<1>3. Linkable(c, d) /\ Linkable(d, p) /\ \A x, y : PlainCall(y) => Linkable(x, y)
  BY <1>1 DEF Linkable, PlainCall, Free
<1>4. /\ s \in Seq({a, b, c, d, p, e, f, g, h, i, j}) /\ Len(s) = 11
      /\ s[1] = a /\ s[2] = b /\ s[3] = c /\ s[4] = d /\ s[5] = p /\ s[6] = e
      /\ \A k \in 1..11 : k \notin {4, 5} => s[k] \in {a, b, c, e, f, g, h, i, j}
  OBVIOUS
<1> HIDE DEF s
<1>5. \A k \in 1..11 : PlainCall(s[k]) \/ k = 4 \/ k = 5
  BY ONLY <1>2, <1>4, PlainCall(a), PlainCall(b), PlainCall(e), PlainCall(f), PlainCall(g),
     PlainCall(h), PlainCall(i), PlainCall(j)
<1>6. \A k \in 1..11 : k > 1 => Linkable(s[k - 1], s[k])
  BY ONLY <1>3, <1>4, <1>5
<1>7. \A k \in 1..11 : /\ s[k][1] \notin Frames \cup {"submit_setup", "return"}
                       /\ Spares(s[k])
  BY ONLY <1>1, <1>4, <1>5 DEF PlainCall, Frames, Spares
<1>8. Sequence(s)
  BY ONLY <1>4, SequenceOf
<1>9. Obeys(s) /\ Endless(s) /\ Calm(s)
  BY ONLY <1>4, <1>6, <1>7, <1>8 DEF Obeys, Endless, Calm, Frames, Ends
<1>10. Opens(s)
  BY ONLY <1>4, PlainCall(a) DEF Opens, PlainCall
<1> QED BY <1>9, <1>10 DEF Good, s, c, d, p

LEMMA GoodDestroyFrameObjects == Good(DestroyFrameObjects) /\ Calm(DestroyFrameObjects)
<1> DEFINE M == <<destroy(Obj("malloc", "framebuffers")), destroy(DescPool), <<"free_setup">>,
             destroy(DrawCmd), destroy(CmdPool), destroy(Obj("pipeline", "")),
             destroy(Obj("render_pass", "")), destroy(Obj("pipeline_layout", "")),
             destroy(Obj("desc_layout", "")), destroy(Obj("buffer", "vertices")),
             destroy(Obj("memory", "vertices"))>>
           T == DestroyViews(Obj("image", "texture"))
           U == <<destroy(Obj("sampler", "texture"))>>
           D == DestroyViews(DepthImage(chain))
<1>1. Good(M) /\ Calm(M)
  <2>1. /\ PlainCall(destroy(Obj("malloc", "framebuffers"))) /\ PlainCall(destroy(DescPool))
        /\ PlainCall(destroy(Obj("pipeline", ""))) /\ PlainCall(destroy(Obj("render_pass", "")))
        /\ PlainCall(destroy(Obj("pipeline_layout", ""))) /\ PlainCall(destroy(Obj("desc_layout", "")))
        /\ PlainCall(destroy(Obj("buffer", "vertices"))) /\ PlainCall(destroy(Obj("memory", "vertices")))
    BY PlainDestroys DEF Common
  <2> QED BY ONLY <2>1, FreeCommands
<1>2. Plain(T) /\ Plain(D)
  <2>1. Obj("image", "texture")[1] = "image" /\ DepthImage(chain)[1] = "image"
    BY DEF Obj, DepthImage
  <2> QED BY ONLY <2>1, PlainImages
<1>3. Plain(U)
  <2>1. PlainCall(destroy(Obj("sampler", "texture")))
    BY PlainDestroys DEF Common
  <2> QED BY ONLY <2>1, PlainTuples
<1>4. \A s : Plain(s) => Good(s) /\ Calm(s)
  BY PlainGood
<1>5. \A s, t : Good(s) /\ Calm(s) /\ Good(t) /\ Calm(t) => Good(s \o t) /\ Calm(s \o t)
  BY GoodConcat
<1> HIDE DEF M, T, U, D
<1>6. DestroyFrameObjects = [i \in Images |-> destroy(Framebuffer(i))] \o M \o T \o U
                              \o [i \in Images |-> destroy(ColorView(i))] \o D
  BY DEF DestroyFrameObjects, M, T, U, D
<1> QED BY ONLY <1>1, <1>2, <1>3, <1>4, <1>5, <1>6, PlainOnImages

LEMMA GoodResize == Good(demo_resize) /\ Calm(demo_resize)
<1>1. \A s : Plain(s) => Good(s) /\ Calm(s)
  BY PlainGood
<1>2. \A s, t : Good(s) /\ Calm(s) /\ Good(t) /\ Calm(t) => Good(s \o t) /\ Calm(s \o t)
  BY GoodConcat
<1>3. Plain(<<<<"unprepared">>>>) /\ Plain(<<destroy(Obj("malloc", "buffers"))>>) /\ Plain(<<>>)
  <2>1. PlainCall(<<"unprepared">>) /\ PlainCall(destroy(Obj("malloc", "buffers")))
    BY PlainCalls, PlainDestroys DEF Careless, Common
  <2> QED BY ONLY <2>1, PlainTuples
<1>4. prepared => demo_resize = <<<<"unprepared">>>> \o DestroyFrameObjects
                                  \o <<destroy(Obj("malloc", "buffers"))>> \o demo_prepare
  BY DEF demo_resize
<1>5. ~prepared => demo_resize = <<>>
  BY DEF demo_resize
<1> QED BY ONLY <1>1, <1>2, <1>3, <1>4, <1>5, GoodDestroyFrameObjects, PlainPrepare

(* What a program that runs has before it: it ends in the loop or returns. *)
Closed(s) == Obeys(s) /\ s # <<>> /\ s[Len(s)][1] \in Ends

LEMMA JoinConcat ==
    ASSUME NEW s, NEW t, Obeys(s), Endless(s), Obeys(t), Opens(t)
    PROVE  /\ Obeys(s \o t)
           /\ Endless(t) => Endless(s \o t)
           /\ s # <<>> => (s \o t)[1] = s[1] /\ s \o t # <<>>
           /\ Closed(t) => Closed(s \o t)
<1>1. Sequence(s) /\ Sequence(t) /\ Len(s) \in Nat /\ Len(t) \in Nat
  BY SequenceType DEF Obeys
<1>2. /\ Sequence(s \o t) /\ Len(s \o t) = Len(s) + Len(t)
      /\ \A i \in 1..Len(s) : (s \o t)[i] = s[i]
      /\ \A i \in 1..Len(t) : (s \o t)[i + Len(s)] = t[i]
      /\ \A i \in 1..Len(s) + Len(t) : i \in 1..Len(s) \/ i - Len(s) \in 1..Len(t)
  BY ONLY <1>1, ConcatSequence
<1>3. Obeys(s \o t)
  <2>1. \A a, b : Free(b) => Linkable(a, b)
    BY DEF Free, Linkable
  <2>2. s # <<>> /\ t # <<>> => Linkable(s[Len(s)], t[1])
    BY <2>1 DEF Opens
  <2> QED BY <2>2, ObeysConcat
<1>4. ASSUME NEW k \in 1..Len(s \o t)
      PROVE  \/ k \in 1..Len(s) /\ (s \o t)[k] = s[k]
             \/ k - Len(s) \in 1..Len(t) /\ (s \o t)[k] = t[k - Len(s)]
  <2>1. (k - Len(s)) + Len(s) = k
    BY ONLY <1>1, <1>2
  <2> QED BY ONLY <1>2, <2>1, k \in 1..Len(s \o t)
<1>5. Endless(t) => Endless(s \o t)
  BY ONLY <1>4, Endless(s) DEF Endless
<1>6. ASSUME NEW u, Sequence(u) PROVE u # <<>> <=> Len(u) > 0
  <2>1. u \in Seq(Range(u))
    BY <1>6 DEF Sequence
  <2> QED BY ONLY <2>1, EmptySeq
<1>7. s # <<>> => (s \o t)[1] = s[1] /\ s \o t # <<>>
  <2>1. Len(s) > 0 => 1 \in 1..Len(s) /\ Len(s) + Len(t) > 0
    BY ONLY <1>1
  <2> QED BY ONLY <1>1, <1>2, <1>6, <2>1
<1>8. ASSUME Closed(t) PROVE Closed(s \o t)
  <2>1. t # <<>> /\ t[Len(t)][1] \in Ends
    BY <1>8 DEF Closed
  <2>2. Len(t) > 0
    BY ONLY <1>1, <1>6, <2>1
  <2>3. Len(t) \in 1..Len(t) /\ Len(t) + Len(s) = Len(s) + Len(t) /\ Len(s) + Len(t) > 0
    BY ONLY <1>1, <2>2
  <2>4. (s \o t)[Len(s \o t)] = t[Len(t)] /\ s \o t # <<>>
    BY ONLY <1>2, <1>6, <2>3
  <2> QED BY ONLY <1>3, <2>1, <2>4 DEF Closed
<1> QED BY <1>3, <1>5, <1>7, <1>8

(* Before a program goes what obeys together with it. *)
LEMMA ClosedBehind ==
    ASSUME NEW s, NEW t, Sequence(s), s # <<>>, Closed(t), Obeys(s \o t)
    PROVE  Closed(s \o t) /\ (s \o t)[1] = s[1]
<1>1. Sequence(t) /\ t # <<>> /\ t[Len(t)][1] \in Ends
  BY DEF Closed, Obeys
<1>2. /\ Sequence(s \o t) /\ Len(s \o t) = Len(s) + Len(t)
      /\ \A i \in 1..Len(s) : (s \o t)[i] = s[i]
      /\ \A i \in 1..Len(t) : (s \o t)[i + Len(s)] = t[i]
  BY ONLY <1>1, Sequence(s), ConcatSequence
<1>3. Len(s) \in Nat \ {0} /\ Len(t) \in Nat \ {0}
  BY ONLY <1>1, Sequence(s), s # <<>>, TailSequence
<1>4. /\ 1 \in 1..Len(s) /\ Len(t) \in 1..Len(t) /\ Len(t) + Len(s) = Len(s) + Len(t)
      /\ Len(s) + Len(t) > 0
  BY ONLY <1>3
<1>5. s \o t # <<>>
  <2>1. s \o t \in Seq(Range(s \o t))
    BY ONLY <1>2 DEF Sequence
  <2> QED BY ONLY <1>2, <1>4, <2>1, EmptySeq
<1> QED BY ONLY <1>1, <1>2, <1>4, <1>5, Obeys(s \o t) DEF Closed

LEMMA ClosedTuple ==
    ASSUME NEW e, e \in {<<"run">>, <<"return">>}
    PROVE  Closed(<<e>>) /\ Opens(<<e>>)
<1>1. <<e>> \in Seq({e}) /\ Len(<<e>>) = 1 /\ <<e>>[1] = e /\ <<e>> # <<>>
  OBVIOUS
<1>2. Sequence(<<e>>)
  BY ONLY <1>1, SequenceOf
<1>3. e[1] \in Ends /\ e[1] \notin {"submit_setup", "present", "draw", "barrier", "copy", "connect",
                                   "setup_null", "destroy", "create", "memory"}
  BY DEF Ends
<1>4. \A k \in 1..1 : k = 1 /\ ~(k > 1)
  OBVIOUS
<1>5. Obeys(<<e>>)
  BY ONLY <1>1, <1>2, <1>3, <1>4 DEF Obeys, Spares
<1>6. Opens(<<e>>)
  BY ONLY <1>1, <1>3 DEF Opens, Free, Destroys
<1> QED BY ONLY <1>1, <1>3, <1>5, <1>6 DEF Closed

(* A program of which a call is replaced by others. *)
LEMMA ClosedGood ==
    ASSUME NEW s, NEW t, Good(s), Closed(t), Opens(t)
    PROVE  Closed(s \o t) /\ Opens(s \o t)
<1>1. Obeys(s) /\ Endless(s) /\ Opens(s) /\ Obeys(t)
  BY DEF Good, Closed
<1>2. Closed(s \o t) /\ (s # <<>> => (s \o t)[1] = s[1])
  BY ONLY <1>1, Closed(t), Opens(t), JoinConcat
<1>3. s = <<>> => s \o t = t
  BY <1>1, ConcatEmptySeq DEF Obeys, Sequence
<1> QED BY ONLY <1>1, <1>2, <1>3, Opens(t) DEF Opens
-----------------------------------------------------------------------------
LEMMA GoodFlush == Good(FlushCalls) /\ Calm(FlushCalls)
<1> DEFINE a == <<"submit_setup">>
           b == <<"idle">>
           c == destroy(SetupCmd)
           d == <<"setup_null">>
           s == <<a, b, c, d>>
<1>1. /\ a[1] = "submit_setup" /\ b[1] = "idle" /\ d[1] = "setup_null"
      /\ c[1] = "destroy" /\ Destroys(c, SetupCmd) /\ ~Destroys(c, CmdPool) /\ ~Destroys(c, DrawCmd)
  <2>1. SetupCmd # CmdPool /\ SetupCmd # DrawCmd
    BY DEF DrawCmd, SetupCmd, CmdPool, Obj
  <2> QED BY <2>1 DEF destroy, Destroys
<1> HIDE DEF a, b, c, d
<1>2. /\ s \in Seq({a, b, c, d}) /\ Len(s) = 4
      /\ s[1] = a /\ s[2] = b /\ s[3] = c /\ s[4] = d /\ s # <<>>
      /\ \A k \in 1..4 : k = 1 \/ k = 2 \/ k = 3 \/ k = 4
  OBVIOUS
<1> HIDE DEF s
<1>3. Sequence(s)
  BY ONLY <1>2, SequenceOf
<1>4. Linkable(a, b) /\ Linkable(b, c) /\ Linkable(c, d) /\ Free(a)
  BY ONLY <1>1 DEF Linkable, Free, Destroys
<1>5. \A k \in 1..4 : k > 1 => Linkable(s[k - 1], s[k])
  BY ONLY <1>2, <1>4
<1>6. Obeys(s)
  BY ONLY <1>1, <1>2, <1>3, <1>5 DEF Obeys, Ends, Spares
<1>7. Endless(s) /\ Calm(s) /\ Opens(s)
  BY ONLY <1>1, <1>2, <1>4 DEF Endless, Calm, Opens, Ends, Frames
<1> QED BY <1>6, <1>7 DEF Good, FlushCalls, s, a, b, c, d

LEMMA GoodDraw ==
    ASSUME NEW d
    PROVE  /\ Good(demo_draw(d)) /\ Good(demo_draw(d) \o <<<<"idle">>>>)
           /\ Good(<<destroy(Semaphore(d))>>)
           /\ \A i : Good(DrawImage(ColorImage(chain, i), d))
<1>1. PlainCall(<<"idle">>) /\ PlainCall(create(Semaphore(d))) /\ PlainCall(destroy(Semaphore(d)))
  BY PlainCalls, PlainCreates, PlainDestroys DEF Careless
<1>2. Plain(<<<<"idle">>>>) /\ Plain(<<destroy(Semaphore(d))>>)
  BY ONLY <1>1, PlainTuples
<1>3. Good(<<<<"idle">>>>) /\ Good(<<destroy(Semaphore(d))>>)
  BY <1>2, PlainGood
<1>4. Good(demo_draw(d))
  <2> DEFINE a == create(Semaphore(d))
             b == <<"acquire", d>>
             s == <<a, b>>
  <2>1. b[1] = "acquire" /\ Free(b) /\ a[1] = "create" /\ Free(a)
        /\ Spares(a) /\ Spares(b)
    BY <1>1 DEF Free, Destroys, create, PlainCall, Spares
  <2> HIDE DEF a, b
  <2>2. /\ s \in Seq({a, b}) /\ Len(s) = 2 /\ s[1] = a /\ s[2] = b /\ s # <<>>
        /\ \A k \in 1..2 : k = 1 \/ k = 2
    OBVIOUS
  <2> HIDE DEF s
  <2>3. Sequence(s)
    BY ONLY <2>2, SequenceOf
  <2>4. Linkable(a, b)
    BY ONLY <2>1 DEF Free, Linkable
  <2>5. Obeys(s)
    BY ONLY <2>1, <2>2, <2>3, <2>4 DEF Obeys, Ends
  <2>6. Endless(s) /\ Opens(s)
    BY ONLY <2>1, <2>2 DEF Endless, Opens, Ends
  <2> QED BY <2>5, <2>6 DEF Good, demo_draw, s, a, b
<1>5. Good(demo_draw(d) \o <<<<"idle">>>>)
  BY ONLY <1>3, <1>4, GoodConcat
<1>6. ASSUME NEW i PROVE Good(DrawImage(ColorImage(chain, i), d))
  <2> DEFINE e == <<"draw">>
             f == <<"present">>
             g == <<"idle">>
             h == destroy(Semaphore(d))
             s == <<e, f, g, h>>
  <2>1. e[1] = "draw" /\ f[1] = "present" /\ g[1] = "idle" /\ h[1] = "destroy"
        /\ Free(e) /\ Free(f) /\ Free(g) /\ Free(h)
    BY <1>1 DEF Free, Destroys, destroy, PlainCall
  <2> HIDE DEF e, f, g, h
  <2>2. /\ s \in Seq({e, f, g, h}) /\ Len(s) = 4
        /\ s[1] = e /\ s[2] = f /\ s[3] = g /\ s[4] = h /\ s # <<>>
        /\ \A k \in 1..4 : k = 1 \/ k = 2 \/ k = 3 \/ k = 4
    OBVIOUS
  <2> HIDE DEF s
  <2>3. Sequence(s)
    BY ONLY <2>2, SequenceOf
  <2>4. \A k \in 1..4 : k > 1 => Linkable(s[k - 1], s[k])
    <3>1. \A x, y : Free(y) => Linkable(x, y)
      BY DEF Free, Linkable
    <3> QED BY ONLY <2>1, <2>2, <3>1
  <2>5. Obeys(s)
    BY ONLY <2>1, <2>2, <2>3, <2>4 DEF Obeys, Ends, Spares
  <2>6. Endless(s) /\ Opens(s)
    BY ONLY <2>1, <2>2 DEF Endless, Opens, Ends
  <2>7. Good(s)
    BY ONLY <2>5, <2>6 DEF Good
  <2>8. ColorImage(chain, i)[1] = "image"
    BY DEF ColorImage
  <2>9. Plain(demo_set_image_layout(ColorImage(chain, i), "present_src", "color_attachment"))
    BY ONLY <2>8, PlainImages
  <2>10. Plain(demo_flush_init_cmd)
    <3>1. PlainCall(<<"flush">>)
      BY PlainCalls DEF Careless
    <3> QED BY ONLY <3>1, PlainTuples DEF demo_flush_init_cmd
  <2>11. DrawImage(ColorImage(chain, i), d) =
           demo_set_image_layout(ColorImage(chain, i), "present_src", "color_attachment")
              \o demo_flush_init_cmd \o s
    BY DEF DrawImage, s, e, f, g, h
  <2>12. \A x, y : Good(x) /\ Good(y) => Good(x \o y)
    BY GoodConcat
  <2>13. \A x : Plain(x) => Good(x)
    BY PlainGood
  <2> QED BY ONLY <2>7, <2>9, <2>10, <2>11, <2>12, <2>13
<1> QED BY <1>3, <1>4, <1>5, <1>6

LEMMA JoinTwo ==
    ASSUME NEW a, NEW b
    PROVE  <<a>> \o <<b>> = <<a, b>>
<1> DEFINE S == {a, b}
<1>1. <<a>> \in Seq(S) /\ <<b>> \in Seq(S) /\ <<a, b>> \in Seq(S)
  OBVIOUS
<1>2. \A i \in 1..2 : (<<a>> \o <<b>>)[i] = <<a, b>>[i]
  BY <1>1, ConcatProperties
<1>3. <<a>> \o <<b>> \in Seq(S) /\ Len(<<a>> \o <<b>>) = 2 /\ Len(<<a, b>>) = 2
  BY <1>1, ConcatProperties
<1> HIDE DEF S
<1>4. \A s, t : s \in Seq(S) /\ t \in Seq(S) /\ Len(s) = Len(t) /\ (\A i \in 1..Len(s) : s[i] = t[i])
                 => s = t
  BY SeqEqual
<1> QED BY ONLY <1>1, <1>2, <1>3, <1>4

LEMMA JoinFour ==
    ASSUME NEW a, NEW b, NEW c, NEW d
    PROVE  <<a, b, c>> \o <<d>> = <<a, b, c, d>>
<1> DEFINE S == {a, b, c, d}
<1>1. <<a, b, c>> \in Seq(S) /\ <<d>> \in Seq(S) /\ <<a, b, c, d>> \in Seq(S)
  OBVIOUS
<1>2. \A i \in 1..4 : (<<a, b, c>> \o <<d>>)[i] = <<a, b, c, d>>[i]
  BY <1>1, ConcatProperties
<1>3. <<a, b, c>> \o <<d>> \in Seq(S) /\ Len(<<a, b, c>> \o <<d>>) = 4 /\ Len(<<a, b, c, d>>) = 4
  BY <1>1, ConcatProperties
<1> HIDE DEF S
<1>4. \A s, t : s \in Seq(S) /\ t \in Seq(S) /\ Len(s) = Len(t) /\ (\A i \in 1..Len(s) : s[i] = t[i])
                 => s = t
  BY SeqEqual
<1> QED BY ONLY <1>1, <1>2, <1>3, <1>4

LEMMA ClosedCleanup == Closed(demo_cleanup) /\ Opens(demo_cleanup)
<1> DEFINE U == <<<<"unprepared">>>>
           T == <<destroy(Swapchain(chain)), destroy(Obj("malloc", "buffers")), destroy(Device)>>
           V == IF args.validate THEN <<destroy(Obj("debug_callback", ""))>> ELSE <<>>
           W == <<destroy(Surface), destroy(Instance), destroy(Obj("malloc", "queue_props"))>>
           R == <<<<"return">>>>
<1>1. Good(U) /\ Good(T) /\ Good(V) /\ Good(W)
  <2>1. /\ PlainCall(<<"unprepared">>) /\ PlainCall(destroy(Swapchain(chain)))
        /\ PlainCall(destroy(Obj("malloc", "buffers"))) /\ PlainCall(destroy(Device))
        /\ PlainCall(destroy(Obj("debug_callback", ""))) /\ PlainCall(destroy(Surface))
        /\ PlainCall(destroy(Instance)) /\ PlainCall(destroy(Obj("malloc", "queue_props")))
    BY PlainCalls, PlainDestroys DEF Careless, Common
  <2>2. Plain(U) /\ Plain(T) /\ Plain(V) /\ Plain(W)
    BY ONLY <2>1, PlainTuples
  <2> HIDE DEF U, T, V, W
  <2> QED BY <2>2, PlainGood
<1>2. Closed(R) /\ Opens(R)
  BY ClosedTuple
<1>3. ASSUME NEW a, NEW b, NEW c, NEW d
      PROVE  <<a, b, c>> \o <<d>> = <<a, b, c, d>>
  BY ONLY JoinFour
<1>4. demo_cleanup = U \o DestroyFrameObjects \o T \o V \o (W \o R)
  BY <1>3 DEF demo_cleanup
<1> HIDE DEF U, T, V, W, R
<1>5. \A s, t : Good(s) /\ Good(t) => Good(s \o t)
  BY GoodConcat
<1>6. Good(U \o DestroyFrameObjects \o T \o V)
  BY ONLY <1>1, <1>5, GoodDestroyFrameObjects
<1>7. Closed(W \o R) /\ Opens(W \o R)
  BY ONLY <1>1, <1>2, ClosedGood
<1> QED BY ONLY <1>4, <1>6, <1>7, ClosedGood

LEMMA ClosedTurn ==
    LET turn == demo_draw(0) \o <<<<"idle">>, <<"run">>>> IN Closed(turn) /\ Opens(turn)
<1>1. <<<<"idle">>, <<"run">>>> = <<<<"idle">>>> \o <<<<"run">>>>
  BY ONLY JoinTwo
<1>2. Good(demo_draw(0)) /\ Good(<<<<"idle">>>>)
  <2>1. PlainCall(<<"idle">>)
    BY PlainCalls DEF Careless
  <2>2. Plain(<<<<"idle">>>>)
    BY ONLY <2>1, PlainTuples
  <2> QED BY ONLY <2>2, PlainGood, GoodDraw
<1>3. Closed(<<<<"run">>>>) /\ Opens(<<<<"run">>>>)
  BY ClosedTuple
<1>4. \A s, t : Good(s) /\ Closed(t) /\ Opens(t) => Closed(s \o t) /\ Opens(s \o t)
  BY ClosedGood
<1> QED BY ONLY <1>1, <1>2, <1>3, <1>4

LEMMA ClosedMain == Closed(main) /\ main[1] = <<"connect">>
<1> DEFINE c == <<"connect">>
           C == <<c>>
<1>1. C \in Seq({c}) /\ Len(C) = 1 /\ C[1] = c /\ C # <<>> /\ c[1] = "connect"
  OBVIOUS
<1> HIDE DEF c, C
<1>2. Sequence(C)
  BY ONLY <1>1, SequenceOf
<1>3. \A k \in 1..1 : k = 1 /\ ~(k > 1)
  OBVIOUS
<1>4. Obeys(C) /\ Endless(C)
  BY ONLY <1>1, <1>2, <1>3 DEF Obeys, Endless, Ends, Spares
<1>5. \A t : Plain(t) => Obeys(t) /\ Opens(t) /\ Endless(t)
  BY PlainGood DEF Good
<1>6. Plain(demo_init_vk)
  <2>1. /\ PlainCall(<<"instance_layers">>) /\ PlainCall(<<"instance_extensions">>)
        /\ PlainCall(create(Instance)) /\ PlainCall(create(Obj("gpu", "")))
        /\ PlainCall(<<"device_layers">>) /\ PlainCall(<<"device_extensions">>)
        /\ PlainCall(<<"debug_callback">>) /\ PlainCall(create(Obj("malloc", "queue_props")))
    BY PlainCalls, PlainCreates DEF Careless
  <2> QED BY ONLY <2>1, PlainLonger DEF demo_init_vk
<1>7. Plain(<<<<"window">>>>) /\ Plain(demo_init_vk_swapchain)
  <2>1. /\ PlainCall(<<"window">>) /\ PlainCall(create(Surface)) /\ PlainCall(<<"choose_queue">>)
        /\ PlainCall(create(Device)) /\ PlainCall(<<"surface_formats">>)
        /\ PlainCall(create(Obj("malloc", "surfFormats")))
    BY PlainCalls, PlainCreates DEF Careless
  <2>2. \A s, t : Plain(s) /\ Plain(t) => Plain(s \o t)
    BY PlainConcat
  <2> QED BY ONLY <2>1, <2>2, PlainTuples DEF demo_init_vk_swapchain, demo_init_device
<1>8. Closed(demo_run) /\ Opens(demo_run) /\ Obeys(demo_run)
  BY ClosedTuple DEF demo_run, Closed
<1>9. \A s, t : Obeys(s) /\ Endless(s) /\ Obeys(t) /\ Opens(t) =>
         /\ Obeys(s \o t)
         /\ Endless(t) => Endless(s \o t)
         /\ s # <<>> => (s \o t)[1] = s[1] /\ s \o t # <<>>
         /\ Closed(t) => Closed(s \o t)
  BY JoinConcat
<1> DEFINE P1 == C \o demo_init_vk
           P2 == P1 \o <<<<"window">>>>
           P3 == P2 \o demo_init_vk_swapchain
           P4 == P3 \o demo_prepare
<1>10. main = P4 \o demo_run
  BY DEF main, C, c
<1>11. Obeys(P1) /\ Endless(P1) /\ P1 # <<>> /\ P1[1] = c
  BY ONLY <1>1, <1>4, <1>5, <1>6, <1>9
<1> HIDE DEF P1
<1>12. Obeys(P2) /\ Endless(P2) /\ P2 # <<>> /\ P2[1] = c
  BY ONLY <1>11, <1>5, <1>7, <1>9
<1> HIDE DEF P2
<1>13. Obeys(P3) /\ Endless(P3) /\ P3 # <<>> /\ P3[1] = c
  BY ONLY <1>12, <1>5, <1>7, <1>9
<1> HIDE DEF P3
<1>14. Obeys(P4) /\ Endless(P4) /\ P4 # <<>> /\ P4[1] = c
  BY ONLY <1>13, <1>5, <1>9, PlainPrepare
<1> HIDE DEF P4
<1> QED BY ONLY <1>8, <1>9, <1>10, <1>14 DEF c
-----------------------------------------------------------------------------
(* What the call at the head is for leaves a program that goes on. *)
LEMMA ClosedTail ==
    ASSUME NEW s, Closed(s)
    PROVE  /\ Sequence(s) /\ Sequence(Tail(s)) /\ Head(s) = s[1] /\ Spares(s[1])
           /\ s[1][1] \in Ends => Tail(s) = <<>>
           /\ s[1][1] \notin Ends => /\ Closed(Tail(s)) /\ Tail(s)[1] = s[2] /\ Tail(s) # <<>>
                                    /\ Linkable(s[1], s[2])
           /\ s[1][1] \in {"submit_setup", "present"} => s[2][1] = "idle"
           /\ s[1][1] = "draw" => s[2][1] = "present"
<1> DEFINE n == Len(s)
           t == Tail(s)
<1>1. /\ Sequence(s) /\ s # <<>>
      /\ \A k \in 1..n :
           /\ s[k][1] \in {"submit_setup", "present"} => k < n /\ s[k + 1][1] = "idle"
           /\ s[k][1] = "draw" => k < n /\ s[k + 1][1] = "present"
           /\ Spares(s[k])
           /\ s[k][1] \in Ends => k = n
           /\ k > 1 => Linkable(s[k - 1], s[k])
      /\ s[n][1] \in Ends
  BY DEF Closed, Obeys
<1>2. /\ Sequence(t) /\ n \in Nat \ {0} /\ Len(t) = n - 1
      /\ Head(s) = s[1] /\ \A i \in 1..n - 1 : t[i] = s[i + 1]
  BY ONLY <1>1, TailSequence
<1>3. t \in Seq(Range(t))
  BY ONLY <1>2 DEF Sequence
<1> HIDE DEF n, t
<1>4. (t = <<>>) <=> n = 1
  <2>1. (t = <<>>) <=> Len(t) = 0
    BY ONLY <1>3, EmptySeq
  <2> QED BY ONLY <1>2, <2>1
<1>5. 1 \in 1..n
  BY ONLY <1>2
<1>6. s[1][1] \in Ends => t = <<>>
  BY ONLY <1>1, <1>4, <1>5
<1>7. ASSUME s[1][1] \notin Ends
      PROVE  Closed(t) /\ t[1] = s[2] /\ t # <<>> /\ Linkable(s[1], s[2])
  <2>1. n > 1 /\ t # <<>>
    BY ONLY <1>1, <1>2, <1>4, <1>7
  <2>2. 2 \in 1..n /\ 2 - 1 = 1 /\ 1 + 1 = 2 /\ 1 \in 1..n - 1
    BY ONLY <1>2, <2>1
  <2>3. t[1] = s[2] /\ Linkable(s[1], s[2])
    BY ONLY <1>1, <1>2, <2>2
  <2>4. ASSUME NEW k \in 1..n - 1
        PROVE  /\ k + 1 \in 1..n /\ t[k] = s[k + 1]
               /\ k + 1 < n => k + 1 \in 1..n - 1 /\ t[k + 1] = s[(k + 1) + 1] /\ k < n - 1
               /\ k > 1 => (k + 1) - 1 = (k - 1) + 1 /\ t[k - 1] = s[(k + 1) - 1] /\ k + 1 > 1
               /\ k + 1 = n => k = n - 1
    <3>1. /\ k + 1 \in 1..n /\ (k + 1 < n => k + 1 \in 1..n - 1 /\ k < n - 1)
          /\ (k > 1 => (k + 1) - 1 = (k - 1) + 1 /\ k + 1 > 1 /\ k - 1 \in 1..n - 1)
          /\ (k + 1 = n => k = n - 1)
      BY ONLY <1>2, k \in 1..n - 1
    <3> QED BY ONLY <1>2, <3>1, k \in 1..n - 1
  <2>5. ASSUME NEW k \in 1..n - 1
        PROVE  /\ t[k][1] \in {"submit_setup", "present"} => k < n - 1 /\ t[k + 1][1] = "idle"
               /\ t[k][1] = "draw" => k < n - 1 /\ t[k + 1][1] = "present"
               /\ Spares(t[k])
               /\ t[k][1] \in Ends => k = n - 1
               /\ k > 1 => Linkable(t[k - 1], t[k])
    BY ONLY <1>1, <2>4, k \in 1..n - 1
  <2>6. Obeys(t)
    BY ONLY <1>2, <2>5 DEF Obeys
  <2>7. t[Len(t)] = s[n]
    <3>1. n - 1 \in 1..n - 1 /\ (n - 1) + 1 = n
      BY ONLY <1>2, <2>1
    <3> QED BY ONLY <1>2, <3>1
  <2> QED BY ONLY <1>1, <2>1, <2>3, <2>6, <2>7 DEF Closed
<1>8. /\ s[1][1] \in {"submit_setup", "present"} => s[2][1] = "idle"
      /\ s[1][1] = "draw" => s[2][1] = "present"
  <2>1. 1 + 1 = 2
    OBVIOUS
  <2> QED BY ONLY <1>1, <1>5, <2>1
<1> QED BY <1>1, <1>2, <1>5, <1>6, <1>7, <1>8 DEF t

(* The queue is waited for before the next frame. *)
Waits(s) == \E k \in 1..Len(s) : s[k][1] = "idle" /\ \A j \in 1..k - 1 : s[j][1] \notin Frames

LEMMA WaitsHead ==
    ASSUME NEW s, Sequence(s), s # <<>>
    PROVE  /\ Waits(s) => s[1][1] \notin Frames
           /\ s[1][1] = "idle" => Waits(s)
<1>1. Len(s) \in Nat \ {0}
  BY TailSequence
<1>2. \A k \in 1..Len(s) : k = 1 \/ 1 \in 1..k - 1
  BY ONLY <1>1
<1>3. 1 \in 1..Len(s) /\ \A j \in 1..1 - 1 : FALSE
  BY ONLY <1>1
<1> QED BY ONLY <1>2, <1>3 DEF Waits, Frames

(* Calm calls before those. *)
LEMMA WaitsBehind ==
    ASSUME NEW t, NEW calls, Sequence(t), t # <<>>, t[1][1] = "idle", Sequence(calls), Calm(calls)
    PROVE  Waits(calls \o t)
<1> DEFINE u == calls \o t
           n == Len(calls)
<1>1. /\ Len(u) = n + Len(t)
      /\ \A i \in 1..n : u[i] = calls[i]
      /\ \A i \in 1..Len(t) : u[i + n] = t[i]
  BY ConcatSequence
<1>2. n \in Nat /\ Len(t) \in Nat \ {0}
  BY SequenceType, TailSequence
<1> HIDE DEF u, n
<1>3. /\ 1 + n \in 1..n + Len(t) /\ 1 \in 1..Len(t)
      /\ \A j \in 1..(1 + n) - 1 : j \in 1..n
  BY ONLY <1>2
<1>4. \A j \in 1..(1 + n) - 1 : u[j][1] \notin Frames
  BY ONLY <1>1, <1>3, Calm(calls) DEF Calm, n
<1>5. u[1 + n][1] = "idle"
  BY ONLY <1>1, <1>3, t[1][1] = "idle"
<1> QED BY ONLY <1>1, <1>3, <1>4, <1>5 DEF Waits, u

LEMMA WaitsStep ==
    ASSUME NEW s, NEW calls, Sequence(s), s # <<>>, Waits(s), s[1][1] # "idle",
           Sequence(calls), Calm(calls)
    PROVE  Waits(calls \o Tail(s))
<1>1. PICK k \in 1..Len(s) : s[k][1] = "idle" /\ \A j \in 1..k - 1 : s[j][1] \notin Frames
  BY DEF Waits
<1> DEFINE t == Tail(s)
           u == calls \o t
           n == Len(calls)
           m == Len(s)
<1>2. /\ Sequence(t) /\ m \in Nat \ {0} /\ Len(t) = m - 1 /\ \A i \in 1..m - 1 : t[i] = s[i + 1]
  BY TailSequence
<1>3. /\ Sequence(u) /\ Len(u) = n + Len(t)
      /\ \A i \in 1..n : u[i] = calls[i]
      /\ \A i \in 1..Len(t) : u[i + n] = t[i]
      /\ \A i \in 1..n + Len(t) : i \in 1..n \/ i - n \in 1..Len(t)
  BY ONLY <1>2, ConcatSequence, Sequence(calls)
<1>4. n \in Nat
  BY SequenceType
<1> HIDE DEF t, u, n, m
<1>5. k \in 2..m
  BY ONLY <1>1, <1>2, s[1][1] # "idle", k \in 1..Len(s) DEF m
<1> DEFINE i == k - 1
           h == i + n
<1>6. i \in 1..m - 1 /\ k = i + 1
  BY ONLY <1>2, <1>5
<1> HIDE DEF i
<1>7. h \in 1..n + Len(t) /\ u[h] = s[k]
  <2>1. h \in 1..n + (m - 1)
    BY ONLY <1>2, <1>4, <1>6
  <2> QED BY ONLY <1>2, <1>3, <1>6, <2>1
<1>8. ASSUME NEW j \in 1..h - 1 PROVE u[j][1] \notin Frames
  <2>1. j \in 1..n + (m - 1) /\ j - n < i /\ j \in Int /\ (j - n) + n = j
    BY ONLY <1>2, <1>4, <1>6, j \in 1..h - 1
  <2>2. CASE j \in 1..n
    BY ONLY <1>3, <2>2, Calm(calls) DEF Calm, n
  <2>3. CASE j - n \in 1..m - 1
    <3>1. (j - n) + 1 \in 1..k - 1
      BY ONLY <1>4, <1>6, <2>1, <2>3
    <3>2. u[j] = s[(j - n) + 1]
      BY ONLY <1>2, <1>3, <2>1, <2>3
    <3> QED BY ONLY <1>1, <3>1, <3>2
  <2> QED BY ONLY <1>2, <1>3, <2>1, <2>2, <2>3
<1> QED BY <1>1, <1>3, <1>7, <1>8 DEF Waits, u, t

(* Calls in the place of one that asks nothing of the next. *)
LEMMA NextCalls ==
    ASSUME NEW s, NEW calls, Closed(s), s[1][1] \notin Ends \cup {"destroy", "free_setup"}, Good(calls)
    PROVE  LET u == calls \o Tail(s) IN
           /\ Closed(u) /\ Free(u[1])
           /\ calls = <<>> => u = Tail(s) /\ u[1] = s[2]
           /\ Waits(s) /\ s[1][1] # "idle" /\ Calm(calls) => Waits(u)
<1> DEFINE t == Tail(s)
           u == calls \o t
<1>1. /\ Sequence(s) /\ Sequence(t) /\ Closed(t) /\ t[1] = s[2] /\ t # <<>> /\ Linkable(s[1], s[2])
  BY ClosedTail
<1>2. s # <<>>
  BY DEF Closed
<1>3. Free(t[1])
  BY ONLY <1>1, s[1][1] \notin Ends \cup {"destroy", "free_setup"} DEF Linkable, Free, Destroys
<1>4. Opens(t)
  BY ONLY <1>3 DEF Opens
<1>5. Closed(u) /\ Opens(u)
  <2> HIDE DEF t
  <2> QED BY ONLY <1>1, <1>4, Good(calls), ClosedGood
<1>6. u # <<>>
  BY ONLY <1>5 DEF Closed
<1>7. calls = <<>> => u = t
  BY ONLY <1>1, ConcatEmptySeq DEF Sequence
<1>8. Sequence(calls)
  BY DEF Good, Obeys
<1>9. Waits(s) /\ s[1][1] # "idle" /\ Calm(calls) => Waits(u)
  BY <1>1, <1>2, <1>8, WaitsStep
<1> QED BY ONLY <1>1, <1>5, <1>6, <1>7, <1>9 DEF Opens
-----------------------------------------------------------------------------
HeadInv ==
    LET c == todo[1] IN
    /\ c[1] = "connect" => live = {}
    /\ c[1] = "setup_null" \/ Destroys(c, DrawCmd) => SetupCmd \notin live
    /\ Destroys(c, CmdPool) => {SetupCmd, DrawCmd} \cap live = {}

SetupInv ==
    /\ setup \in {"null", "set"} /\ desired \in Nat
    /\ SetupCmd \in live => setup = "set"
    /\ Sequence(recorded) /\ \A b \in Range(recorded) : b[1][1] = "image"

QueueInv ==
    /\ Sequence(queue)
    /\ queue # <<>> => err = "out_of_date" \/ todo[1][1] \in {"idle", "present"}
    /\ \A s \in Range(queue) : SetupCmd \in s.uses => todo[1][1] = "idle"

ErrInv == err = "out_of_date" => Waits(todo)

RunInv == Closed(todo) /\ HeadInv /\ SetupInv /\ QueueInv /\ ErrInv

(* The command buffers among the blocks and among the objects. *)
CommandBlocks(blocks) == {b \in blocks : b[1][1] = "command_buffer"}
CommandBuffers(os) == {o \in os : o[1] = "command_buffer"}
BlocksInv == args.driver = "null" => CommandBlocks(heap) = {<<o, "base">> : o \in CommandBuffers(live)}

Inv == BlocksInv /\ (status = "running" => RunInv)

LEMMA HeadFree ==
    ASSUME Free(todo[1]) PROVE HeadInv
BY DEF HeadInv, Free

(* What the calls so far leave: of a program that runs, its first call. *)
LEMMA RunHead ==
    ASSUME Inv, status = "running"
    PROVE  /\ RunInv /\ Head(todo) = todo[1] /\ Spares(todo[1])
           /\ err = "out_of_date" => todo[1][1] \notin Frames
           /\ todo[1][1] \in Frames \ {"present"} => queue = <<>>
           /\ todo[1][1] # "idle" => \A s \in Range(queue) : SetupCmd \notin s.uses
<1>1. RunInv /\ Closed(todo) /\ QueueInv /\ ErrInv
  BY DEF Inv, RunInv
<1>2. Head(todo) = todo[1] /\ Spares(todo[1]) /\ Sequence(todo) /\ todo # <<>>
  BY ONLY <1>1, ClosedTail DEF Closed
<1>3. err = "out_of_date" => todo[1][1] \notin Frames
  BY ONLY <1>1, <1>2, WaitsHead DEF ErrInv
<1>4. todo[1][1] \in Frames \ {"present"} => queue = <<>>
  BY ONLY <1>1, <1>3 DEF QueueInv, Frames
<1> QED BY ONLY <1>1, <1>2, <1>3, <1>4 DEF QueueInv

(* A step that leaves the queue alone. *)
LEMMA QuietStep ==
    ASSUME Inv, status = "running", NEW calls, Good(calls), Continue(calls),
           todo[1][1] \notin Ends \cup {"destroy", "free_setup", "idle", "present"},
           Calm(calls) \/ todo[1][1] \in Frames,
           UNCHANGED <<queue, err>>, SetupInv'
    PROVE  RunInv'
<1>1. /\ RunInv /\ (err = "out_of_date" => todo[1][1] \notin Frames)
      /\ \A s \in Range(queue) : SetupCmd \notin s.uses
  BY RunHead
<1>2. Closed(todo) /\ todo' = calls \o Tail(todo)
  BY ONLY <1>1, Continue(calls) DEF RunInv, Continue
<1>3. /\ Closed(todo') /\ Free(todo'[1])
      /\ Waits(todo) /\ Calm(calls) => Waits(todo')
  BY ONLY <1>2, NextCalls, Good(calls), todo[1][1] \notin Ends \cup {"destroy", "free_setup", "idle", "present"}
<1>4. HeadInv'
  BY ONLY <1>3 DEF HeadInv, Free
<1>5. ErrInv'
  BY ONLY <1>1, <1>3, Calm(calls) \/ todo[1][1] \in Frames, UNCHANGED <<queue, err>> DEF RunInv, ErrInv
<1>6. QueueInv'
  BY ONLY <1>1, UNCHANGED <<queue, err>>,
     todo[1][1] \notin Ends \cup {"destroy", "free_setup", "idle", "present"} DEF RunInv, QueueInv
<1> QED BY ONLY <1>3, <1>4, <1>5, <1>6, SetupInv' DEF RunInv
-----------------------------------------------------------------------------
(* What creating an object leaves allocated is the object's, or the handle *)
(* of a physical device that only counted.                                 *)
Own(o, outcomes) == \A r \in outcomes : \A b \in r.kept : b[1] = o \/ b[1][1] = "gpu"

LEMMA OwnBlocks ==
    ASSUME NEW o
    PROVE  Own(o, Created(o))
<1>1. \A p, part : p = o \/ p[1] = "gpu" => Own(o, malloc(p, part))
  BY DEF Own, malloc, Outcome
<1>2. \A s, t : Own(o, s) /\ Own(o, t) => Own(o, Then(s, t))
  <2> SUFFICES ASSUME NEW s, NEW t, Own(o, s), Own(o, t), NEW r \in Then(s, t), NEW b \in r.kept
               PROVE  b[1] = o \/ b[1][1] = "gpu"
    BY DEF Own
  <2>1. CASE r \in s
    BY <2>1 DEF Own
  <2>2. CASE r \notin s
    <3>1. PICK x \in s, y \in t : r = Outcome(x.kept \cup y.kept, y.ok)
      BY <2>2 DEF Then
    <3>2. b \in x.kept \/ b \in y.kept
      BY <3>1 DEF Outcome
    <3> QED BY <3>2 DEF Own
  <2> QED BY <2>1, <2>2
<1>3. Own(o, nothing)
  BY DEF Own, nothing, Outcome
<1>4. Own(o, base_create(o))
  BY <1>1 DEF base_create
<1>5. Own(o, cmd_create({o}))
  BY DEF Own, cmd_create, Outcome
<1>6. Own(o, mem_alloc(o))
  BY <1>1, <1>2, <1>4 DEF mem_alloc
<1>7. Own(o, dev_create(o, {"swapchain"}))
  <2>1. Own(o, {Outcome({}, FALSE)})
    BY DEF Own, Outcome
  <2>2. Own(o, Then(desc_ooxx_create(o), dev_create_queues(o)))
    BY <1>1, <1>2 DEF desc_ooxx_create, dev_create_queues, queue_create
  <2>3. \A s : Own(o, s) => Own(o, Then(base_create(o), s))
    BY <1>2, <1>4
  <2> QED BY <2>1, <2>2, <2>3 DEF dev_create
<1>8. Own(o, enumerate_physical_devices(o))
  <2>1. <<"gpu", "counted", 0>>[1] = "gpu"
    OBVIOUS
  <2> QED BY <1>1, <1>2, <2>1 DEF enumerate_physical_devices, gpu_add
<1> HIDE DEF Own
<1>9. \A k \in DOMAIN device_funcs(o) : Own(o, device_funcs(o)[k])
  BY <1>3, <1>4, <1>5, <1>6, <1>7, <1>8
     DEF device_funcs, create_instance, img_create, img_view_create, sampler_create, buf_create,
         create_semaphore, create_command_pool, create_shader_module, create_pipeline_cache,
         graphics_pipeline_create, pipeline_layout_create, desc_layout_create, desc_pool_create,
         desc_set_create, render_pass_create, fb_create
<1> QED BY <1>3, <1>9 DEF Created

LEMMA CommandOutcomes ==
    ASSUME NEW o, o[1] = "command_buffer"
    PROVE  Created(o) = {Outcome({<<o, "base">>}, TRUE), Outcome({}, FALSE)}
<1>1. Created(o) = cmd_create({o})
  BY DEF Created, device_funcs
<1>2. {<<p, "base">> : p \in {o}} = {<<o, "base">>}
  OBVIOUS
<1> QED BY ONLY <1>1, <1>2 DEF cmd_create

(* Creating something keeps the command buffers' blocks in step. *)
LEMMA CreateBlocks ==
    ASSUME BlocksInv, NEW o, NEW r \in Outcomes(o, Created(o)),
           heap' = heap \cup r.kept, UNCHANGED args,
           live' = IF r.ok THEN live \cup {o} ELSE live
    PROVE  BlocksInv'
<1> SUFFICES ASSUME args.driver = "null"
             PROVE  CommandBlocks(heap') = {<<p, "base">> : p \in CommandBuffers(live')}
  BY DEF BlocksInv
<1>1. CommandBlocks(heap) = {<<p, "base">> : p \in CommandBuffers(live)}
  BY DEF BlocksInv
<1>2. r \in Created(o) \/ r = Outcome({}, FALSE)
  BY DEF Outcomes
<1>3. CASE o[1] = "command_buffer"
  <2>1. r = Outcome({<<o, "base">>}, TRUE) \/ r = Outcome({}, FALSE)
    BY ONLY <1>2, <1>3, CommandOutcomes
  <2>2. CASE r = Outcome({<<o, "base">>}, TRUE)
    <3>1. heap' = heap \cup {<<o, "base">>} /\ live' = live \cup {o}
      BY <2>2 DEF Outcome
    <3> QED BY ONLY <1>1, <1>3, <3>1 DEF CommandBlocks, CommandBuffers
  <2>3. CASE r = Outcome({}, FALSE)
    <3>1. heap' = heap /\ live' = live
      BY <2>3 DEF Outcome
    <3> QED BY ONLY <1>1, <3>1
  <2> QED BY ONLY <2>1, <2>2, <2>3
<1>4. CASE o[1] # "command_buffer"
  <2>1. \A b \in r.kept : b[1] = o \/ b[1][1] = "gpu"
    BY <1>2, OwnBlocks DEF Own, Outcome
  <2>2. \A b \in r.kept : b[1][1] # "command_buffer"
    BY ONLY <1>4, <2>1
  <2>3. CommandBlocks(heap') = CommandBlocks(heap)
    BY <2>2 DEF CommandBlocks
  <2>4. CommandBuffers(live') = CommandBuffers(live)
    BY <1>4 DEF CommandBuffers
  <2> QED BY ONLY <1>1, <2>3, <2>4
<1> QED BY ONLY <1>3, <1>4

LEMMA SameBlocks ==
    ASSUME BlocksInv, UNCHANGED <<heap, args>>, CommandBuffers(live') = CommandBuffers(live)
    PROVE  BlocksInv'
BY DEF BlocksInv

(* The images of a swapchain, those of one that fails included. *)
LEMMA SwapchainBlocks ==
    ASSUME BlocksInv, SetupInv, CreateSwapchain
    PROVE  BlocksInv' /\ (SetupCmd \in live' => SetupCmd \in live)
<1> DEFINE new    == Swapchain(chain + 1)
           images == [i \in 1..desired |-> ColorImage(chain + 1, i)]
<1>1. PICK r \in Outcomes(new, create_image_from_native_buffer_TIZEN(images)) :
         /\ heap' = heap \cup r.kept
         /\ IF r.ok THEN live' = live \cup ({new} \cup Range(images)) ELSE live' = live
  <2> HIDE DEF new, images
  <2> QED BY DEF CreateSwapchain, Add, new, images
<1>2. UNCHANGED args
  BY DEF CreateSwapchain
<1>3. desired \in Nat
  BY DEF SetupInv
<1>4. Len(images) = desired
  <2> DEFINE S == {ColorImage(chain + 1, i) : i \in 1..desired}
  <2>1. images \in [1..desired -> S]
    OBVIOUS
  <2> HIDE DEF images, S
  <2>2. images \in Seq(S)
    BY ONLY <1>3, <2>1, SeqDef
  <2> QED BY ONLY <1>3, <2>1, <2>2
<1>5. \A b \in r.kept : b[1][1] = "image"
  <2> SUFFICES ASSUME NEW b \in r.kept PROVE b[1][1] = "image"
    OBVIOUS
  <2>1. r \in create_image_from_native_buffer_TIZEN(images)
    BY <1>1 DEF Outcomes, nothing, Outcome
  <2>2. PICK k \in 0..Len(images) : r = Outcome({<<images[i], "base">> : i \in 1..k}, k = Len(images))
    <3> HIDE DEF images
    <3> QED BY ONLY <2>1 DEF create_image_from_native_buffer_TIZEN
  <2>3. PICK i \in 1..k : b = <<images[i], "base">>
    BY ONLY <2>2, b \in r.kept DEF Outcome
  <2>4. i \in 1..desired
    BY ONLY <1>3, <1>4, <2>2, <2>3
  <2> QED BY ONLY <2>3, <2>4 DEF ColorImage
<1>6. \A o \in {new} \cup Range(images) : o[1] \in {"swapchain", "image"}
  <2>1. new[1] = "swapchain"
    BY DEF Swapchain
  <2>2. \A i \in 1..desired : images[i][1] = "image"
    BY DEF ColorImage
  <2>3. Range(images) = {images[i] : i \in 1..desired}
    BY DEF Range
  <2> HIDE DEF new, images
  <2> QED BY ONLY <2>1, <2>2, <2>3
<1>7. CommandBlocks(heap') = CommandBlocks(heap)
  BY ONLY <1>1, <1>5 DEF CommandBlocks
<1> HIDE DEF new, images
<1>8. CommandBuffers(live') = CommandBuffers(live)
  BY ONLY <1>1, <1>6 DEF CommandBuffers
<1>9. BlocksInv'
  BY ONLY <1>2, <1>7, <1>8, BlocksInv DEF BlocksInv
<1>10. SetupCmd[1] = "command_buffer"
  BY DEF SetupCmd, Obj
<1> QED BY ONLY <1>8, <1>9, <1>10 DEF CommandBuffers
-----------------------------------------------------------------------------
(* Steps that only choose what comes next, or end the program. *)
Chosen == {"window", "instance_extensions", "device_layers", "device_extensions", "debug_callback",
           "choose_queue", "surface_formats", "destroy_old_swapchain", "color_views", "framebuffers",
           "texture", "flush"}
Goes ==
    /\ KeepsAll
    /\ Head(todo)[1] \in Chosen
    /\ \/ \E calls : Good(calls) /\ Calm(calls) /\ Continue(calls)
       \/ status' # "running"

LEMMA GoesKeeps ==
    ASSUME Inv, status = "running", Goes
    PROVE  Inv'
<1>1. BlocksInv'
  BY SameBlocks DEF Inv, Goes, KeepsAll, objects, client
<1>2. ASSUME status' = "running" PROVE RunInv'
  <2>1. Head(todo) = todo[1] /\ RunInv
    BY RunHead
  <2>2. PICK calls : Good(calls) /\ Calm(calls) /\ Continue(calls)
    BY ONLY <1>2, Goes DEF Goes
  <2>3. todo[1][1] \notin Ends \cup {"destroy", "free_setup", "idle", "present"}
    BY ONLY <2>1, Goes DEF Goes, Chosen, Ends
  <2>4. UNCHANGED <<queue, err>> /\ SetupInv'
    BY ONLY <2>1, Goes DEF Goes, KeepsAll, objects, client, device, RunInv, SetupInv
  <2> QED BY ONLY <2>2, <2>3, <2>4, QuietStep, Inv, status = "running"
<1> QED BY ONLY <1>1, <1>2 DEF Inv

LEMMA PlainContinue ==
    ASSUME NEW calls, Plain(calls), Continue(calls)
    PROVE  \E c : Good(c) /\ Calm(c) /\ Continue(c)
BY PlainGood

LEMMA ContinueIfGoes ==
    ASSUME NEW found, ContinueIf(found), Head(todo)[1] \in Chosen
    PROVE  Goes
<1>1. KeepsAll /\ (Continue(<<>>) \/ status' = "exited")
  BY DEF ContinueIf, End
<1> QED BY <1>1, PlainTuples, PlainContinue DEF Goes

LEMMA StartGoes ==
    ASSUME \/ demo_create_window \/ InstanceExtensions \/ DeviceLayers \/ DeviceExtensions
           \/ DebugCallback \/ ChooseQueue \/ SurfaceFormats
    PROVE  Goes
<1>1. \A o : o # SetupCmd => PlainCall(create(o))
  BY PlainCalls
<1>2. CASE demo_create_window
  <2>1. Obj("wayland", "surface") # SetupCmd /\ Obj("wayland", "shell_surface") # SetupCmd
    BY DEF Obj, SetupCmd
  <2>2. Plain(<<create(Obj("wayland", "surface")), create(Obj("wayland", "shell_surface"))>>)
    BY ONLY <1>1, <2>1, PlainTuples
  <2>3. /\ KeepsAll /\ Head(todo)[1] = "window"
        /\ \/ Continue(<<create(Obj("wayland", "surface")), create(Obj("wayland", "shell_surface"))>>)
           \/ status' = "no_global"
    BY <1>2 DEF demo_create_window, At, End
  <2> QED BY ONLY <2>2, <2>3, PlainContinue DEF Goes, Chosen
<1>3. CASE InstanceExtensions
  <2>1. Head(todo)[1] \in Chosen /\ \E found \in BOOLEAN : ContinueIf(found)
    BY <1>3 DEF InstanceExtensions, At, Chosen
  <2> QED BY ONLY <2>1, ContinueIfGoes
<1>4. CASE DeviceLayers
  <2>1. Head(todo)[1] \in Chosen /\ \E found \in BOOLEAN : ContinueIf(found)
    BY <1>4 DEF DeviceLayers, At, Chosen
  <2> QED BY ONLY <2>1, ContinueIfGoes
<1>5. CASE DeviceExtensions
  <2>1. Head(todo)[1] \in Chosen /\ \E f \in SUBSET device_extensions : ContinueIf("swapchain" \in f)
    BY <1>5 DEF DeviceExtensions, At, Chosen
  <2> QED BY ONLY <2>1, ContinueIfGoes
<1>6. CASE ChooseQueue
  <2>1. Head(todo)[1] \in Chosen /\ \E found \in BOOLEAN : ContinueIf(found)
    BY <1>6 DEF ChooseQueue, At, Chosen
  <2> QED BY ONLY <2>1, ContinueIfGoes
<1>7. CASE DebugCallback
  <2> DEFINE calls == IF args.validate THEN <<create(Obj("debug_callback", ""))>> ELSE <<>>
  <2>1. KeepsAll /\ Head(todo)[1] = "debug_callback" /\ (Continue(calls) \/ status' = "exited")
    BY <1>7 DEF DebugCallback, At, End
  <2>2. Obj("debug_callback", "") # SetupCmd
    BY DEF Obj, SetupCmd
  <2>3. Plain(calls)
    BY ONLY <1>1, <2>2, PlainTuples
  <2> QED BY ONLY <2>1, <2>3, PlainContinue DEF Goes, Chosen
<1>8. CASE SurfaceFormats
  <2>1. /\ KeepsAll /\ Head(todo)[1] = "surface_formats"
        /\ Continue(<<>>) \/ status' = "null_surface"
    BY <1>8 DEF SurfaceFormats, At, End
  <2> QED BY ONLY <2>1, PlainTuples, PlainContinue DEF Goes, Chosen
<1> QED BY <1>2, <1>3, <1>4, <1>5, <1>6, <1>7, <1>8

(* A call that fails ends the program, whatever it was.                    *)
LEMMA FailureKeeps ==
    ASSUME Inv, AssertFails
    PROVE  Inv' /\ live' = live /\ queue' = queue
<1>1. status' = "aborted" /\ UNCHANGED <<heap, live, args, queue>> /\ BlocksInv
  BY DEF AssertFails, End, KeepsAll, objects, client, device, Inv
<1>2. BlocksInv'
  BY ONLY <1>1, SameBlocks
<1> QED BY ONLY <1>1, <1>2 DEF Inv

LEMMA ImagesGoes ==
    ASSUME DestroyOldSwapchain \/ ColorViews \/ Framebuffers \/ Texture \/ Flush
    PROVE  Goes
<1>1. CASE DestroyOldSwapchain
  <2> DEFINE calls == IF chain > 1 THEN <<destroy(Swapchain(chain - 1))>> ELSE <<>>
  <2>1. PlainCall(destroy(Swapchain(chain - 1)))
    BY PlainDestroys
  <2>2. Plain(calls)
    BY ONLY <2>1, PlainTuples
  <2>3. KeepsAll /\ Head(todo)[1] = "destroy_old_swapchain" /\ Continue(calls)
    BY <1>1 DEF DestroyOldSwapchain, At
  <2> QED BY ONLY <2>2, <2>3, PlainContinue DEF Goes, Chosen
<1>2. CASE ColorViews
  <2> DEFINE i == Head(todo)[2]
             barrier == demo_set_image_layout(ColorImage(chain, i), "undefined", "present_src")
             more == <<create(ColorView(i)), <<"color_views", i + 1>>>>
             calls == IF i \in Images THEN barrier \o more ELSE <<>>
  <2>1. KeepsAll /\ Head(todo)[1] = "color_views" /\ Continue(calls)
    BY <1>2 DEF ColorViews, At
  <2>2. ColorImage(chain, i)[1] = "image"
    BY DEF ColorImage
  <2>3. Plain(barrier)
    BY ONLY <2>2, PlainImages
  <2>4. PlainCall(create(ColorView(i))) /\ PlainCall(<<"color_views", i + 1>>)
    BY PlainCreates, PlainCalls DEF Careless
  <2>5. Plain(more) /\ Plain(<<>>)
    BY ONLY <2>4, PlainTuples
  <2>6. Plain(calls)
    <3> HIDE DEF barrier, more
    <3> QED BY <2>3, <2>5, PlainConcat
  <2> QED BY ONLY <2>1, <2>6, PlainContinue DEF Goes, Chosen
<1>3. CASE Framebuffers
  <2>1. /\ KeepsAll /\ Head(todo)[1] = "framebuffers"
        /\ Continue([i \in Images |-> create(Framebuffer(i))])
    BY <1>3 DEF Framebuffers, At
  <2> QED BY ONLY <2>1, PlainOnImages, PlainContinue DEF Goes, Chosen
<1>4. CASE Texture
  <2>1. /\ KeepsAll /\ Head(todo)[1] = "texture"
        /\ \/ Continue(demo_prepare_texture_image("texture", {"host_visible"}))
           \/ Continue(StagedTexture)
           \/ status' = "aborted"
    <3>1. KeepsAll /\ Head(todo)[1] = "texture"
      BY <1>4 DEF Texture, At
    <3>2. PICK tilings : CASE "linear" \in tilings /\ ~args.staging ->
                    Continue(demo_prepare_texture_image("texture", {"host_visible"}))
             [] "optimal" \in tilings /\ (args.staging \/ "linear" \notin tilings) ->
                    Continue(StagedTexture)
             [] OTHER -> End("aborted")
      BY <1>4 DEF Texture
    <3> QED BY ONLY <3>1, <3>2 DEF End
  <2> QED BY ONLY <2>1, PlainTextures, PlainContinue DEF Goes, Chosen
<1>5. CASE Flush
  <2>1. KeepsAll /\ Head(todo)[1] = "flush" /\ (Continue(<<>>) \/ Continue(FlushCalls))
    BY <1>5 DEF Flush, At
  <2>2. Plain(<<>>)
    BY PlainTuples
  <2> QED BY ONLY <2>1, <2>2, PlainContinue, GoodFlush DEF Goes, Chosen
<1> QED BY <1>1, <1>2, <1>3, <1>4, <1>5
-----------------------------------------------------------------------------
(* Steps that go on to the next call, or end the program. *)
Drops == {"connect", "instance_layers", "create", "memory", "capabilities", "create_swapchain",
          "update_descriptor_sets", "prepared", "unprepared", "barrier", "copy", "setup_null"}

LEMMA NextKeeps ==
    ASSUME Inv, status = "running", Head(todo)[1] \in Drops, BlocksInv',
           status' # "running" \/ (Continue(<<>>) /\ UNCHANGED <<queue, err>> /\ SetupInv')
    PROVE  Inv'
<1>1. Good(<<>>) /\ Calm(<<>>)
  BY PlainTuples, PlainGood
<1>2. todo[1][1] \in Drops
  BY RunHead
<1>3. todo[1][1] \notin Ends \cup {"destroy", "free_setup", "idle", "present"}
  BY ONLY <1>2 DEF Drops, Ends
<1>4. ASSUME status' = "running" PROVE RunInv'
  <2>1. Continue(<<>>) /\ UNCHANGED <<queue, err>> /\ SetupInv'
    BY <1>4
  <2> QED BY ONLY <1>1, <1>3, <2>1, QuietStep, Inv, status = "running"
<1> QED BY ONLY <1>4, BlocksInv' DEF Inv

LEMMA ConnectKeeps ==
    ASSUME Inv, demo_init_connection
    PROVE  Inv' /\ live \ live' = {}
<1>1. status = "running" /\ Head(todo)[1] = "connect"
  BY DEF demo_init_connection, At
<1>2. RunInv /\ Head(todo) = todo[1] /\ BlocksInv
  BY <1>1, RunHead DEF Inv
<1>3. live = {}
  BY ONLY <1>1, <1>2 DEF RunInv, HeadInv
<1>4. UNCHANGED <<heap, args, setup, desired, recorded, queue, err>>
  BY DEF demo_init_connection, client, device
<1>5. \A o \in live' : o[1] = "wayland"
  BY ONLY <1>3, demo_init_connection DEF demo_init_connection, Obj
<1>6. SetupCmd \notin live'
  <2>1. SetupCmd[1] = "command_buffer"
    BY DEF SetupCmd, Obj
  <2> QED BY ONLY <1>5, <2>1
<1>7. BlocksInv'
  <2>1. CommandBuffers(live') = CommandBuffers(live)
    BY ONLY <1>3, <1>5 DEF CommandBuffers
  <2> QED BY ONLY <1>2, <1>4, <2>1, SameBlocks
<1>8. SetupInv'
  BY ONLY <1>2, <1>4, <1>6 DEF RunInv, SetupInv
<1>9. status' # "running" \/ Continue(<<>>)
  BY DEF demo_init_connection, End
<1> QED BY ONLY <1>1, <1>3, <1>4, <1>7, <1>8, <1>9, NextKeeps, Inv DEF Drops

LEMMA LayersKeeps ==
    ASSUME Inv, InstanceLayers \/ Capabilities \/ UpdateDescriptorSets \/ Prepared
    PROVE  Inv' /\ live' = live
<1>1. /\ status = "running"
      /\ Head(todo)[1] \in {"instance_layers", "capabilities", "update_descriptor_sets",
                            "prepared", "unprepared"}
  BY DEF InstanceLayers, Capabilities, UpdateDescriptorSets, Prepared, At
<1>2. RunInv /\ BlocksInv
  BY <1>1, RunHead DEF Inv
<1>3. UNCHANGED <<heap, live, args, setup, recorded, queue, err>>
  BY DEF InstanceLayers, Capabilities, UpdateDescriptorSets, Prepared, objects, client, device
<1>4. status' # "running" \/ Continue(<<>>)
  BY DEF InstanceLayers, Capabilities, UpdateDescriptorSets, Prepared, End
<1>5. desired' \in Nat
  <2>1. desired \in Nat
    BY <1>2 DEF RunInv, SetupInv
  <2>2. CASE Capabilities
    <3>1. \A min, max \in Int : min \in Nat /\ max \in Nat => DesiredImages(min, max) \in Nat
      BY DEF DesiredImages
    <3>2. PICK min \in 1..MaxImages - 1, max \in 0..MaxImages : desired' = DesiredImages(min, max)
      BY <2>2 DEF Capabilities
    <3> QED BY ONLY <3>1, <3>2, TriAssumption
  <2> QED BY <2>1, <2>2 DEF InstanceLayers, UpdateDescriptorSets, Prepared, client
<1>6. BlocksInv'
  BY ONLY <1>2, <1>3, SameBlocks
<1>7. SetupInv'
  BY ONLY <1>2, <1>3, <1>5 DEF RunInv, SetupInv
<1> QED BY ONLY <1>1, <1>3, <1>4, <1>6, <1>7, NextKeeps, Inv DEF Drops

LEMMA CreateKeeps ==
    ASSUME Inv, Create \/ AllocateMemory \/ CreateSwapchain
    PROVE  Inv' /\ live \ live' = {}
<1>1. status = "running" /\ Head(todo)[1] \in {"create", "memory", "create_swapchain"}
  BY DEF Create, AllocateMemory, CreateSwapchain, At
<1>2. RunInv /\ BlocksInv /\ Spares(todo[1]) /\ Head(todo) = todo[1] /\ SetupInv
  BY <1>1, RunHead DEF Inv, RunInv
<1>3. UNCHANGED <<args, setup, desired, recorded, queue, err>>
  BY DEF Create, AllocateMemory, CreateSwapchain, CreateOr, KeepsAll, client, device
<1>4. status' # "running" \/ Continue(<<>>)
  BY DEF Create, AllocateMemory, CreateSwapchain, CreateOr, End
<1>5. BlocksInv' /\ (SetupCmd \in live' => SetupCmd \in live) /\ live \ live' = {}
  <2>1. CASE CreateSwapchain
    <3>1. live \ live' = {}
      BY <2>1 DEF CreateSwapchain, Add
    <3> QED BY ONLY <1>2, <2>1, <3>1, SwapchainBlocks
  <2>2. CASE ~CreateSwapchain
    <3> DEFINE o == Head(todo)[2]
    <3>1. Create \/ AllocateMemory
      BY <2>2
    <3>2. \/ \E r \in Outcomes(o, Created(o)), e \in {"exited", "aborted"} : CreateOr(o, r, e)
          \/ UNCHANGED <<heap, live>>
      BY ONLY <3>1 DEF Create, AllocateMemory, KeepsAll, objects
    <3>3. o # SetupCmd
      <4>1. Head(todo)[1] \in {"create", "memory"}
        BY ONLY <3>1 DEF Create, AllocateMemory, At
      <4> QED BY ONLY <1>2, <4>1 DEF Spares
    <3>4. CASE UNCHANGED <<heap, live>>
      BY ONLY <1>2, <1>3, <3>4, SameBlocks
    <3>5. CASE \E r \in Outcomes(o, Created(o)), e \in {"exited", "aborted"} : CreateOr(o, r, e)
      <4> HIDE DEF o
      <4>1. PICK r \in Outcomes(o, Created(o)) : /\ heap' = heap \cup r.kept
                                                /\ live' = IF r.ok THEN live \cup {o} ELSE live
        BY ONLY <3>5 DEF CreateOr, Add
      <4>2. BlocksInv'
        BY ONLY <1>2, <1>3, <4>1, CreateBlocks
      <4> QED BY ONLY <3>3, <4>1, <4>2
    <3> QED BY ONLY <3>2, <3>4, <3>5
  <2> QED BY ONLY <2>1, <2>2
<1>6. SetupInv'
  BY ONLY <1>2, <1>3, <1>5 DEF SetupInv
<1> QED BY ONLY <1>1, <1>3, <1>4, <1>5, <1>6, NextKeeps, Inv DEF Drops

LEMMA RecordKeeps ==
    ASSUME Inv, Record
    PROVE  Inv' /\ live \ live' = {}
<1>1. status = "running" /\ Head(todo)[1] \in {"barrier", "copy"}
  BY DEF Record, At
<1>2. RunInv /\ BlocksInv /\ SetupInv /\ Spares(todo[1]) /\ Head(todo) = todo[1]
  BY <1>1, RunHead DEF Inv, RunInv
<1>3. UNCHANGED <<args, desired, queue, err>>
  BY DEF Record, device
<1>4. Head(todo)[2][1][1] = "image" /\ setup \in {"null", "set"}
  BY ONLY <1>1, <1>2 DEF Spares, SetupInv
<1>5. CASE setup = "null"
  <2>1. PICK r \in Outcomes(SetupCmd, cmd_create({SetupCmd})) :
           /\ heap' = heap \cup r.kept
           /\ IF r.ok
              THEN /\ live' = live \cup {SetupCmd} /\ setup' = "set"
                   /\ recorded' = <<Head(todo)[2]>> /\ Continue(<<>>)
              ELSE End("aborted") /\ UNCHANGED <<live, setup, recorded>>
    <3> HIDE DEF SetupCmd
    <3> QED BY <1>5 DEF Record
  <2>2. Created(SetupCmd) = cmd_create({SetupCmd})
    <3>1. SetupCmd[1] = "command_buffer"
      BY DEF SetupCmd, Obj
    <3>2. \A o : o[1] = "command_buffer" => Created(o) = cmd_create({o})
      BY DEF Created, device_funcs
    <3> QED BY ONLY <3>1, <3>2
  <2>3. live' = IF r.ok THEN live \cup {SetupCmd} ELSE live
    BY ONLY <2>1
  <2>4. BlocksInv'
    BY ONLY <1>2, <1>3, <2>1, <2>2, <2>3, CreateBlocks
  <2>5. status' # "running" \/ (Continue(<<>>) /\ SetupInv')
    <3>1. CASE ~r.ok
      BY ONLY <2>1, <3>1 DEF End
    <3>2. CASE r.ok
      <4>1. setup' = "set" /\ recorded' = <<Head(todo)[2]>> /\ Continue(<<>>)
        BY ONLY <2>1, <3>2
      <4>2. \A b : /\ <<b>> \in Seq({b})
                  /\ Range(<<b>>) = {b}
        BY DEF Range
      <4>3. Sequence(recorded') /\ Range(recorded') = {Head(todo)[2]}
        BY ONLY <4>1, <4>2, SequenceOf
      <4> QED BY ONLY <1>2, <1>3, <1>4, <4>1, <4>3 DEF SetupInv
    <3> QED BY ONLY <3>1, <3>2
  <2> QED BY ONLY <1>1, <1>3, <2>3, <2>4, <2>5, NextKeeps, Inv DEF Drops
<1>6. CASE setup = "set" /\ SetupCmd \in live
  <2>1. recorded' = Append(recorded, Head(todo)[2]) /\ Continue(<<>>) /\ UNCHANGED <<heap, live, setup>>
    BY <1>6 DEF Record, objects
  <2>2. BlocksInv'
    BY ONLY <1>2, <1>3, <2>1, SameBlocks
  <2>3. Sequence(recorded') /\ Range(recorded') = Range(recorded) \cup {Head(todo)[2]}
    <3>1. Sequence(recorded)
      BY ONLY <1>2 DEF SetupInv
    <3> QED BY ONLY <2>1, <3>1, AppendSequence
  <2>4. SetupInv'
    BY ONLY <1>2, <1>3, <1>4, <2>1, <2>3 DEF SetupInv
  <2> QED BY ONLY <1>1, <1>3, <2>1, <2>2, <2>4, NextKeeps, Inv DEF Drops
<1>7. CASE setup = "set" /\ SetupCmd \notin live
  <2>1. End("stale_command") /\ UNCHANGED <<heap, live>>
    BY <1>7 DEF Record, objects
  <2>2. BlocksInv'
    BY ONLY <1>2, <1>3, <2>1, SameBlocks
  <2> QED BY ONLY <2>1, <2>2 DEF End, Inv
<1> QED BY ONLY <1>4, <1>5, <1>6, <1>7

LEMMA SetupNullKeeps ==
    ASSUME Inv, SetupNull
    PROVE  Inv' /\ live' = live
<1>1. status = "running" /\ Head(todo)[1] = "setup_null"
  BY DEF SetupNull, At
<1>2. RunInv /\ BlocksInv /\ SetupInv /\ Head(todo) = todo[1]
  BY <1>1, RunHead DEF Inv, RunInv
<1>3. UNCHANGED <<heap, live, args, desired, recorded, queue, err>> /\ setup' = "null" /\ Continue(<<>>)
  BY DEF SetupNull, objects, device
<1>4. SetupCmd \notin live
  BY ONLY <1>1, <1>2 DEF RunInv, HeadInv
<1>5. SetupInv'
  BY ONLY <1>2, <1>3, <1>4 DEF SetupInv
<1>6. BlocksInv'
  BY ONLY <1>2, <1>3, SameBlocks
<1> QED BY ONLY <1>1, <1>3, <1>5, <1>6, NextKeeps, Inv DEF Drops

LEMMA AcquireKeeps ==
    ASSUME Inv, Acquire
    PROVE  Inv' /\ live' = live
<1>1. status = "running" /\ Head(todo)[1] = "acquire" /\ UNCHANGED status
  BY DEF Acquire, At, Continue
<1>2. RunInv /\ BlocksInv /\ SetupInv /\ Head(todo) = todo[1]
  BY <1>1, RunHead DEF Inv, RunInv
<1>3. UNCHANGED <<heap, live, args, setup, desired, recorded, queue, err>>
  BY DEF Acquire, objects, device
<1>4. \E calls : Good(calls) /\ Continue(calls)
  <2> DEFINE d == Head(todo)[2]
  <2>1. \/ \E i : Continue(DrawImage(ColorImage(chain, i), d))
        \/ Continue(demo_resize \o demo_draw(d + 1) \o <<destroy(Semaphore(d))>>)
    BY DEF Acquire
  <2> HIDE DEF d
  <2>2. \A i : Good(DrawImage(ColorImage(chain, i), d))
    BY GoodDraw
  <2>3. Good(demo_draw(d + 1)) /\ Good(<<destroy(Semaphore(d))>>)
    BY GoodDraw
  <2>4. Good(demo_resize \o demo_draw(d + 1) \o <<destroy(Semaphore(d))>>)
    BY ONLY <2>3, GoodResize, GoodConcat
  <2> QED BY ONLY <2>1, <2>2, <2>4
<1>5. SetupInv'
  BY ONLY <1>2, <1>3 DEF SetupInv
<1>6. RunInv'
  <2>1. todo[1][1] \notin Ends \cup {"destroy", "free_setup", "idle", "present"} /\ todo[1][1] \in Frames
    BY ONLY <1>1, <1>2 DEF Ends, Frames
  <2> QED BY ONLY <1>1, <1>3, <1>4, <1>5, <2>1, QuietStep, Inv
<1>7. BlocksInv'
  BY ONLY <1>2, <1>3, SameBlocks
<1> QED BY ONLY <1>3, <1>6, <1>7 DEF Inv
-----------------------------------------------------------------------------
(* Submissions, and waiting for them. *)
Untouched ==
    /\ (live \ live') \cap Pending # {} => err = "out_of_date"
    /\ Len(queue') > Len(queue) =>
          {o \in Last(queue').uses \cap Pending : o[1] = "command_buffer"} = {}

LEMMA Advance ==
    ASSUME Inv, status = "running", Continue(<<>>),
           todo[1][1] \notin Ends \cup {"destroy", "free_setup"}
    PROVE  /\ Closed(todo') /\ HeadInv'
           /\ todo[1][1] \in {"submit_setup", "present"} => todo'[1][1] = "idle"
           /\ todo[1][1] = "draw" => todo'[1][1] = "present"
           /\ Waits(todo) /\ todo[1][1] # "idle" => Waits(todo')
<1>1. Good(<<>>) /\ Calm(<<>>)
  BY PlainTuples, PlainGood
<1>2. Closed(todo) /\ todo' = <<>> \o Tail(todo)
  BY RunHead DEF RunInv, Continue
<1>3. /\ Closed(todo') /\ Free(todo'[1]) /\ todo'[1] = todo[2]
      /\ Waits(todo) /\ todo[1][1] # "idle" => Waits(todo')
  BY ONLY <1>1, <1>2, NextCalls, todo[1][1] \notin Ends \cup {"destroy", "free_setup"}
<1>4. HeadInv'
  BY ONLY <1>3 DEF HeadInv, Free
<1>5. /\ todo[1][1] \in {"submit_setup", "present"} => todo[2][1] = "idle"
      /\ todo[1][1] = "draw" => todo[2][1] = "present"
  BY ONLY <1>2, ClosedTail
<1> QED BY ONLY <1>3, <1>4, <1>5

LEMMA SubmitKeeps ==
    ASSUME Inv, SubmitSetup
    PROVE  Inv' /\ Untouched
<1>1. status = "running" /\ Head(todo)[1] = "submit_setup" /\ Continue(<<>>) /\ UNCHANGED status
  BY DEF SubmitSetup, At, Continue
<1>2. /\ RunInv /\ BlocksInv /\ SetupInv /\ QueueInv /\ ErrInv /\ Head(todo) = todo[1]
      /\ todo[1][1] # "idle" => \A s \in Range(queue) : SetupCmd \notin s.uses
  BY <1>1, RunHead DEF Inv, RunInv
<1>3. UNCHANGED <<heap, live, args, setup, desired, err>>
  BY DEF SubmitSetup, objects
<1>4. todo[1][1] = "submit_setup" /\ todo[1][1] \notin Ends \cup {"destroy", "free_setup"}
  BY ONLY <1>1, <1>2 DEF Ends
<1>5. Closed(todo') /\ HeadInv' /\ todo'[1][1] = "idle" /\ (Waits(todo) => Waits(todo'))
  BY ONLY <1>1, <1>4, Advance, Inv
<1> DEFINE sub == Submission({SetupCmd} \cup {b[1] : b \in Range(recorded)}, recorded, {}, {})
<1>6. /\ queue' = Append(queue, sub) /\ recorded' = <<>>
      /\ sub.uses = {SetupCmd} \cup {b[1] : b \in Range(recorded)}
  BY DEF SubmitSetup, Submission
<1> HIDE DEF sub
<1>7. /\ Sequence(queue') /\ Last(queue') = sub /\ Range(queue') = Range(queue) \cup {sub}
  BY ONLY <1>2, <1>6, AppendSequence DEF QueueInv
<1>8. QueueInv'
  BY ONLY <1>5, <1>7 DEF QueueInv
<1>9. SetupInv'
  <2>1. <<>> \in Seq({}) /\ Range(<<>>) = {}
    BY DEF Range
  <2>2. Sequence(<<>>)
    BY ONLY <2>1, SequenceOf
  <2> QED BY ONLY <1>2, <1>3, <1>6, <2>1, <2>2 DEF SetupInv
<1>10. ErrInv' /\ BlocksInv'
  BY ONLY <1>2, <1>3, <1>5, SameBlocks DEF ErrInv
<1>11. Untouched
  <2>1. \A o \in Pending : o # SetupCmd
    BY ONLY <1>2, <1>4 DEF Pending
  <2>2. \A o \in sub.uses : o[1] = "command_buffer" => o = SetupCmd
    BY ONLY <1>2, <1>6 DEF SetupInv
  <2> QED BY ONLY <1>3, <1>7, <2>1, <2>2 DEF Untouched
<1> QED BY ONLY <1>1, <1>5, <1>8, <1>9, <1>10, <1>11 DEF Inv, RunInv

LEMMA DrawKeeps ==
    ASSUME Inv, Draw
    PROVE  Inv' /\ Untouched
<1>1. status = "running" /\ Head(todo)[1] = "draw" /\ Continue(<<>>) /\ UNCHANGED status
  BY DEF Draw, At, Continue
<1>2. /\ RunInv /\ BlocksInv /\ SetupInv /\ ErrInv /\ Head(todo) = todo[1]
      /\ todo[1][1] \in Frames \ {"present"} => queue = <<>>
  BY <1>1, RunHead DEF Inv, RunInv
<1>3. UNCHANGED <<heap, live, args, setup, desired, recorded, err>>
  BY DEF Draw, objects, client
<1>4. todo[1][1] = "draw" /\ todo[1][1] \notin Ends \cup {"destroy", "free_setup"} /\ queue = <<>>
  BY ONLY <1>1, <1>2 DEF Ends, Frames
<1>5. Closed(todo') /\ HeadInv' /\ todo'[1][1] = "present" /\ (Waits(todo) => Waits(todo'))
  BY ONLY <1>1, <1>4, Advance, Inv
<1> DEFINE sub == demo_draw_build_cmd(current)
<1>6. queue' = Append(queue, sub)
  BY DEF Draw
<1>7. SetupCmd \notin sub.uses
  <2>1. /\ SetupCmd # DrawCmd /\ SetupCmd # DescSet /\ SetupCmd # DescPool /\ SetupCmd # CmdPool
        /\ \A i : SetupCmd # Framebuffer(i) /\ SetupCmd # ColorView(i) /\ SetupCmd # Swapchain(i)
        /\ \A c, i : SetupCmd # ColorImage(c, i)
        /\ SetupCmd[1] = "command_buffer" /\ SetupCmd[2] = "setup"
    BY DEF SetupCmd, DrawCmd, DescSet, DescPool, CmdPool, Framebuffer, ColorView, Swapchain, ColorImage, Obj
  <2>2. sub.uses = {DrawCmd, DescSet, DescPool, CmdPool, Framebuffer(current), ColorView(current),
                    ColorImage(chain, current), Swapchain(chain)}
                \cup {o \in live : o[1] \in {"pipeline", "pipeline_layout", "render_pass", "buffer", "sampler"}
                                    \/ o[2] \in {"depth", "texture", "vertices"}}
    BY DEF demo_draw_build_cmd, Submission
  <2> HIDE DEF sub
  <2> QED BY ONLY <2>1, <2>2
<1> HIDE DEF sub
<1>8. Sequence(queue') /\ Range(queue') = {sub} /\ Range(queue) = {}
  <2>1. Range(<<>>) = {}
    BY DEF Range
  <2>2. Sequence(queue)
    BY ONLY <1>2 DEF RunInv, QueueInv
  <2>3. Sequence(queue') /\ Range(queue') = Range(queue) \cup {sub}
    BY ONLY <1>6, <2>2, AppendSequence
  <2>4. Range(queue) = {}
    BY ONLY <1>4, <2>1
  <2> QED BY ONLY <2>3, <2>4
<1>9. QueueInv'
  BY ONLY <1>5, <1>7, <1>8 DEF QueueInv
<1>10. SetupInv' /\ ErrInv' /\ BlocksInv'
  BY ONLY <1>2, <1>3, <1>5, SameBlocks DEF ErrInv, SetupInv
<1>11. Untouched
  BY ONLY <1>3, <1>8 DEF Untouched, Pending
<1> QED BY ONLY <1>1, <1>5, <1>9, <1>10, <1>11 DEF Inv, RunInv

LEMMA PresentKeeps ==
    ASSUME Inv, Present
    PROVE  Inv' /\ Untouched
<1>1. status = "running" /\ Head(todo)[1] = "present" /\ UNCHANGED status
  BY DEF Present, At, Continue
<1>2. /\ RunInv /\ BlocksInv /\ SetupInv /\ QueueInv /\ ErrInv /\ Head(todo) = todo[1] /\ Closed(todo)
      /\ todo[1][1] # "idle" => \A s \in Range(queue) : SetupCmd \notin s.uses
      /\ err = "out_of_date" => todo[1][1] \notin Frames
  BY <1>1, RunHead DEF Inv, RunInv
<1>3. UNCHANGED <<heap, live, args, setup, desired, recorded>>
  BY DEF Present, objects
<1>4. /\ todo[1][1] = "present" /\ todo[1][1] \notin Ends \cup {"destroy", "free_setup"}
      /\ err # "out_of_date" /\ \A s \in Range(queue) : SetupCmd \notin s.uses
  BY ONLY <1>1, <1>2 DEF Ends, Frames
<1>5. SetupInv' /\ BlocksInv'
  BY ONLY <1>2, <1>3, SameBlocks DEF SetupInv
<1> DEFINE image == ColorImage(chain, current)
           sub == Submission({Swapchain(chain), image}, <<<<image, "present_src", "present_src">>>>, {}, {image})
<1>6. CASE queue' = Append(queue, sub) /\ Continue(<<>>) /\ UNCHANGED err
  <2>1. Closed(todo') /\ HeadInv' /\ todo'[1][1] = "idle"
    BY ONLY <1>1, <1>4, <1>6, Advance, Inv
  <2>2. \A o \in sub.uses : o[1] # "command_buffer"
    <3>1. Swapchain(chain)[1] = "swapchain" /\ image[1] = "image"
      BY DEF Swapchain, ColorImage
    <3> HIDE DEF image
    <3>2. sub.uses = {Swapchain(chain), image}
      BY DEF Submission
    <3> QED BY ONLY <3>1, <3>2
  <2> HIDE DEF sub
  <2>3. /\ Sequence(queue') /\ Last(queue') = sub
    BY ONLY <1>2, <1>6, AppendSequence DEF QueueInv
  <2>4. QueueInv' /\ ErrInv'
    BY ONLY <1>4, <1>6, <2>1, <2>3 DEF QueueInv, ErrInv
  <2>5. Untouched
    BY ONLY <1>3, <2>2, <2>3 DEF Untouched
  <2> QED BY ONLY <1>1, <1>5, <2>1, <2>4, <2>5 DEF Inv, RunInv
<1>7. CASE err' = "out_of_date" /\ Continue(demo_resize) /\ UNCHANGED queue
  <2>1. Good(demo_resize) /\ Calm(demo_resize)
    BY GoodResize
  <2>2. todo' = demo_resize \o Tail(todo)
    BY ONLY <1>7 DEF Continue
  <2>3. Closed(todo') /\ Free(todo'[1])
    BY ONLY <1>2, <1>4, <2>1, <2>2, NextCalls
  <2>4. HeadInv'
    BY ONLY <2>3 DEF HeadInv, Free
  <2>5. Waits(todo')
    <3>1. /\ Closed(Tail(todo)) /\ Tail(todo)[1][1] = "idle" /\ Sequence(Tail(todo)) /\ Tail(todo) # <<>>
      BY ONLY <1>2, <1>4, ClosedTail
    <3>2. Sequence(demo_resize)
      BY ONLY <2>1 DEF Good, Obeys
    <3> QED BY ONLY <2>1, <2>2, <3>1, <3>2, WaitsBehind
  <2>6. QueueInv' /\ ErrInv'
    BY ONLY <1>2, <1>4, <1>7, <2>5 DEF QueueInv, ErrInv
  <2>7. Untouched
    <3>1. Len(queue') = Len(queue) /\ live \ live' = {} /\ Len(queue) \in Nat
      BY ONLY <1>2, <1>3, <1>7, SequenceType DEF QueueInv
    <3>2. ~(Len(queue') > Len(queue))
      BY ONLY <3>1
    <3> QED BY ONLY <3>1, <3>2 DEF Untouched
  <2> QED BY ONLY <1>1, <1>5, <2>3, <2>4, <2>6, <2>7 DEF Inv, RunInv
<1>8. \/ queue' = Append(queue, sub) /\ Continue(<<>>) /\ UNCHANGED err
      \/ err' = "out_of_date" /\ Continue(demo_resize) /\ UNCHANGED queue
  BY DEF Present
<1> QED BY ONLY <1>6, <1>7, <1>8

LEMMA IdleKeeps ==
    ASSUME Inv, Idle
    PROVE  Inv' /\ live' = live /\ queue' = queue
<1>1. status = "running" /\ Head(todo)[1] = "idle" /\ UNCHANGED status /\ Continue(<<>>)
  BY DEF Idle, At, Continue
<1>2. RunInv /\ BlocksInv /\ SetupInv /\ QueueInv /\ Head(todo) = todo[1]
  BY <1>1, RunHead DEF Inv, RunInv
<1>3. UNCHANGED <<heap, live, args, setup, desired, recorded, queue>> /\ queue = <<>> /\ err' = "success"
  BY DEF Idle, objects, device
<1>4. todo[1][1] = "idle" /\ todo[1][1] \notin Ends \cup {"destroy", "free_setup"}
  BY ONLY <1>1, <1>2 DEF Ends
<1>5. Closed(todo') /\ HeadInv'
  BY ONLY <1>1, <1>4, Advance, Inv
<1>6. SetupInv' /\ BlocksInv' /\ ErrInv'
  BY ONLY <1>2, <1>3, SameBlocks DEF SetupInv, ErrInv
<1>7. QueueInv'
  <2>1. Range(<<>>) = {}
    BY DEF Range
  <2> QED BY ONLY <1>2, <1>3, <2>1 DEF QueueInv
<1> QED BY ONLY <1>1, <1>3, <1>5, <1>6, <1>7 DEF Inv, RunInv
-----------------------------------------------------------------------------
(* The loop of demo_run, and the end. *)
LEMMA RunKeeps ==
    ASSUME Inv, Run \/ Return
    PROVE  Inv' /\ live' = live /\ queue' = queue
<1>1. CASE Return
  <2>1. status' = "done" /\ UNCHANGED <<heap, live, args, queue>> /\ BlocksInv
    BY <1>1 DEF Return, End, KeepsAll, objects, client, device, Inv
  <2>2. BlocksInv'
    BY ONLY <2>1, SameBlocks
  <2> QED BY ONLY <2>1, <2>2 DEF Inv
<1>2. CASE Run
  <2>1. status = "running" /\ Head(todo)[1] = "run" /\ UNCHANGED status
    BY <1>2 DEF Run, At, Continue
  <2>2. /\ RunInv /\ BlocksInv /\ SetupInv /\ QueueInv /\ Head(todo) = todo[1] /\ Closed(todo)
        /\ todo[1][1] \in Frames \ {"present"} => queue = <<>>
        /\ err = "out_of_date" => todo[1][1] \notin Frames
    BY <2>1, RunHead DEF Inv, RunInv
  <2>3. UNCHANGED <<heap, live, args, setup, desired, recorded, queue, err>>
    BY <1>2 DEF Run, objects, device
  <2>4. todo[1][1] \in Ends /\ queue = <<>> /\ err # "out_of_date"
    BY ONLY <2>1, <2>2 DEF Ends, Frames
  <2>5. Tail(todo) = <<>>
    BY ONLY <2>2, <2>4, ClosedTail
  <2>6. PICK calls : Closed(calls) /\ Opens(calls) /\ Continue(calls)
    <3>1. Continue(demo_cleanup) \/ Continue(demo_draw(0) \o <<<<"idle">>, <<"run">>>>)
      BY <1>2 DEF Run
    <3> QED BY ONLY <3>1, ClosedCleanup, ClosedTurn
  <2>7. todo' = calls
    <3>1. Sequence(calls) /\ todo' = calls \o <<>>
      BY ONLY <2>5, <2>6 DEF Closed, Obeys, Continue
    <3> QED BY ONLY <3>1, ConcatEmptySeq DEF Sequence
  <2>8. Closed(todo') /\ Free(todo'[1])
    BY ONLY <2>6, <2>7 DEF Opens, Closed
  <2>9. HeadInv'
    BY ONLY <2>8 DEF HeadInv, Free
  <2>10. SetupInv' /\ BlocksInv' /\ ErrInv'
    BY ONLY <2>2, <2>3, <2>4, SameBlocks DEF SetupInv, ErrInv
  <2>11. QueueInv'
    <3>1. Range(<<>>) = {}
      BY DEF Range
    <3> QED BY ONLY <2>2, <2>3, <2>4, <3>1 DEF QueueInv
  <2> QED BY ONLY <2>1, <2>3, <2>8, <2>9, <2>10, <2>11 DEF Inv, RunInv
<1> QED BY <1>1, <1>2

(* Destroying: what goes with the object is gone before its pool. *)
LEMMA DestroyBlocks ==
    ASSUME Inv, Destroy
    PROVE  BlocksInv'
<1>1. status = "running" /\ Head(todo)[1] = "destroy"
  BY DEF Destroy, At
<1>2. BlocksInv /\ HeadInv /\ Head(todo) = todo[1]
  BY <1>1, RunHead DEF Inv, RunInv
<1> DEFINE o == todo[1][2]
<1>3. /\ live' = live \ ({o} \cup Inside(o)) /\ UNCHANGED args
      /\ heap' = heap \ (IF args.driver = "null" THEN Freed(o) ELSE {})
  BY <1>2 DEF Destroy, Drop, client
<1>4. Inside(o) \cap CommandBuffers(live) = {}
  <2>1. \A p \in ImagesOf(o[3]) : p[1] # "command_buffer"
    BY DEF ImagesOf, ColorImage
  <2>2. DescSet[1] # "command_buffer" /\ Obj("gpu", "")[1] # "command_buffer"
    BY DEF DescSet, Obj
  <2>3. o = CmdPool => {SetupCmd, DrawCmd} \cap live = {}
    BY <1>1, <1>2 DEF HeadInv, Destroys
  <2> HIDE DEF o
  <2>4. \/ o = CmdPool /\ Inside(o) = {SetupCmd, DrawCmd}
        \/ Inside(o) = {DescSet} \/ Inside(o) = {Obj("gpu", "")}
        \/ Inside(o) = ImagesOf(o[3]) \/ Inside(o) = {}
    <3>1. /\ CmdPool # DescPool /\ CmdPool # Instance /\ DescPool # Instance
          /\ CmdPool[1] # "swapchain" /\ DescPool[1] # "swapchain" /\ Instance[1] # "swapchain"
      BY DEF CmdPool, DescPool, Instance, Obj
    <3>2. CASE o = CmdPool
      BY ONLY <3>1, <3>2 DEF Inside
    <3>3. CASE o = DescPool
      BY ONLY <3>1, <3>3 DEF Inside
    <3>4. CASE o = Instance
      BY ONLY <3>1, <3>4 DEF Inside
    <3>5. CASE o[1] = "swapchain"
      BY ONLY <3>1, <3>5 DEF Inside
    <3>6. CASE o # CmdPool /\ o # DescPool /\ o # Instance /\ o[1] # "swapchain"
      BY ONLY <3>6 DEF Inside
    <3> QED BY ONLY <3>2, <3>3, <3>4, <3>5, <3>6
  <2> QED BY ONLY <2>1, <2>2, <2>3, <2>4 DEF CommandBuffers
<1> HIDE DEF o
<1>5. CommandBuffers(live') = CommandBuffers(live) \ {o}
  BY ONLY <1>3, <1>4 DEF CommandBuffers
<1>6. ASSUME args.driver = "null" PROVE CommandBlocks(heap') = {<<p, "base">> : p \in CommandBuffers(live')}
  <2>1. CommandBlocks(heap) = {<<p, "base">> : p \in CommandBuffers(live)}
    BY ONLY <1>2, <1>6 DEF BlocksInv
  <2>2. CASE o[1] = "command_buffer"
    <3>1. heap' = heap \ {<<o, "base">>}
      BY ONLY <1>3, <1>6, <2>2 DEF Freed, free_command_buffers
    <3>2. CommandBlocks(heap') = CommandBlocks(heap) \ {<<o, "base">>}
      BY ONLY <3>1 DEF CommandBlocks
    <3>3. \A p, q : <<p, "base">> = <<q, "base">> => p = q
      OBVIOUS
    <3> QED BY ONLY <1>5, <2>1, <3>2, <3>3
  <2>3. CASE o[1] # "command_buffer"
    <3>1. heap' = heap
      BY ONLY <1>3, <1>6, <2>3 DEF Freed
    <3>2. CommandBuffers(live') = CommandBuffers(live)
      BY ONLY <1>5, <2>3 DEF CommandBuffers
    <3> QED BY ONLY <2>1, <3>1, <3>2
  <2> QED BY ONLY <2>2, <2>3
<1> QED BY ONLY <1>3, <1>6 DEF BlocksInv

LEMMA DestroyKeeps ==
    ASSUME Inv, Destroy
    PROVE  Inv' /\ Untouched
<1>1. status = "running" /\ Head(todo)[1] = "destroy" /\ Continue(<<>>) /\ UNCHANGED status
  BY DEF Destroy, At, Continue
<1>2. /\ RunInv /\ HeadInv /\ SetupInv /\ QueueInv /\ ErrInv /\ Head(todo) = todo[1] /\ Closed(todo)
      /\ todo[1][1] # "idle" => \A s \in Range(queue) : SetupCmd \notin s.uses
  BY <1>1, RunHead DEF RunInv
<1> DEFINE o == todo[1][2]
<1>3. /\ o \notin live' /\ live' \subseteq live
      /\ UNCHANGED <<queue, setup, desired, recorded, err>>
  BY <1>2 DEF Destroy, Drop, client
<1> HIDE DEF o
<1>4. todo[1][1] = "destroy" /\ todo[1][1] \notin Ends
  BY ONLY <1>1, <1>2 DEF Ends
<1>5. /\ Closed(Tail(todo)) /\ Tail(todo)[1] = todo[2] /\ Linkable(todo[1], todo[2])
      /\ Sequence(Tail(todo)) /\ Sequence(todo)
  BY ONLY <1>2, <1>4, ClosedTail
<1>6. Good(<<>>) /\ Calm(<<>>) /\ Sequence(<<>>)
  BY PlainTuples, PlainGood DEF Plain
<1>7. todo' = Tail(todo) /\ todo' = <<>> \o Tail(todo)
  <2>1. todo' = <<>> \o Tail(todo)
    BY ONLY <1>1 DEF Continue
  <2> QED BY ONLY <1>5, <2>1, ConcatEmptySeq DEF Sequence
<1>8. HeadInv'
  <2>1. todo'[1] = todo[2]
    BY ONLY <1>5, <1>7
  <2>2. /\ todo[2][1] # "connect"
        /\ todo[2][1] = "setup_null" => o = SetupCmd
        /\ Destroys(todo[2], CmdPool) => o = DrawCmd
        /\ Destroys(todo[2], DrawCmd) => o = SetupCmd
    BY ONLY <1>4, <1>5 DEF Linkable, Destroys, o
  <2>3. o = DrawCmd => SetupCmd \notin live
    BY ONLY <1>2, <1>4 DEF HeadInv, Destroys, o
  <2> QED BY ONLY <1>3, <2>1, <2>2, <2>3 DEF HeadInv
<1>9. ErrInv'
  <2>1. todo # <<>> /\ todo[1][1] # "idle"
    BY ONLY <1>2, <1>4 DEF Closed
  <2>2. Waits(todo) => Waits(todo')
    BY ONLY <1>5, <1>6, <1>7, <2>1, WaitsStep
  <2> QED BY ONLY <1>2, <1>3, <2>2 DEF ErrInv
<1>10. SetupInv' /\ QueueInv'
  BY ONLY <1>2, <1>3, <1>4 DEF SetupInv, QueueInv
<1>11. BlocksInv'
  BY DestroyBlocks
<1>12. Untouched
  <2>1. Len(queue) \in Nat
    BY ONLY <1>2, SequenceType DEF QueueInv
  <2>2. ~(Len(queue') > Len(queue))
    BY ONLY <1>3, <2>1
  <2>3. queue # <<>> => err = "out_of_date"
    BY ONLY <1>2, <1>4 DEF QueueInv
  <2>4. queue = <<>> => Pending = {}
    BY DEF Pending, Range
  <2> QED BY ONLY <2>2, <2>3, <2>4 DEF Untouched
<1> QED BY ONLY <1>1, <1>5, <1>7, <1>8, <1>9, <1>10, <1>11, <1>12 DEF Inv, RunInv

(* "if (demo->setup_cmd)": the set-up commands are freed if there are any. *)
LEMMA FreeSetupKeeps ==
    ASSUME Inv, FreeSetup
    PROVE  Inv' /\ live' = live /\ queue' = queue
<1>1. status = "running" /\ Head(todo)[1] = "free_setup" /\ UNCHANGED status
  BY DEF FreeSetup, At, Continue
<1>2. /\ RunInv /\ BlocksInv /\ SetupInv /\ QueueInv /\ ErrInv /\ Head(todo) = todo[1] /\ Closed(todo)
  BY <1>1, RunHead DEF Inv, RunInv
<1>3. /\ UNCHANGED <<heap, live, args, setup, desired, queue, err>> /\ recorded' = <<>>
      /\ \/ setup = "null" /\ Continue(<<>>)
         \/ setup # "null" /\ Continue(<<destroy(SetupCmd)>>)
  BY DEF FreeSetup, objects, device
<1>4. todo[1][1] = "free_setup" /\ todo[1][1] \notin Ends /\ todo # <<>>
  BY ONLY <1>1, <1>2 DEF Ends, Closed
<1> DEFINE t == Tail(todo)
           d == destroy(SetupCmd)
<1>5. /\ Closed(t) /\ t[1] = todo[2] /\ Linkable(todo[1], todo[2])
      /\ Sequence(t) /\ Sequence(todo)
  BY ONLY <1>2, <1>4, ClosedTail
<1>6. /\ todo[2][1] \notin {"connect", "setup_null"} /\ ~Destroys(todo[2], CmdPool)
  BY ONLY <1>4, <1>5 DEF Linkable, Destroys
<1>7. SetupInv' /\ BlocksInv'
  <2>1. <<>> \in Seq({}) /\ Range(<<>>) = {}
    BY DEF Range
  <2>2. Sequence(<<>>)
    BY ONLY <2>1, SequenceOf
  <2> QED BY ONLY <1>2, <1>3, <2>1, <2>2, SameBlocks DEF SetupInv
<1>8. ASSUME NEW calls, Plain(calls), Continue(calls) PROVE QueueInv' /\ ErrInv'
  <2>1. Sequence(calls) /\ Calm(calls) /\ todo' = calls \o Tail(todo)
    BY <1>8, PlainGood DEF Plain, Continue
  <2>2. Waits(todo) => Waits(todo')
    BY ONLY <1>4, <1>5, <2>1, WaitsStep
  <2> QED BY ONLY <1>2, <1>3, <1>4, <2>2 DEF QueueInv, ErrInv
<1>9. Plain(<<>>) /\ Plain(<<d>>)
  BY PlainTuples, PlainDestroys
<1>10. CASE setup = "null" /\ Continue(<<>>)
  <2>1. todo' = t
    <3>1. todo' = <<>> \o t
      BY ONLY <1>10 DEF Continue
    <3> QED BY ONLY <1>5, <3>1, ConcatEmptySeq DEF Sequence
  <2>2. SetupCmd \notin live
    BY ONLY <1>2, <1>10 DEF SetupInv
  <2>3. HeadInv'
    BY ONLY <1>3, <1>5, <1>6, <2>1, <2>2 DEF HeadInv
  <2>4. QueueInv' /\ ErrInv'
    BY ONLY <1>8, <1>9, <1>10
  <2> QED BY ONLY <1>1, <1>3, <1>5, <1>7, <2>1, <2>3, <2>4 DEF Inv, RunInv
<1>11. CASE setup # "null" /\ Continue(<<d>>)
  <2>1. Good(<<d>>)
    BY ONLY <1>9, PlainGood
  <2>2. todo' = <<d>> \o t
    BY ONLY <1>11 DEF Continue
  <2>3. <<d>> # <<>> /\ Len(<<d>>) = 1 /\ <<d>>[1] = d /\ 1 \in 1..1
    OBVIOUS
  <2>4. d[1] = "destroy" /\ Destroys(d, SetupCmd) /\ ~Destroys(d, CmdPool) /\ ~Destroys(d, DrawCmd)
    <3>1. SetupCmd # CmdPool /\ SetupCmd # DrawCmd
      BY DEF DrawCmd, SetupCmd, CmdPool, Obj
    <3> QED BY <3>1 DEF destroy, Destroys
  <2> HIDE DEF d, t
  <2>5. Linkable(d, t[1])
    BY ONLY <1>5, <1>6, <2>4 DEF Linkable
  <2>6. Sequence(<<d>>) /\ Obeys(<<d>>) /\ Endless(<<d>>) /\ Obeys(t)
    BY ONLY <1>5, <2>1 DEF Good, Obeys, Closed
  <2>7. Obeys(<<d>> \o t)
    BY ONLY <2>3, <2>5, <2>6, ObeysConcat
  <2>8. Closed(<<d>> \o t) /\ (<<d>> \o t)[1] = d
    BY ONLY <1>5, <2>3, <2>6, <2>7, ClosedBehind
  <2>9. HeadInv'
    BY ONLY <2>2, <2>4, <2>8 DEF HeadInv
  <2>10. QueueInv' /\ ErrInv'
    BY ONLY <1>8, <1>9, <1>11
  <2> QED BY ONLY <1>1, <1>3, <1>7, <2>2, <2>8, <2>9, <2>10 DEF Inv, RunInv
<1> QED BY ONLY <1>3, <1>10, <1>11 DEF d

(* The device, the presentation engine and the window system. *)
LEMMA OthersKeep ==
    ASSUME Inv, Complete \/ Release \/ WindowResized
    PROVE  Inv' /\ Untouched
<1>1. /\ status = "running" /\ UNCHANGED <<status, todo, heap, live, args, setup, desired, recorded, err>>
  BY DEF Complete, Release, WindowResized, objects, client
<1>2. RunInv /\ HeadInv /\ SetupInv /\ QueueInv /\ ErrInv /\ BlocksInv /\ Closed(todo)
  BY <1>1 DEF Inv, RunInv
<1>3. \/ queue # <<>> /\ queue' = Tail(queue)
      \/ queue' = queue
  BY DEF Complete, Release, WindowResized, device
<1>4. /\ Sequence(queue') /\ ~(Len(queue') > Len(queue)) /\ Range(queue') \subseteq Range(queue)
      /\ queue' # <<>> => queue # <<>>
  <2>1. Sequence(queue)
    BY ONLY <1>2 DEF QueueInv
  <2>2. Len(queue) \in Nat
    BY ONLY <2>1, SequenceType
  <2>3. CASE queue' = queue
    BY ONLY <2>1, <2>2, <2>3
  <2>4. CASE queue # <<>> /\ queue' = Tail(queue)
    <3>1. /\ Sequence(Tail(queue)) /\ Len(Tail(queue)) = Len(queue) - 1
          /\ \A i \in 1..Len(queue) - 1 : Tail(queue)[i] = queue[i + 1]
      BY ONLY <2>1, <2>4, TailSequence
    <3>2. Range(queue) = {queue[i] : i \in 1..Len(queue)}
      BY ONLY <2>1, SequenceType
    <3>3. Range(Tail(queue)) = {Tail(queue)[i] : i \in 1..Len(queue) - 1}
      BY ONLY <3>1, SequenceType
    <3>4. \A i \in 1..Len(queue) - 1 : i + 1 \in 1..Len(queue)
      BY ONLY <2>2
    <3>5. Range(Tail(queue)) \subseteq Range(queue)
      BY ONLY <3>1, <3>2, <3>3, <3>4
    <3>6. ~(Len(Tail(queue)) > Len(queue))
      BY ONLY <2>2, <3>1
    <3> QED BY ONLY <2>4, <3>1, <3>5, <3>6
  <2> QED BY ONLY <1>3, <2>3, <2>4
<1>5. QueueInv'
  BY ONLY <1>1, <1>2, <1>4 DEF QueueInv
<1>6. HeadInv' /\ SetupInv' /\ ErrInv' /\ Closed(todo')
  BY ONLY <1>1, <1>2 DEF HeadInv, SetupInv, ErrInv
<1>7. BlocksInv'
  BY ONLY <1>1, <1>2, SameBlocks
<1>8. Untouched
  BY ONLY <1>1, <1>4 DEF Untouched
<1> QED BY ONLY <1>1, <1>5, <1>6, <1>7, <1>8 DEF Inv, RunInv

LEMMA InitInv == Init => Inv
<1> SUFFICES ASSUME Init PROVE Inv
  OBVIOUS
<1>1. /\ live = {} /\ heap = {} /\ todo = main /\ setup = "null" /\ desired = 0
      /\ recorded = <<>> /\ queue = <<>> /\ err = "success"
  BY DEF Init
<1>2. Sequence(<<>>) /\ Range(<<>>) = {}
  BY PlainTuples DEF Plain, Range
<1>3. Closed(todo) /\ todo[1][1] = "connect"
  BY ONLY <1>1, ClosedMain
<1>4. HeadInv
  BY ONLY <1>1, <1>3 DEF HeadInv
<1>5. SetupInv /\ QueueInv /\ ErrInv
  BY ONLY <1>1, <1>2 DEF SetupInv, QueueInv, ErrInv
<1>6. BlocksInv
  BY ONLY <1>1 DEF BlocksInv, CommandBlocks, CommandBuffers
<1> QED BY ONLY <1>3, <1>4, <1>5, <1>6 DEF Inv, RunInv

(* A step that submits nothing and destroys nothing. *)
LEMMA NothingTouched ==
    ASSUME Inv, status = "running", UNCHANGED queue, live \ live' = {}
    PROVE  Untouched
<1>1. Len(queue) \in Nat
  BY SequenceType DEF Inv, RunInv, QueueInv
<1>2. ~(Len(queue') > Len(queue))
  BY ONLY <1>1, UNCHANGED queue
<1> QED BY ONLY <1>2, live \ live' = {} DEF Untouched

LEMMA NextInv ==
    ASSUME Inv, Next
    PROVE  Inv' /\ Untouched
<1>1. CASE Complete \/ Release \/ WindowResized
  BY <1>1, OthersKeep
<1>2. CASE SubmitSetup \/ Draw \/ Present \/ Destroy
  BY <1>2, SubmitKeeps, DrawKeeps, PresentKeeps, DestroyKeeps
<1>3. CASE \/ demo_create_window \/ InstanceExtensions \/ DeviceLayers \/ DeviceExtensions
           \/ DebugCallback \/ ChooseQueue \/ SurfaceFormats
           \/ DestroyOldSwapchain \/ ColorViews \/ Framebuffers \/ Texture \/ Flush
  <2>1. status = "running"
    BY <1>3 DEF demo_create_window, InstanceExtensions, DeviceLayers, DeviceExtensions, DebugCallback,
       ChooseQueue, SurfaceFormats, DestroyOldSwapchain, ColorViews, Framebuffers, Texture, Flush, At
  <2>2. Goes
    BY ONLY <1>3, StartGoes, ImagesGoes
  <2>3. UNCHANGED <<live, queue>>
    BY ONLY <2>2 DEF Goes, KeepsAll, objects, device
  <2>4. live \ live' = {}
    BY ONLY <2>3
  <2> QED BY ONLY <2>1, <2>2, <2>3, <2>4, GoesKeeps, NothingTouched, Inv
<1>4. CASE \/ demo_init_connection \/ InstanceLayers \/ Capabilities \/ UpdateDescriptorSets \/ Prepared
           \/ Create \/ AllocateMemory \/ CreateSwapchain \/ Record \/ SetupNull \/ Acquire
  <2>1. status = "running"
    BY <1>4 DEF demo_init_connection, InstanceLayers, Capabilities, UpdateDescriptorSets, Prepared,
       Create, AllocateMemory, CreateSwapchain, Record, SetupNull, Acquire, At
  <2>2. UNCHANGED queue
    BY <1>4 DEF demo_init_connection, InstanceLayers, Capabilities, UpdateDescriptorSets, Prepared,
       Create, AllocateMemory, CreateSwapchain, CreateOr, KeepsAll, Record, SetupNull, Acquire, device
  <2>3. Inv' /\ live \ live' = {}
    <3>1. live' = live => live \ live' = {}
      OBVIOUS
    <3> QED BY ONLY <1>4, <3>1, Inv, ConnectKeeps, LayersKeeps, CreateKeeps, RecordKeeps, SetupNullKeeps,
            AcquireKeeps
  <2> QED BY ONLY <2>1, <2>2, <2>3, NothingTouched, Inv
<1>5. CASE Idle \/ Run \/ Return \/ FreeSetup \/ AssertFails
  <2>1. status = "running"
    BY <1>5 DEF Idle, Run, Return, FreeSetup, AssertFails, At
  <2>2. Inv' /\ live' = live /\ queue' = queue
    BY ONLY <1>5, Inv, IdleKeeps, RunKeeps, FreeSetupKeeps, FailureKeeps
  <2>3. live \ live' = {}
    BY ONLY <2>2
  <2> QED BY ONLY <2>1, <2>2, <2>3, NothingTouched, Inv
<1> QED BY <1>1, <1>2, <1>3, <1>4, <1>5 DEF Next, Program

LEMMA StepInv == Inv /\ [Next]_vars => Inv'
<1> SUFFICES ASSUME Inv, [Next]_vars PROVE Inv'
  OBVIOUS
<1>1. CASE Next
  BY <1>1, NextInv
<1>2. CASE UNCHANGED vars
  <2>1. UNCHANGED <<status, todo, live, heap, args, setup, desired, recorded, queue, err>>
    BY <1>2 DEF vars, objects, client, device
  <2> QED BY ONLY <2>1, Inv DEF Inv, RunInv, BlocksInv, HeadInv, SetupInv, QueueInv, ErrInv
<1> QED BY <1>1, <1>2

THEOREM Invariant == Spec => []Inv
BY InitInv, StepInv, PTL DEF Spec

(* The command buffers the null driver still holds are those the program   *)
(* has: each one is freed, and none is freed twice or with its pool.       *)
THEOREM CommandBuffersFreedCorrect == Spec => []CommandBuffersFreed
<1>1. Inv => CommandBuffersFreed
  <2> SUFFICES ASSUME Inv, args.driver = "null"
               PROVE  {b[1] : b \in CommandBlocks(heap)} = CommandBuffers(live)
    BY DEF CommandBuffersFreed, CommandBlocks, CommandBuffers
  <2>1. CommandBlocks(heap) = {<<o, "base">> : o \in CommandBuffers(live)}
    BY DEF Inv, BlocksInv
  <2> DEFINE S == CommandBuffers(live)
             B == CommandBlocks(heap)
  <2> HIDE DEF S, B
  <2>2. \A o : <<o, "base">>[1] = o
    OBVIOUS
  <2>3. ASSUME NEW b \in B PROVE b[1] \in S
    BY <2>1, <2>2 DEF S, B
  <2>4. ASSUME NEW o \in S PROVE \E b \in B : b[1] = o
    <3>1. <<o, "base">> \in B
      BY <2>1 DEF S, B
    <3> QED BY ONLY <2>2, <3>1
  <2> QED BY ONLY <2>3, <2>4 DEF S, B
<1> QED BY <1>1, Invariant, PTL

(* What the device still uses is neither destroyed nor submitted again,    *)
(* but for the resize that follows a present out of date.                  *)
THEOREM PendingUntouchedCorrect == Spec => PendingUntouched
<1>1. ASSUME Inv, [Next]_vars
      PROVE  [/\ (live \ live') \cap Pending # {} => err = "out_of_date"
              /\ Len(queue') > Len(queue) =>
                     {o \in Last(queue').uses \cap Pending : o[1] = "command_buffer"} = {}]_vars
  <2>1. CASE Next
    <3>1. Untouched
      BY <1>1, <2>1, NextInv
    <3> QED BY ONLY <3>1 DEF Untouched
  <2>2. CASE UNCHANGED vars
    BY <2>2
  <2> QED BY <1>1, <2>1, <2>2
<1> QED BY <1>1, Invariant, PTL DEF Spec, PendingUntouched
=============================================================================
