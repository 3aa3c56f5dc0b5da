------------------------ MODULE ListenerBufferProofs ------------------------
(***************************************************************************)
(* Proofs about ListenerBuffer, for every buffer size and every call: an   *)
(* iteration of a process function never overruns the buffer, and what it  *)
(* flushes, keeps and leaves is what was there before it.                  *)
(***************************************************************************)
EXTENDS ListenerBuffer, TLAPS

\* Sequences, in the form the provers use them.
LEMMA SeqFacts ==
  ASSUME NEW S, NEW s \in Seq(S)
  PROVE  Len(s) \in Nat /\ DOMAIN s = 1..Len(s) /\ \A k \in 1..Len(s) : s[k] \in S
OBVIOUS

LEMMA EmptyFacts ==
  ASSUME NEW S
  PROVE  << >> \in Seq(S) /\ Len(<< >>) = 0
OBVIOUS

LEMMA SeqEqual ==
  ASSUME NEW S, NEW s \in Seq(S), NEW t \in Seq(S), Len(s) = Len(t),
         \A k \in 1..Len(s) : s[k] = t[k]
  PROVE  s = t
OBVIOUS

LEMMA CatFacts ==
  ASSUME NEW S, NEW s \in Seq(S), NEW t \in Seq(S)
  PROVE  /\ s \o t \in Seq(S) /\ Len(s \o t) = Len(s) + Len(t)
         /\ \A k \in 1..Len(s) : (s \o t)[k] = s[k]
         /\ \A k \in (Len(s) + 1)..(Len(s) + Len(t)) : (s \o t)[k] = t[k - Len(s)]
OBVIOUS

LEMMA SubFacts ==
  ASSUME NEW S, NEW s \in Seq(S), NEW m \in 1..(Len(s) + 1), NEW n \in (m - 1)..Len(s)
  PROVE  /\ SubSeq(s, m, n) \in Seq(S) /\ Len(SubSeq(s, m, n)) = n - m + 1
         /\ \A k \in 1..(n - m + 1) : SubSeq(s, m, n)[k] = s[m + k - 1]
OBVIOUS

\* Concatenation, with its definition hidden: the provers then use the laws
\* below, and nothing else.
Cat(s, t) == s \o t

\* Types and lengths add up.
LEMMA CatType ==
  ASSUME NEW B
  PROVE  \A s, t \in Seq(B) : Cat(s, t) \in Seq(B) /\ Len(Cat(s, t)) = Len(s) + Len(t)
BY CatFacts, Zenon DEF Cat

\* The empty sequence is neutral.
LEMMA CatEmpty ==
  ASSUME NEW B
  PROVE  /\ << >> \in Seq(B) /\ Len(<< >>) = 0
         /\ \A s \in Seq(B) : Cat(s, << >>) = s /\ Cat(<< >>, s) = s
BY DEF Cat

\* Concatenation is associative.
LEMMA CatAssoc ==
  ASSUME NEW B
  PROVE  \A s, t, u \in Seq(B) : Cat(Cat(s, t), u) = Cat(s, Cat(t, u))
BY SMTT(60) DEF Cat

\* A sequence is its first n bytes, then the others.
LEMMA SplitAt ==
  ASSUME NEW B, NEW s \in Seq(B), NEW n \in 0..Len(s)
  PROVE  /\ Taken(s, n) \in Seq(B) /\ Len(Taken(s, n)) = n
         /\ Dropped(s, n) \in Seq(B) /\ Len(Dropped(s, n)) = Len(s) - n
         /\ Taken(s, n) \o Dropped(s, n) = s
<1>1. Len(s) \in Nat /\ n \in Nat /\ n <= Len(s)
  BY SeqFacts
<1>2. /\ Taken(s, n) \in Seq(B) /\ Len(Taken(s, n)) = n
      /\ \A k \in 1..n : Taken(s, n)[k] = s[k]
  BY <1>1, SubFacts DEF Taken
<1>3. /\ Dropped(s, n) \in Seq(B) /\ Len(Dropped(s, n)) = Len(s) - n
      /\ \A k \in 1..(Len(s) - n) : Dropped(s, n)[k] = s[n + k]
  BY <1>1, SubFacts DEF Dropped
<1>4. Taken(s, n) \o Dropped(s, n) = s
  <2> DEFINE t == Taken(s, n) \o Dropped(s, n)
  <2>1. /\ t \in Seq(B) /\ Len(t) = Len(s)
        /\ \A k \in 1..n : t[k] = s[k]
    BY <1>1, <1>2, <1>3, CatFacts
  <2>2. ASSUME NEW k \in (n + 1)..Len(s) PROVE t[k] = s[k]
    <3>1. t[k] = Dropped(s, n)[k - n]
      BY <1>1, <1>2, <1>3, CatFacts
    <3>2. k - n \in 1..(Len(s) - n) /\ n + (k - n) = k
      BY <1>1
    <3>3. QED BY <1>3, <3>1, <3>2, Zenon
  <2> HIDE DEF t
  <2>3. \A k \in 1..Len(s) : t[k] = s[k]
    BY <1>1, <2>1, <2>2
  <2>4. t = s
    BY <2>1, <2>3, SeqEqual, Zenon
  <2>5. QED BY <2>4, Zenon DEF t
<1>5. QED BY <1>2, <1>3, <1>4, Zenon

\* Copying the first n bytes of the rest into the buffer.
LEMMA Fill ==
  ASSUME NEW B, NEW buf \in Seq(B), NEW rest \in Seq(B), NEW n \in 0..Len(rest)
  PROVE  /\ Cat(buf, Taken(rest, n)) \in Seq(B)
         /\ Len(Cat(buf, Taken(rest, n))) = Len(buf) + n
         /\ Cat(Cat(buf, Taken(rest, n)), Dropped(rest, n)) = Cat(buf, rest)
<1>1. /\ Taken(rest, n) \in Seq(B) /\ Len(Taken(rest, n)) = n
      /\ Dropped(rest, n) \in Seq(B)
      /\ Cat(Taken(rest, n), Dropped(rest, n)) = rest
  BY SplitAt, Zenon DEF Cat
<1>2. /\ Cat(buf, Taken(rest, n)) \in Seq(B)
      /\ Len(Cat(buf, Taken(rest, n))) = Len(buf) + n
  BY <1>1, CatType, Zenon
<1>3. Cat(Cat(buf, Taken(rest, n)), Dropped(rest, n))
        = Cat(buf, Cat(Taken(rest, n), Dropped(rest, n)))
  BY <1>1, CatAssoc
<1>4. QED BY <1>1, <1>2, <1>3, Zenon

-----------------------------------------------------------------------------
\* The result r of an iteration of a process function, called with rest when
\* the buffer held buf: the buffer is not overrun, and no byte is lost,
\* repeated or moved between the output, the buffer and the rest.
StepSound(B, max, buf, rest, r) ==
  /\ r.out \in Seq(B) /\ r.buf \in Seq(B) /\ r.rest \in Seq(B)
  /\ Len(r.buf) <= max
  /\ Cat(r.out, Cat(r.buf, r.rest)) = Cat(buf, rest)

\* ht_listener_buffer_process_serialized_events.
LEMMA SerializedStepSound ==
  ASSUME NEW B, NEW max \in Nat, NEW buf \in Seq(B), NEW rest \in Seq(B),
         Len(buf) <= max
  PROVE  StepSound(B, max, buf, rest, SerializedStep(max, buf, rest))
<1> DEFINE n == Lesser(Len(rest), max - Len(buf))
           filled == Cat(buf, Taken(rest, n))
           left == Dropped(rest, n)
           r == SerializedStep(max, buf, rest)
<1>1. n \in 0..Len(rest) /\ n <= max - Len(buf)
  BY SeqFacts DEF Lesser
<1> HIDE DEF n
<1>2. /\ filled \in Seq(B) /\ Len(filled) = Len(buf) + n
      /\ Cat(filled, left) = Cat(buf, rest)
  BY <1>1, Fill
<1>3. left \in Seq(B)
  BY <1>1, SplitAt, Zenon
<1>4. r = [out |-> IF Len(filled) = max THEN filled ELSE << >>,
           buf |-> IF Len(filled) = max THEN << >> ELSE filled,
           rest |-> left]
  BY Zenon DEF SerializedStep, n, Cat
<1>5. Len(filled) <= max /\ Len(<< >>) <= max
  BY <1>1, <1>2, SeqFacts, EmptyFacts
<1> HIDE DEF filled, left, r
<1>6. CASE Len(filled) = max
  <2>1. r.out = filled /\ r.buf = << >> /\ r.rest = left
    BY <1>4, <1>6, Zenon
  <2>2. QED BY <1>2, <1>3, <1>5, <2>1, CatType, CatEmpty DEF StepSound, r
<1>7. CASE Len(filled) # max
  <2>1. r.out = << >> /\ r.buf = filled /\ r.rest = left
    BY <1>4, <1>7, Zenon
  <2>2. QED BY <1>2, <1>3, <1>5, <2>1, CatType, CatEmpty DEF StepSound, r
<1>8. QED BY <1>6, <1>7, Zenon

\* ht_listener_buffer_process_unserialized_events: an event that fits into an
\* empty buffer fits into this one, once it is flushed.
LEMMA UnserializedStepSound ==
  ASSUME NEW B, NEW max \in Nat, NEW buf \in Seq(B), NEW rest \in Seq(B),
         Len(buf) <= max, NEW n \in 0..Len(rest), n <= max
  PROVE  StepSound(B, max, buf, rest, UnserializedStep(max, buf, rest, n))
<1> DEFINE copied == Taken(rest, n)
           left == Dropped(rest, n)
           flush == n + Len(buf) > max
           r == UnserializedStep(max, buf, rest, n)
<1>1. /\ copied \in Seq(B) /\ Len(copied) = n /\ left \in Seq(B)
      /\ Cat(copied, left) = rest
  BY SplitAt, Zenon DEF Cat
<1>2. /\ Cat(buf, copied) \in Seq(B) /\ Len(Cat(buf, copied)) = Len(buf) + n
      /\ Cat(Cat(buf, copied), left) = Cat(buf, rest)
  BY Fill
<1>3. r = [out |-> IF flush THEN buf ELSE << >>,
           buf |-> Cat(IF flush THEN << >> ELSE buf, copied),
           rest |-> left]
  BY Zenon DEF UnserializedStep, Cat
<1> HIDE DEF copied, left, r
<1>4. CASE flush
  <2>1. r.out = buf /\ r.buf = copied /\ r.rest = left
    BY <1>1, <1>3, <1>4, CatEmpty, Zenon
  <2>2. QED BY <1>1, <2>1, Zenon DEF StepSound, r
<1>5. CASE ~flush
  <2>1. r.out = << >> /\ r.buf = Cat(buf, copied) /\ r.rest = left
    BY <1>3, <1>5, Zenon
  <2>2. Len(r.buf) <= max
    BY <1>2, <1>5, <2>1, SeqFacts
  <2>3. QED BY <1>1, <1>2, <2>1, <2>2, CatType, CatEmpty DEF StepSound, r
<1>6. QED BY <1>4, <1>5, Zenon

\* The bypass mode: nothing enters the buffer.
LEMMA BypassStepSound ==
  ASSUME NEW B, NEW rest \in Seq(B)
  PROVE  StepSound(B, 0, << >>, rest, BypassStep(<< >>, rest))
<1> DEFINE r == BypassStep(<< >>, rest)
<1>1. r.out = rest /\ r.buf = << >> /\ r.rest = << >>
  BY Zenon DEF BypassStep
<1> HIDE DEF r
<1>2. << >> \in Seq(B) /\ Len(<< >>) <= 0
  BY CatEmpty
<1>3. Cat(rest, Cat(<< >>, << >>)) = Cat(<< >>, rest)
  BY <1>2, CatEmpty, Zenon
<1>4. StepSound(B, 0, << >>, rest, r)
  BY <1>1, <1>2, <1>3, Zenon DEF StepSound
<1>5. QED BY <1>4, Zenon DEF r

\* A sound iteration conserves the queues in front of the output: w is behind
\* the output, x is the output before the iteration.
LEMMA StepConserves ==
  ASSUME NEW B, NEW w \in Seq(B), NEW x \in Seq(B), NEW b \in Seq(B), NEW r \in Seq(B),
         NEW max, NEW step, StepSound(B, max, b, r, step)
  PROVE  Cat(Cat(Cat(w, Cat(x, step.out)), step.buf), step.rest)
           = Cat(Cat(Cat(w, x), b), r)
<1> DEFINE o == step.out
           c == step.buf
           s == step.rest
<1>0. /\ o \in Seq(B) /\ c \in Seq(B) /\ s \in Seq(B)
      /\ Cat(o, Cat(c, s)) = Cat(b, r)
  BY Zenon DEF StepSound
<1> HIDE DEF o, c, s
<1>1. /\ Cat(x, o) \in Seq(B) /\ Cat(c, s) \in Seq(B) /\ Cat(w, x) \in Seq(B)
      /\ Cat(w, Cat(x, o)) \in Seq(B) /\ Cat(b, r) \in Seq(B)
  BY <1>0, CatType, Zenon
<1>2. Cat(Cat(Cat(w, Cat(x, o)), c), s) = Cat(Cat(w, Cat(x, o)), Cat(c, s))
  BY <1>0, <1>1, CatAssoc
<1>3. Cat(Cat(w, Cat(x, o)), Cat(c, s)) = Cat(Cat(w, x), Cat(o, Cat(c, s)))
  BY <1>0, <1>1, CatAssoc
<1>4. Cat(Cat(Cat(w, x), b), r) = Cat(Cat(w, x), Cat(b, r))
  BY <1>1, CatAssoc
<1>5. QED BY <1>0, <1>2, <1>3, <1>4, Zenon DEF o, c, s

=============================================================================
