---------------------------- MODULE JzbootProofs ----------------------------
(***************************************************************************)
(* For any scripts, sessions, lines typed and kernels: a failed command of *)
(* a -C, -b or -c invocation ends the whole invocation, proved with an     *)
(* invariant on the stack of lines and scripts that wait for it; and the   *)
(* commands the shell offers, the place stage 2 is put in and the kernel   *)
(* that is started are right, proved with an invariant on the              *)
(* configuration and the device that every library function preserves,     *)
(* whichever of its requests fails.  First what load_elf lays out, for     *)
(* every image and every size of memory: the areas of a well-formed image  *)
(* are apart and below stage 2, and those of an image that is loaded to    *)
(* the end include the arguments and the trampoline.  load_elf_image is a  *)
(* fold over the program headers; what it computes is proved by induction  *)
(* over the headers, for sets of numbers (Upwards).                        *)
(***************************************************************************)
EXTENDS Jzboot, SequenceTheorems, FiniteSetTheorems, TLAPS

(* The layout of a kernel **************************************************)

\* Records by their fields, in a form in which EXCEPT can be reasoned about; the areas a
\* kernel or a file is made of.
Record(r, fields) == DOMAIN r = fields /\ r = [k \in DOMAIN r |-> r[k]]
Names == {"segment", "initrd", "args", "trampoline", "file"}
Areas == [what : Names, base : Nat, size : Nat]

\* A set of naturals that is not empty has a least member.
LEMMA LeastOf ==
  ASSUME NEW T \in SUBSET Nat, T # {}
  PROVE  \E m \in T : \A k \in T : m <= k
<1> DEFINE Segs == {0..m : m \in T}
<1>1. Segs \subseteq FiniteSubsetsOf(Nat)
  <2> SUFFICES ASSUME NEW m \in T PROVE 0..m \in FiniteSubsetsOf(Nat)
    OBVIOUS
  <2>1. IsFiniteSet(0..m)
    BY FS_Interval
  <2> QED
    BY <2>1 DEF FiniteSubsetsOf
<1>2. IsWellFoundedOn(StrictSubsetOrdering(Nat), FiniteSubsetsOf(Nat))
  BY FS_StrictSubsetOrderingWellFounded
<1>3. Segs # {}
  OBVIOUS
<1>4. PICK x \in Segs : \A y \in Segs : ~(<<y, x>> \in StrictSubsetOrdering(Nat))
  BY <1>1, <1>2, <1>3, WFMin
<1>5. PICK m \in T : x = 0..m
  BY <1>4
<1>6. ASSUME NEW k \in T, ~(m <= k) PROVE FALSE
  <2>1. 0..k \subseteq 0..m /\ 0..k # 0..m /\ 0..k \in Segs
    BY <1>6
  <2>2. <<0..k, 0..m>> \in StrictSubsetOrdering(Nat)
    BY <2>1, <1>5 DEF StrictSubsetOrdering
  <2> QED
    BY <1>4, <1>5, <2>1, <2>2
<1> QED
  BY <1>6

\* Induction, for a set instead of a predicate.
LEMMA Upwards ==
  ASSUME NEW I, 0 \in I, \A k \in Nat : k \in I => k + 1 \in I
  PROVE  \A k \in Nat : k \in I
<1> DEFINE T == {k \in Nat : k \notin I}
<1> SUFFICES ASSUME T # {} PROVE FALSE
  OBVIOUS
<1>1. PICK m \in T : \A k \in T : m <= k
  BY LeastOf
<1>2. m # 0 /\ m - 1 \in Nat
  BY <1>1
<1>3. m - 1 \in I
  BY <1>1, <1>2
<1> QED
  BY <1>1, <1>2, <1>3

\* What load_elf_image does with a program header.
ImageStep(p, s) ==
  LET q == load_segment(p, "segment", s.paddr, s.filesz, s.memsz)
  IN  IF s.load /\ p.ok THEN [q EXCEPT !.end = IF q.ok /\ @ > p.end THEN @ ELSE p.end] ELSE p

ImageFrom(base, seq) == FoldLeft(ImageStep, base, seq)

ImageSteps(g, base, seq) ==
  /\ g[0] = base
  /\ \A i \in 1..Len(seq) : g[i] = ImageStep(g[i - 1], seq[i])
  /\ ImageFrom(base, seq) = g[Len(seq)]

\* The largest of a set of naturals up to n + 1 that contains n + 1.
LEMMA MaxIs ==
  ASSUME NEW n \in Nat, NEW s \in SUBSET (1..(n + 1)), n + 1 \in s
  PROVE  Max(s) = n + 1
<1>1. \A y \in s : y \in Nat /\ n + 1 >= y
  OBVIOUS
<1>2. \A x \in s : (\A y \in s : x >= y) => x = n + 1
  BY <1>1
<1> QED
  BY <1>1, <1>2 DEF Max

\* FoldLeft applies its operator once for every element, from the first to the last.
LEMMA ImageFold ==
  ASSUME NEW base, NEW seq \in Seq(ElfSegments)
  PROVE  \E g : ImageSteps(g, base, seq)
<1> DEFINE Is(f, n) == f = [s \in SUBSET (1..n) |-> IF s = {} THEN base ELSE ImageStep(f[s \ {Max(s)}], seq[Max(s)])]
           I == {n \in Nat : \E f : Is(f, n)}
<1>1. DOMAIN seq = 1..Len(seq) /\ Len(seq) \in Nat
  OBVIOUS
<1>2. 0 \in I
  <2>1. Is([s \in SUBSET (1..0) |-> base], 0)
    <3>1. \A s \in SUBSET (1..0) : s = {}
      OBVIOUS
    <3> QED
      BY <3>1
  <2> QED
    BY <2>1
<1>3. ASSUME NEW n \in Nat, n \in I PROVE n + 1 \in I
  <2>1. PICK f : Is(f, n)
    BY <1>3
  <2> DEFINE h == [s \in SUBSET (1..(n + 1)) |-> IF s \subseteq 1..n THEN f[s]
                                                 ELSE ImageStep(f[s \ {n + 1}], seq[n + 1])]
  <2>2. ASSUME NEW s \in SUBSET (1..(n + 1))
        PROVE  h[s] = IF s = {} THEN base ELSE ImageStep(h[s \ {Max(s)}], seq[Max(s)])
    <3>1. CASE s \subseteq 1..n
      <4>1. h[s] = f[s] /\ h[s \ {Max(s)}] = f[s \ {Max(s)}]
        BY <3>1
      <4>2. f[s] = IF s = {} THEN base ELSE ImageStep(f[s \ {Max(s)}], seq[Max(s)])
        BY <2>1, <3>1
      <4> QED
        BY <4>1, <4>2
    <3>2. CASE ~(s \subseteq 1..n)
      <4>1. n + 1 \in s
        BY <3>2
      <4>2. Max(s) = n + 1
        BY <4>1, MaxIs
      <4>3. s \ {n + 1} \subseteq 1..n /\ s \ {n + 1} \in SUBSET (1..(n + 1))
        OBVIOUS
      <4>4. h[s \ {n + 1}] = f[s \ {n + 1}]
        BY <4>3
      <4>5. h[s] = ImageStep(f[s \ {n + 1}], seq[n + 1])
        BY <3>2
      <4> QED
        BY <4>1, <4>2, <4>4, <4>5
    <3> QED
      BY <3>1, <3>2
  <2>3. Is(h, n + 1)
    BY <2>2
  <2> HIDE DEF h, Is
  <2> QED
    BY <2>3
<1>4. Len(seq) \in I
  <2> HIDE DEF I
  <2> QED
    BY <1>1, <1>2, <1>3, Upwards
<1> DEFINE iter == CHOOSE f : f = [s \in SUBSET DOMAIN seq |-> IF s = {} THEN base ELSE ImageStep(f[s \ {Max(s)}], seq[Max(s)])]
           g == [i \in 0..Len(seq) |-> iter[1..i]]
<1>5. ImageFrom(base, seq) = iter[DOMAIN seq]
  BY DEF ImageFrom, FoldLeft, MapThenFoldSet
<1>6. Is(iter, Len(seq))
  BY <1>1, <1>4
<1> HIDE DEF iter
<1>7. g[0] = base
  <2>1. 1..0 = {} /\ {} \in SUBSET (1..Len(seq))
    OBVIOUS
  <2> QED
    BY <1>1, <1>6, <2>1
<1>8. ASSUME NEW i \in 1..Len(seq) PROVE g[i] = ImageStep(g[i - 1], seq[i])
  <2>1. PICK n \in Nat : n = i - 1
    BY <1>1
  <2>2. i = n + 1 /\ i \in 1..i /\ \A j \in 1..i : j \in 1..Len(seq)
    BY <1>1, <2>1
  <2>3. Max(1..i) = i
    <3>1. n + 1 \in 1..(n + 1)
      OBVIOUS
    <3>2. Max(1..(n + 1)) = n + 1
      BY <3>1, MaxIs
    <3> QED
      BY <2>2, <3>2
  <2>4. (1..i) \ {i} = 1..(i - 1)
    BY <1>1
  <2>5. g[i] = iter[1..i] /\ g[i - 1] = iter[1..(i - 1)]
    BY <1>1
  <2>6. iter[1..i] = ImageStep(iter[(1..i) \ {Max(1..i)}], seq[Max(1..i)])
    BY <1>6, <2>2
  <2> QED
    BY <2>3, <2>4, <2>5, <2>6
<1>9. g[Len(seq)] = iter[DOMAIN seq]
  BY <1>1
<1> HIDE DEF g
<1> QED
  BY <1>5, <1>7, <1>8, <1>9 DEF ImageSteps

(* Where the loader puts things *)

\* What load_elf and the functions it calls keep of the load.
Plan(p) ==
  /\ Record(p, {"ok", "areas", "end", "total"})
  /\ p.ok \in BOOLEAN /\ p.areas \in Seq(Areas) /\ p.end \in Nat /\ p.total \in Nat

Apart(areas) == \A i, j \in 1..Len(areas) : i # j => ~Overlap(areas[i], areas[j])

\* Wrap: a number of 32 bits, which is the number itself when it has no more.
LEMMA WrapNat ==
  ASSUME NEW a \in Int
  PROVE  /\ 2^22 \in Nat /\ Wrap(a) \in Nat /\ Wrap(a) < 2^22
         /\ a \in Nat /\ a < 2^22 => Wrap(a) = a /\ Wrap(a + 2^22) = a
<1>1. 2^22 = 4194304
  OBVIOUS
<1> QED
  BY <1>1, SMT DEF Wrap

\* The sizes are numbers; 2^22 itself is kept folded.
LEMMA Sizes22 == 2^22 \in Nat /\ SDRAM_BASE \in Nat /\ STAGE2_CODESIZE \in Nat
<1>1. 2^22 = 4194304 /\ 2^21 = 2097152
  OBVIOUS
<1> QED
  BY <1>1, SMT DEF SDRAM_BASE, STAGE2_CODESIZE

\* Part: nothing, or the one area.
LEMMA PartOf ==
  ASSUME NEW a \in Areas
  PROVE  Part(a) \in Seq(Areas) /\ (a.size = 0 => Part(a) = <<>>) /\ (a.size > 0 => Part(a) = <<a>>)
<1>1. a.size \in Nat
  BY DEF Areas
<1>2. <<a>> \in Seq(Areas) /\ <<>> \in Seq(Areas)
  OBVIOUS
<1> QED
  BY <1>1, <1>2 DEF Part

\* What a sequence of areas holds with one more behind it.
Grown(s, a, t) == \A i \in 1..Len(t) : (i \in 1..Len(s) /\ t[i] = s[i]) \/ (i = Len(s) + 1 /\ t[i] = a)

\* A sequence of areas with a part behind it.
LEMMA AddPart ==
  ASSUME NEW s \in Seq(Areas), NEW a \in Areas, NEW t, t = s \o Part(a)
  PROVE  /\ t \in Seq(Areas) /\ Len(t) >= Len(s) /\ Len(t) \in Nat
         /\ \A i \in 1..Len(s) : i \in 1..Len(t) /\ t[i] = s[i]
         /\ Grown(s, a, t)
         /\ a.size > 0 => t[Len(s) + 1] = a /\ Len(s) + 1 \in 1..Len(t)
<1>1. a.size \in Nat
  BY DEF Areas
<1>2. CASE a.size = 0
  <2>1. Part(a) = <<>> /\ s \o <<>> = s
    BY <1>2, PartOf
  <2>3. t = s /\ Len(s) \in Nat /\ ~(a.size > 0)
    BY <1>2, <2>1
  <2>4. /\ t \in Seq(Areas) /\ Len(t) >= Len(s) /\ Len(t) \in Nat
        /\ \A i \in 1..Len(s) : i \in 1..Len(t) /\ t[i] = s[i]
        /\ \A i \in 1..Len(t) : i \in 1..Len(s) /\ t[i] = s[i]
    BY <2>3
  <2>5. Grown(s, a, t)
    BY <2>4 DEF Grown
  <2> QED
    BY <2>3, <2>4, <2>5, Zenon
<1>3. CASE a.size > 0
  <2>1. Part(a) = <<a>>
    BY <1>3, PartOf
  <2>2. s \o <<a>> \in Seq(Areas) /\ Len(s \o <<a>>) = Len(s) + 1 /\ Len(s) \in Nat
    OBVIOUS
  <2>3. \A i \in 1..Len(s) : (s \o <<a>>)[i] = s[i]
    OBVIOUS
  <2>4. (s \o <<a>>)[Len(s) + 1] = a
    OBVIOUS
  <2>6. /\ t \in Seq(Areas) /\ Len(t) = Len(s) + 1 /\ Len(s) \in Nat /\ t[Len(s) + 1] = a
        /\ \A i \in 1..Len(s) : t[i] = s[i]
    BY <2>1, <2>2, <2>3, <2>4
  <2>7. \A i \in 1..Len(t) : i \in 1..Len(s) \/ i = Len(s) + 1
    BY <2>6
  <2>8. Len(t) >= Len(s) /\ Len(t) \in Nat /\ Len(s) + 1 \in 1..Len(t) /\ \A i \in 1..Len(s) : i \in 1..Len(t)
    BY <2>6
  <2>9. Grown(s, a, t)
    BY <2>6, <2>7 DEF Grown
  <2> QED
    BY <2>6, <2>8, <2>9, Zenon
<1> QED
  BY <1>1, <1>2, <1>3



LEMMA PartAdded ==
  ASSUME NEW s \in Seq(Areas), NEW a \in Areas, NEW t, t = s \o Part(a), a.size > 0
  PROVE  t[Len(s) + 1] = a /\ Len(s) + 1 \in 1..Len(t)
  BY AddPart

\* An area that meets none of the others can be added.
LEMMA AddApart ==
  ASSUME NEW s \in Seq(Areas), NEW a \in Areas, Apart(s), \A i \in 1..Len(s) : ~Overlap(s[i], a)
  PROVE  Apart(s \o Part(a))
<1> DEFINE t == s \o Part(a)
<1>1. \A i \in 1..Len(t) : (i \in 1..Len(s) /\ t[i] = s[i]) \/ (i = Len(s) + 1 /\ t[i] = a)
  <2>1. Grown(s, a, t)
    BY AddPart
  <2> QED
    BY <2>1 DEF Grown
<1>2. \A x, y : Overlap(x, y) <=> Overlap(y, x)
  BY DEF Overlap
<1> HIDE DEF t
<1> SUFFICES ASSUME NEW i \in 1..Len(t), NEW j \in 1..Len(t), i # j PROVE ~Overlap(t[i], t[j])
  BY DEF Apart, t
<1>3. CASE i \in 1..Len(s) /\ j \in 1..Len(s) /\ t[i] = s[i] /\ t[j] = s[j]
  BY <1>3 DEF Apart
<1>4. CASE i \in 1..Len(s) /\ t[i] = s[i] /\ t[j] = a
  BY <1>4
<1>5. CASE j \in 1..Len(s) /\ t[j] = s[j] /\ t[i] = a
  BY <1>2, <1>5
<1> QED
  BY <1>1, <1>3, <1>4, <1>5

LEMMA ConcatAreas ==
  ASSUME NEW s \in Seq(Areas), NEW t \in Seq(Areas), NEW u, u = s \o t
  PROVE  /\ u \in Seq(Areas) /\ Len(u) = Len(s) + Len(t)
         /\ \A i \in 1..Len(u) : u[i] = IF i <= Len(s) THEN s[i] ELSE t[i - Len(s)]
  BY ConcatProperties

\* Concatenation of areas is associative.
LEMMA AreasAssociative ==
  ASSUME NEW s \in Seq(Areas), NEW t \in Seq(Areas), NEW u \in Seq(Areas)
  PROVE  s \o (t \o u) = (s \o t) \o u
<1>1. PICK p : p = s \o t
  OBVIOUS
<1>2. PICK q : q = t \o u
  OBVIOUS
<1>3. /\ p \in Seq(Areas) /\ Len(p) = Len(s) + Len(t)
      /\ \A i \in 1..Len(p) : p[i] = IF i <= Len(s) THEN s[i] ELSE t[i - Len(s)]
  BY <1>1, ConcatAreas
<1>4. /\ q \in Seq(Areas) /\ Len(q) = Len(t) + Len(u)
      /\ \A i \in 1..Len(q) : q[i] = IF i <= Len(t) THEN t[i] ELSE u[i - Len(t)]
  BY <1>2, ConcatAreas
<1>b. p \in Seq(Areas) /\ q \in Seq(Areas)
  BY <1>3, <1>4
<1>5. PICK l : l = p \o u
  OBVIOUS
<1>6. PICK r : r = s \o q
  OBVIOUS
<1>7. /\ l \in Seq(Areas) /\ Len(l) = Len(p) + Len(u)
      /\ \A i \in 1..Len(l) : l[i] = IF i <= Len(p) THEN p[i] ELSE u[i - Len(p)]
  BY <1>b, <1>5, ConcatAreas
<1>8. /\ r \in Seq(Areas) /\ Len(r) = Len(s) + Len(q)
      /\ \A i \in 1..Len(r) : r[i] = IF i <= Len(s) THEN s[i] ELSE q[i - Len(s)]
  BY <1>b, <1>6, ConcatAreas
<1>9. Len(s) \in Nat /\ Len(t) \in Nat /\ Len(u) \in Nat
  OBVIOUS
<1>a. Len(l) = Len(r)
  BY <1>3, <1>4, <1>7, <1>8, <1>9
<1>10. ASSUME NEW i \in 1..Len(l) PROVE l[i] = r[i]
  <2>1. CASE i <= Len(s)
    BY <2>1, <1>a, <1>3, <1>7, <1>8, <1>9
  <2>2. CASE i > Len(s) /\ i <= Len(s) + Len(t)
    <3>1. l[i] = t[i - Len(s)]
      BY <2>2, <1>3, <1>7, <1>9
    <3>2. r[i] = q[i - Len(s)]
      BY <2>2, <1>a, <1>8, <1>9
    <3>3. PICK k : k = i - Len(s)
      OBVIOUS
    <3>4. k \in 1..Len(q) /\ k <= Len(t)
      BY <2>2, <3>3, <1>4, <1>9
    <3>5. q[k] = t[k]
      BY <3>4, <1>4
    <3> QED
      BY <3>1, <3>2, <3>3, <3>5
  <2>3. CASE i > Len(s) + Len(t)
    <3>1. l[i] = u[i - Len(p)]
      BY <2>3, <1>3, <1>7, <1>9
    <3>2. r[i] = q[i - Len(s)]
      BY <2>3, <1>a, <1>8, <1>9
    <3>3. PICK k : k = i - Len(s)
      OBVIOUS
    <3>4. k \in 1..Len(q) /\ k > Len(t) /\ k - Len(t) = i - Len(p)
      BY <2>3, <3>3, <1>a, <1>3, <1>4, <1>8, <1>9
    <3>5. q[k] = u[k - Len(t)]
      BY <3>4, <1>4, <1>9
    <3> QED
      BY <3>1, <3>2, <3>3, <3>4, <3>5
  <2> QED
    BY <2>1, <2>2, <2>3, <1>7, <1>9
<1>11. l = r
  BY <1>7, <1>8, <1>a, <1>10, SeqEqual
<1> QED
  BY <1>1, <1>2, <1>5, <1>6, <1>11

\* q is p with what load_segment loaded, in two parts, or nothing.
Segmented(p, q, end, head, tail) ==
  /\ head \in Areas /\ tail \in Areas /\ Plan(q) /\ q.total = p.total
  /\ ~q.ok => q.areas = p.areas /\ q.end = p.end
  /\ q.ok => p.ok
  /\ q.ok => Wrap(end) <= Limit(p.total)
  /\ q.ok => q.end = Wrap(end) /\ q.areas = (p.areas \o Part(head)) \o Part(tail)

\* load_segment: one call.
LEMMA SegmentOf ==
  ASSUME NEW p, Plan(p), NEW what \in Names, NEW base \in Nat, NEW filesz \in Nat, NEW memsz \in Nat,
         NEW q, q = load_segment(p, what, base, filesz, memsz),
         NEW head, head = Area(what, base, filesz),
         NEW tail, tail = Area(what, Wrap(base + filesz), Wrap(memsz + 2^22 - filesz))
  PROVE  Segmented(p, q, base + memsz, head, tail)
<1> DEFINE end == Wrap(base + memsz)
           fits == ~(~p.ok \/ end > Limit(p.total))
           new == p.areas \o (Part(head) \o Part(tail))
<1>1. end \in Nat /\ Wrap(base + filesz) \in Nat /\ Wrap(memsz + 2^22 - filesz) \in Nat
  BY WrapNat, Sizes22
<1>2. head \in Areas /\ tail \in Areas
  BY <1>1 DEF Area, Areas
<1>3. q = IF ~fits THEN [p EXCEPT !.ok = FALSE] ELSE [p EXCEPT !.areas = new, !.end = end]
  BY DEF load_segment
<1>4. /\ Record(p, {"ok", "areas", "end", "total"})
      /\ p.ok \in BOOLEAN /\ p.areas \in Seq(Areas) /\ p.end \in Nat /\ p.total \in Nat
  BY DEF Plan
<1>5. new \in Seq(Areas) /\ new = (p.areas \o Part(head)) \o Part(tail)
  <2>1. Part(head) \in Seq(Areas) /\ Part(tail) \in Seq(Areas)
    BY <1>2, PartOf
  <2>2. p.areas \o (Part(head) \o Part(tail)) = (p.areas \o Part(head)) \o Part(tail)
    BY <1>4, <2>1, AreasAssociative
  <2>3. p.areas \o (Part(head) \o Part(tail)) \in Seq(Areas)
    BY <1>4, <2>1
  <2> QED
    BY <2>2, <2>3
<1>6. CASE ~fits
  <2>1. q = [p EXCEPT !.ok = FALSE]
    BY <1>3, <1>6
  <2>2. /\ Record(q, {"ok", "areas", "end", "total"})
        /\ q.ok = FALSE /\ q.areas = p.areas /\ q.end = p.end /\ q.total = p.total
    BY <1>4, <2>1 DEF Record
  <2> QED
    BY <1>2, <1>4, <2>2 DEF Plan, Segmented
<1>7. CASE fits
  <2> HIDE DEF new, end
  <2>1. q = [p EXCEPT !.areas = new, !.end = end]
    BY <1>3, <1>7
  <2>2. /\ Record(q, {"ok", "areas", "end", "total"})
        /\ q.areas = new /\ q.end = end /\ q.total = p.total
    BY <1>4, <2>1 DEF Record
  <2>3. q.ok = p.ok
    BY <1>4, <2>1 DEF Record
  <2>4. Plan(q)
    BY <1>1, <1>4, <1>5, <2>2, <2>3 DEF Plan
  <2>5. Limit(p.total) \in Nat
    <3>1. p.total + SDRAM_BASE + 2^22 - STAGE2_CODESIZE \in Int
      BY <1>4, Sizes22
    <3> QED
      BY <3>1, WrapNat DEF Limit
  <2>6. end <= Limit(p.total)
    BY <1>1, <1>7, <2>5
  <2> QED
    BY <1>2, <1>5, <2>2, <2>3, <2>4, <1>7, <2>6 DEF end, Segmented
<1> QED
  BY <1>6, <1>7

\* A sequence of areas with two parts behind it: those of the file and the zeros.
LEMMA AddTwo ==
  ASSUME NEW s \in Seq(Areas), NEW a \in Areas, NEW b \in Areas
  PROVE  LET t == (s \o Part(a)) \o Part(b) IN
         /\ \A i \in 1..Len(t) : (\E j \in 1..Len(s) : t[i] = s[j]) \/ t[i] = a \/ t[i] = b
         /\ Apart(s) /\ ~Overlap(a, b) /\ (\A i \in 1..Len(s) : ~Overlap(s[i], a) /\ ~Overlap(s[i], b)) => Apart(t)
<1> DEFINE u == s \o Part(a)
           t == u \o Part(b)
<1>1. u \in Seq(Areas)
      /\ \A i \in 1..Len(u) : (i \in 1..Len(s) /\ u[i] = s[i]) \/ (i = Len(s) + 1 /\ u[i] = a)
  <2>1. u \in Seq(Areas) /\ Grown(s, a, u)
    BY AddPart
  <2> QED
    BY <2>1 DEF Grown
<1>2. Apart(s) /\ (\A i \in 1..Len(s) : ~Overlap(s[i], a)) => Apart(u)
  BY AddApart
<1> HIDE DEF u
<1>3. \A i \in 1..Len(t) : (i \in 1..Len(u) /\ t[i] = u[i]) \/ (i = Len(u) + 1 /\ t[i] = b)
  <2>1. Grown(u, b, t)
    BY <1>1, AddPart
  <2> QED
    BY <2>1 DEF Grown
<1>4. Apart(u) /\ (\A i \in 1..Len(u) : ~Overlap(u[i], b)) => Apart(t)
  BY <1>1, AddApart
<1> HIDE DEF t
<1>5. \A i \in 1..Len(t) : (\E j \in 1..Len(s) : t[i] = s[j]) \/ t[i] = a \/ t[i] = b
  BY <1>1, <1>3
<1>6. Apart(s) /\ ~Overlap(a, b) /\ (\A i \in 1..Len(s) : ~Overlap(s[i], a) /\ ~Overlap(s[i], b)) => Apart(t)
  BY <1>1, <1>2, <1>4
<1> QED
  BY <1>5, <1>6 DEF t, u

\* What was loaded lies in memory below the end and apart.
Laid(p, limit) ==
  /\ p.end <= limit
  /\ \A i \in 1..Len(p.areas) : p.areas[i].base >= SDRAM_BASE /\ p.areas[i].base + p.areas[i].size <= p.end
  /\ Apart(p.areas)

\* It is part of the first n segments.
Within(a, s) == s.load /\ a.base >= s.paddr /\ a.base + a.size <= s.paddr + s.memsz
Imaged(p, segments, n) ==
  /\ \A i \in 1..Len(p.areas) : \E m \in 1..n : Within(p.areas[i], segments[m])
  /\ p.ok /\ (\E m \in 1..n : segments[m].load) => p.end >= SDRAM_BASE

Separate(segments) ==
  /\ \A i \in 1..Len(segments) : segments[i].load => Sane(segments[i])
  /\ \A i, j \in 1..Len(segments) :
       i # j /\ segments[i].load /\ segments[j].load =>
         ~Overlap(Area("", segments[i].paddr, segments[i].memsz),
                  Area("", segments[j].paddr, segments[j].memsz))

\* r is p after a program header that q is the loading of.
Stepped(p, q, r, load) ==
  /\ Plan(r) /\ r.total = p.total
  /\ load /\ p.ok => r.ok = q.ok
  /\ load /\ p.ok => r.areas = q.areas /\ r.end = IF q.ok /\ q.end > p.end THEN q.end ELSE p.end
  /\ ~(load /\ p.ok) => r = p

\* load_elf_image: what one program header changes.
LEMMA ImageStepPlan ==
  ASSUME NEW p, Plan(p), NEW s \in ElfSegments
  PROVE  Stepped(p, load_segment(p, "segment", s.paddr, s.filesz, s.memsz), ImageStep(p, s), s.load)
<1> DEFINE q == load_segment(p, "segment", s.paddr, s.filesz, s.memsz)
           r == ImageStep(p, s)
           end == IF q.ok /\ q.end > p.end THEN q.end ELSE p.end
<1>1. r = IF s.load /\ p.ok THEN [q EXCEPT !.end = end] ELSE p
  BY DEF ImageStep
<1>2. s.paddr \in Nat /\ s.filesz \in Nat /\ s.memsz \in Nat
  BY DEF ElfSegments
<1>3. Plan(q) /\ q.total = p.total
  <2>1. "segment" \in Names
    BY DEF Names
  <2>2. ASSUME NEW base \in Nat, NEW filesz \in Nat, NEW memsz \in Nat
        PROVE  /\ Plan(load_segment(p, "segment", base, filesz, memsz))
               /\ load_segment(p, "segment", base, filesz, memsz).total = p.total
    <3>1. PICK head, tail : /\ head = Area("segment", base, filesz)
                            /\ tail = Area("segment", Wrap(base + filesz), Wrap(memsz + 2^22 - filesz))
      OBVIOUS
    <3>2. Segmented(p, load_segment(p, "segment", base, filesz, memsz), base + memsz, head, tail)
      BY <2>1, <3>1, SegmentOf
    <3> QED
      BY <3>2 DEF Segmented
  <2> QED
    BY <1>2, <2>2
<1> HIDE DEF r, q
<1>4. end \in Nat
  BY <1>3 DEF Plan
<1> HIDE DEF end
<1>5. CASE ~(s.load /\ p.ok)
  <2>1. Stepped(p, q, r, s.load)
    BY <1>1, <1>5 DEF Stepped
  <2> QED
    BY <2>1 DEF r, q
<1>6. CASE s.load /\ p.ok
  <2>1. r = [q EXCEPT !.end = end]
    BY <1>1, <1>6
  <2>2. Record(q, {"ok", "areas", "end", "total"})
    BY <1>3 DEF Plan
  <2>3. Record(r, {"ok", "areas", "end", "total"}) /\ r.areas = q.areas /\ r.end = end /\ r.total = q.total
    BY <2>1, <2>2 DEF Record
  <2>4. r.ok = q.ok
    BY <2>1, <2>2 DEF Record
  <2>5. Plan(r)
    BY <1>3, <1>4, <2>3, <2>4 DEF Plan
  <2>6. Stepped(p, q, r, s.load)
    BY <1>3, <1>6, <2>3, <2>4, <2>5 DEF Stepped, end
  <2> QED
    BY <2>6 DEF r, q
<1> QED
  BY <1>5, <1>6

\* A sane segment is loaded where its header says.
LEMMA SaneParts ==
  ASSUME NEW s \in ElfSegments, Sane(s)
  PROVE  /\ Wrap(s.paddr + s.memsz) = s.paddr + s.memsz
         /\ Wrap(s.paddr + s.filesz) = s.paddr + s.filesz
         /\ Wrap(s.memsz + 2^22 - s.filesz) = s.memsz - s.filesz
<1>1. s.paddr \in Nat /\ s.filesz \in Nat /\ s.memsz \in Nat
  BY DEF ElfSegments
<1>2. s.filesz <= s.memsz /\ s.paddr + s.memsz < 2^22 /\ 2^22 \in Nat
  BY Sizes22 DEF Sane
<1>3. /\ s.memsz - s.filesz \in Nat /\ s.memsz - s.filesz < 2^22
      /\ s.memsz + 2^22 - s.filesz = (s.memsz - s.filesz) + 2^22
      /\ s.paddr + s.filesz < 2^22
  BY <1>1, <1>2
<1> QED
  BY <1>1, <1>2, <1>3, WrapNat

\* load_elf_image: a segment that meets no other one is laid beside them.
LEMMA ImageStepLaid ==
  ASSUME NEW p, Plan(p), NEW limit, limit = Limit(p.total), Laid(p, limit),
         NEW segments \in Seq(ElfSegments), Separate(segments), NEW n \in Nat, n + 1 <= Len(segments),
         Imaged(p, segments, n)
  PROVE  Laid(ImageStep(p, segments[n + 1]), limit) /\ Imaged(ImageStep(p, segments[n + 1]), segments, n + 1)
<1>1. PICK s : s = segments[n + 1]
  OBVIOUS
<1>2. /\ n + 1 \in 1..Len(segments) /\ s \in ElfSegments
      /\ \A m \in 1..n : m \in 1..(n + 1) /\ m \in 1..Len(segments) /\ m # n + 1 /\ segments[m] \in ElfSegments
  BY <1>1
<1>3. PICK base \in Nat, filesz \in Nat, memsz \in Nat : base = s.paddr /\ filesz = s.filesz /\ memsz = s.memsz
  BY <1>2 DEF ElfSegments
<1>4. PICK q, r, head, tail :
        /\ q = load_segment(p, "segment", base, filesz, memsz)
        /\ r = ImageStep(p, s)
        /\ head = Area("segment", base, filesz)
        /\ tail = Area("segment", Wrap(base + filesz), Wrap(memsz + 2^22 - filesz))
  OBVIOUS
<1>5. /\ Plan(r) /\ r.total = p.total
      /\ s.load /\ p.ok => r.ok = q.ok
      /\ s.load /\ p.ok => r.areas = q.areas /\ r.end = IF q.ok /\ q.end > p.end THEN q.end ELSE p.end
      /\ ~(s.load /\ p.ok) => r = p
  <2>1. Stepped(p, q, r, s.load)
    BY <1>2, <1>3, <1>4, ImageStepPlan
  <2> QED
    BY <2>1 DEF Stepped
<1>6. "segment" \in Names
  BY DEF Names
<1>7. /\ head \in Areas /\ tail \in Areas /\ Plan(q)
      /\ ~q.ok => q.areas = p.areas /\ q.end = p.end
      /\ q.ok => Wrap(base + memsz) <= Limit(p.total)
      /\ q.ok => q.end = Wrap(base + memsz) /\ q.areas = (p.areas \o Part(head)) \o Part(tail)
  <2>1. PICK what \in Names : what = "segment"
    BY <1>6
  <2>2. /\ q = load_segment(p, what, base, filesz, memsz)
        /\ head = Area(what, base, filesz)
        /\ tail = Area(what, Wrap(base + filesz), Wrap(memsz + 2^22 - filesz))
    BY <1>4, <2>1
  <2>3. Segmented(p, q, base + memsz, head, tail)
    BY <2>2, SegmentOf
  <2> QED
    BY <2>3 DEF Segmented
<1>8. CASE ~(s.load /\ p.ok)
  <2>1. r = p
    BY <1>5, <1>8
  <2>2. p.ok => ~s.load
    BY <1>8
  <2>3. \A m \in 1..(n + 1) : m \in 1..n \/ m = n + 1
    OBVIOUS
  <2>4. Imaged(p, segments, n + 1)
    BY <1>1, <1>2, <2>2, <2>3 DEF Imaged
  <2> QED
    BY <1>1, <1>4, <2>1, <2>4
<1>9. CASE s.load /\ p.ok /\ ~q.ok
  <2>1. r.areas = p.areas /\ r.end = p.end /\ ~r.ok
    BY <1>5, <1>7, <1>9
  <2>2. Laid(r, limit)
    BY <2>1 DEF Laid
  <2>3. Imaged(r, segments, n + 1)
    BY <1>2, <2>1 DEF Imaged
  <2> QED
    BY <1>1, <1>4, <2>2, <2>3
<1>10. CASE s.load /\ p.ok /\ q.ok
  <2>1. Sane(s)
    BY <1>1, <1>2, <1>10 DEF Separate
  <2>2. /\ Wrap(base + memsz) = base + memsz
        /\ tail = Area("segment", base + filesz, memsz - filesz)
    BY <1>2, <1>3, <1>4, <2>1, SaneParts
  <2>3. base >= SDRAM_BASE /\ filesz <= memsz /\ SDRAM_BASE \in Nat
    BY <1>3, <2>1, Sizes22 DEF Sane
  <2>4. /\ head.base = base /\ head.size = filesz
        /\ tail.base = base + filesz /\ tail.size = memsz - filesz
    BY <1>4, <2>2 DEF Area
  <2>5. /\ r.areas = (p.areas \o Part(head)) \o Part(tail)
        /\ r.end = IF base + memsz > p.end THEN base + memsz ELSE p.end
        /\ base + memsz <= limit
    BY <1>5, <1>7, <1>10, <2>2
  <2>6. p.areas \in Seq(Areas) /\ p.end \in Nat /\ p.end <= limit
    BY DEF Plan, Laid
  <2>7. r.end <= limit /\ r.end >= p.end /\ r.end >= base + memsz /\ r.end \in Nat
    BY <2>5, <2>6
  <2>8. /\ \A i \in 1..Len(r.areas) :
             (\E j \in 1..Len(p.areas) : r.areas[i] = p.areas[j]) \/ r.areas[i] = head \/ r.areas[i] = tail
        /\ Apart(p.areas) /\ ~Overlap(head, tail)
           /\ (\A i \in 1..Len(p.areas) : ~Overlap(p.areas[i], head) /\ ~Overlap(p.areas[i], tail)) => Apart(r.areas)
    <3> DEFINE t == (p.areas \o Part(head)) \o Part(tail)
    <3>1. /\ \A i \in 1..Len(t) : (\E j \in 1..Len(p.areas) : t[i] = p.areas[j]) \/ t[i] = head \/ t[i] = tail
          /\ Apart(p.areas) /\ ~Overlap(head, tail)
             /\ (\A i \in 1..Len(p.areas) : ~Overlap(p.areas[i], head) /\ ~Overlap(p.areas[i], tail)) => Apart(t)
      BY <1>7, <2>6, AddTwo
    <3>2. r.areas = t
      BY <2>5
    <3> HIDE DEF t
    <3> QED
      BY <3>1, <3>2
  <2>9. Within(head, s) /\ Within(tail, s)
    <3>1. head.base >= base /\ head.base + head.size <= base + memsz
      BY <2>3, <2>4
    <3>2. tail.base >= base /\ tail.base + tail.size <= base + memsz
      BY <2>3, <2>4
    <3> QED
      BY <1>3, <1>10, <3>1, <3>2 DEF Within
  <2>10. ~Overlap(head, tail)
    BY <2>3, <2>4 DEF Overlap
  <2>11. ASSUME NEW i \in 1..Len(p.areas) PROVE ~Overlap(p.areas[i], head) /\ ~Overlap(p.areas[i], tail)
    <3>1. PICK m \in 1..n : Within(p.areas[i], segments[m])
      BY DEF Imaged
    <3>2. ~Overlap(Area("", segments[m].paddr, segments[m].memsz), Area("", base, memsz))
      BY <1>1, <1>2, <1>3, <1>10, <3>1 DEF Separate, Within
    <3>3. p.areas[i] \in Areas
      BY <2>6
    <3>4. PICK b \in Nat, l \in Nat, c \in Nat, k \in Nat :
            b = p.areas[i].base /\ l = p.areas[i].size /\ c = segments[m].paddr /\ k = segments[m].memsz
      BY <1>2, <3>1, <3>3 DEF Areas, ElfSegments
    <3>5. ~(c < base + memsz /\ base < c + k)
      BY <3>2, <3>4 DEF Overlap, Area
    <3>6. b >= c /\ b + l <= c + k
      BY <3>1, <3>4 DEF Within
    <3>7. b + l <= base \/ base + memsz <= b
      BY <3>5, <3>6
    <3>8. ~(b < base + filesz /\ base < b + l)
      BY <2>3, <3>7
    <3>9. ~(b < (base + filesz) + (memsz - filesz) /\ base + filesz < b + l)
      BY <2>3, <3>7
    <3> QED
      BY <2>4, <3>4, <3>8, <3>9 DEF Overlap
  <2>12. Apart(r.areas)
    BY <2>8, <2>10, <2>11 DEF Laid
  <2>13. ASSUME NEW i \in 1..Len(r.areas)
         PROVE  /\ r.areas[i].base >= SDRAM_BASE /\ r.areas[i].base + r.areas[i].size <= r.end
                /\ \E m \in 1..(n + 1) : Within(r.areas[i], segments[m])
    <3>1. PICK a : a = r.areas[i]
      OBVIOUS
    <3>2. CASE a = head \/ a = tail
      <4>1. a.base >= base /\ a.base + a.size <= base + memsz /\ a.base \in Nat /\ a.size \in Nat
        <5>1. CASE a = head
          BY <2>3, <2>4, <5>1
        <5>2. CASE a = tail
          BY <2>3, <2>4, <5>2
        <5> QED
          BY <3>2, <5>1, <5>2
      <4>2. a.base >= SDRAM_BASE /\ a.base + a.size <= r.end
        BY <2>3, <2>7, <4>1
      <4>3. Within(a, segments[n + 1]) /\ n + 1 \in 1..(n + 1)
        BY <1>1, <2>9, <3>2
      <4> QED
        BY <3>1, <4>2, <4>3
    <3>3. CASE \E j \in 1..Len(p.areas) : a = p.areas[j]
      <4>1. PICK j \in 1..Len(p.areas) : a = p.areas[j]
        BY <3>3
      <4>2. a \in Areas
        BY <2>6, <4>1
      <4>3. a.base \in Nat /\ a.size \in Nat
        BY <4>2 DEF Areas
      <4>4. a.base >= SDRAM_BASE /\ a.base + a.size <= p.end
        BY <4>1 DEF Laid
      <4>5. \E m \in 1..n : Within(a, segments[m])
        BY <4>1 DEF Imaged
      <4>6. a.base + a.size <= r.end
        BY <2>6, <2>7, <4>3, <4>4
      <4>7. \E m \in 1..(n + 1) : Within(a, segments[m])
        BY <1>2, <4>5
      <4> QED
        BY <3>1, <4>4, <4>6, <4>7
    <3> QED
      BY <2>8, <3>1, <3>2, <3>3
  <2>14. r.end >= SDRAM_BASE
    BY <2>3, <2>7
  <2>15. Laid(r, limit)
    BY <2>7, <2>12, <2>13 DEF Laid
  <2>16. Imaged(r, segments, n + 1)
    BY <2>13, <2>14 DEF Imaged
  <2> QED
    BY <1>1, <1>4, <2>15, <2>16
<1> QED
  BY <1>8, <1>9, <1>10

\* What is known after n program headers.
Imaging(p, segments, n, total) ==
  /\ Plan(p) /\ p.total = total
  /\ Separate(segments) => Laid(p, Limit(total)) /\ Imaged(p, segments, n)

\* Limit: an address.
LEMMA LimitNat ==
  ASSUME NEW total \in Nat
  PROVE  Limit(total) \in Nat
<1>1. total + SDRAM_BASE + 2^22 - STAGE2_CODESIZE \in Int
  BY Sizes22
<1> QED
  BY <1>1, WrapNat DEF Limit

\* load_elf_image: all program headers.
LEMMA ImagePlan ==
  ASSUME NEW k, k.ident \in BOOLEAN, k.segments \in Seq(ElfSegments), NEW total \in Nat
  PROVE  Imaging(load_elf_image(k, total), k.segments, Len(k.segments), total)
<1>1. PICK start : start = [ok |-> k.ident, areas |-> <<>>, end |-> 0, total |-> total]
  OBVIOUS
<1>2. PICK segments \in Seq(ElfSegments) : segments = k.segments
  OBVIOUS
<1>3. PICK g : ImageSteps(g, start, segments)
  BY ImageFold
<1>4. load_elf_image(k, total) = ImageFrom(start, segments)
  BY <1>1, <1>2 DEF load_elf_image, ImageFrom, ImageStep, FoldLeft, MapThenFoldSet
<1> DEFINE I == {n \in Nat : n <= Len(segments) => Imaging(g[n], segments, n, total)}
<1>5. 0 \in I
  <2>1. /\ Record(start, {"ok", "areas", "end", "total"})
        /\ start.areas = <<>> /\ start.end = 0 /\ start.total = total
    BY <1>1 DEF Record
  <2>2. start.ok \in BOOLEAN
    BY <1>1
  <2>3. Plan(start)
    BY <2>1, <2>2 DEF Plan
  <2>4. Laid(start, Limit(total))
    BY <2>1, LimitNat DEF Laid, Apart
  <2>5. Imaged(start, segments, 0)
    BY <2>1 DEF Imaged
  <2> QED
    BY <1>3, <2>1, <2>3, <2>4, <2>5 DEF Imaging, ImageSteps
<1>6. ASSUME NEW n \in Nat, n \in I PROVE n + 1 \in I
  <2> SUFFICES ASSUME n + 1 <= Len(segments) PROVE Imaging(g[n + 1], segments, n + 1, total)
    OBVIOUS
  <2>1. Len(segments) \in Nat /\ n <= Len(segments) /\ n + 1 \in 1..Len(segments) /\ (n + 1) - 1 = n
        /\ segments[n + 1] \in ElfSegments
    OBVIOUS
  <2>2. PICK p : p = g[n]
    OBVIOUS
  <2>3. g[n + 1] = ImageStep(p, segments[n + 1])
    BY <1>3, <2>1, <2>2 DEF ImageSteps
  <2>4. Imaging(p, segments, n, total)
    BY <1>6, <2>1, <2>2
  <2>5. Plan(p) /\ p.total = total
    BY <2>4 DEF Imaging
  <2>6. Plan(ImageStep(p, segments[n + 1])) /\ ImageStep(p, segments[n + 1]).total = p.total
    BY <2>1, <2>5, ImageStepPlan DEF Stepped
  <2>7. Separate(segments) =>
          Laid(ImageStep(p, segments[n + 1]), Limit(total)) /\ Imaged(ImageStep(p, segments[n + 1]), segments, n + 1)
    BY <2>4, <2>5, ImageStepLaid DEF Imaging
  <2> QED
    BY <2>3, <2>5, <2>6, <2>7 DEF Imaging
<1> HIDE DEF I
<1>7. Len(segments) \in I
  BY <1>5, <1>6, Upwards
<1> QED
  BY <1>2, <1>3, <1>4, <1>7 DEF I, ImageSteps

\* ALIGN: the next multiple of 4 KB, where that does not wrap.
LEMMA AlignOf ==
  ASSUME NEW a \in Nat
  PROVE  /\ ALIGN(a) \in Nat
         /\ a + 4 < 2^22 => a <= ALIGN(a) /\ ALIGN(a) <= a + 3
<1>1. PICK b \in Nat : b = ((a + 3) \div 4) * 4
  OBVIOUS
<1>2. a <= b /\ b <= a + 3
  BY <1>1
<1>3. ALIGN(a) = Wrap(b) /\ 2^22 \in Nat
  BY <1>1, Sizes22 DEF ALIGN
<1>4. Wrap(b) \in Nat /\ (b < 2^22 => Wrap(b) = b)
  BY WrapNat
<1> QED
  BY <1>2, <1>3, <1>4

\* Something to start is loaded when nothing went wrong.
Loaded(p, limit) == Laid(p, limit) /\ (p.ok => p.end >= SDRAM_BASE)

\* An area behind all others.
LEMMA Stacked ==
  ASSUME NEW p, Plan(p), NEW limit \in Nat, Laid(p, limit), p.end >= SDRAM_BASE,
         NEW a \in Areas, a.base >= p.end, a.base + a.size <= limit,
         NEW q, q.areas = p.areas \o Part(a), q.end = a.base + a.size
  PROVE  Loaded(q, limit)
<1>1. PICK s \in Seq(Areas) : s = p.areas
  BY DEF Plan
<1>2. PICK t : t = s \o Part(a) /\ t = q.areas
  BY <1>1
<1>3. PICK end \in Nat, base \in Nat, size \in Nat : end = p.end /\ base = a.base /\ size = a.size
  BY DEF Plan, Areas
<1>4. SDRAM_BASE \in Nat /\ end >= SDRAM_BASE /\ base >= end /\ base + size <= limit /\ q.end = base + size
  BY <1>3, Sizes22
<1>5. \A i \in 1..Len(s) : s[i].base \in Nat /\ s[i].size \in Nat /\ s[i].base >= SDRAM_BASE /\ s[i].base + s[i].size <= end
  <2> SUFFICES ASSUME NEW i \in 1..Len(s)
               PROVE  s[i].base \in Nat /\ s[i].size \in Nat /\ s[i].base >= SDRAM_BASE /\ s[i].base + s[i].size <= end
    OBVIOUS
  <2>1. s[i] \in Areas
    BY <1>1
  <2>2. s[i].base \in Nat /\ s[i].size \in Nat
    BY <2>1 DEF Areas
  <2> QED
    BY <1>1, <1>3, <2>2 DEF Laid
<1>6. \A i \in 1..Len(s) : ~Overlap(s[i], a)
  <2> SUFFICES ASSUME NEW i \in 1..Len(s) PROVE ~(a.base < s[i].base + s[i].size)
    BY DEF Overlap
  <2>1. PICK b \in Nat, z \in Nat : b = s[i].base /\ z = s[i].size
    BY <1>5
  <2>2. b + z <= end
    BY <1>5, <2>1
  <2>3. ~(base < b + z)
    BY <1>4, <2>2
  <2> QED
    BY <1>3, <2>1, <2>3
<1>7. Apart(s)
  BY <1>1 DEF Laid
<1>8. Apart(t)
  BY <1>2, <1>6, <1>7, AddApart
<1>9. \A i \in 1..Len(t) : (i \in 1..Len(s) /\ t[i] = s[i]) \/ (i = Len(s) + 1 /\ t[i] = a)
  <2>1. Grown(s, a, t)
    BY <1>2, AddPart
  <2> QED
    BY <2>1 DEF Grown
<1>10. \A i \in 1..Len(t) : t[i].base >= SDRAM_BASE /\ t[i].base + t[i].size <= base + size
  <2> SUFFICES ASSUME NEW i \in 1..Len(t) PROVE t[i].base >= SDRAM_BASE /\ t[i].base + t[i].size <= base + size
    OBVIOUS
  <2>1. CASE t[i] = a
    BY <1>3, <1>4, <2>1
  <2>2. CASE i \in 1..Len(s) /\ t[i] = s[i]
    <3>1. s[i].base \in Nat /\ s[i].size \in Nat /\ s[i].base >= SDRAM_BASE /\ s[i].base + s[i].size <= end
      BY <1>5, <2>2
    <3> QED
      BY <1>4, <2>2, <3>1
  <2> QED
    BY <1>9, <2>1, <2>2
<1>11. q.end >= SDRAM_BASE
  BY <1>4
<1>12. Laid(q, limit)
  BY <1>2, <1>4, <1>8, <1>10 DEF Laid
<1> QED
  BY <1>11, <1>12 DEF Loaded

\* What follows the image: q is p with one more area, or nothing more.
Followed(p, q, what) ==
  /\ Plan(q) /\ q.total = p.total /\ (q.ok => p.ok)
  /\ \A i \in 1..Len(p.areas) : i \in 1..Len(q.areas) /\ q.areas[i] = p.areas[i]
  /\ q.ok /\ what # "initrd" => \E i \in 1..Len(q.areas) : q.areas[i].what = what

\* load_args and load_trampoline: behind what was loaded, or not at all.
LEMMA BehindOf ==
  ASSUME NEW p, Plan(p), NEW what \in Names, NEW size \in Nat \ {0},
         NEW q, q = load_segment(p, what, ALIGN(p.end), size, size)
  PROVE  /\ Followed(p, q, what)
         /\ Loaded(p, Limit(p.total)) /\ Limit(p.total) + 4 + size < 2^22 => Loaded(q, Limit(p.total))
<1>1. PICK limit \in Nat, end \in Nat, base \in Nat : limit = Limit(p.total) /\ end = p.end /\ base = ALIGN(p.end)
  BY LimitNat, AlignOf DEF Plan
<1>2. PICK head, tail : head = Area(what, base, size) /\ tail = Area(what, Wrap(base + size), Wrap(size + 2^22 - size))
  OBVIOUS
<1>3. Segmented(p, q, base + size, head, tail)
  BY <1>1, <1>2, SegmentOf
<1>4. /\ head \in Areas /\ tail \in Areas /\ Plan(q) /\ q.total = p.total
      /\ ~q.ok => q.areas = p.areas /\ q.end = p.end
      /\ q.ok => p.ok
      /\ q.ok => Wrap(base + size) <= Limit(p.total)
      /\ q.ok => q.end = Wrap(base + size) /\ q.areas = (p.areas \o Part(head)) \o Part(tail)
  BY <1>3 DEF Segmented
<1>5. Wrap(size + 2^22 - size) = 0
  <2>1. 2^22 \in Nat /\ 0 < 2^22
    BY SMT
  <2>2. size + 2^22 - size = 0 + 2^22
    BY <2>1
  <2> QED
    BY <2>1, <2>2, WrapNat
<1>6. tail.size = 0 /\ head.what = what /\ head.base = base /\ head.size = size
  BY <1>2, <1>5 DEF Area
<1>7. Part(tail) = <<>>
  BY <1>4, <1>6, PartOf
<1>8. PICK s \in Seq(Areas) : s = p.areas
  BY DEF Plan
<1>9. PICK t : t = s \o Part(head)
  OBVIOUS
<1>10. /\ t \in Seq(Areas) /\ \A i \in 1..Len(s) : i \in 1..Len(t) /\ t[i] = s[i]
       /\ t[Len(s) + 1] = head /\ Len(s) + 1 \in 1..Len(t)
  <2>1. head.size > 0
    BY <1>6
  <2>2. head \in Areas
    BY <1>4
  <2>3. t \in Seq(Areas)
    BY <1>9, <2>2, AddPart
  <2>4. \A i \in 1..Len(s) : i \in 1..Len(t) /\ t[i] = s[i]
    BY <1>9, <2>2, AddPart
  <2>5. t[Len(s) + 1] = head /\ Len(s) + 1 \in 1..Len(t)
    BY <1>9, <2>1, <2>2, PartAdded
  <2> QED
    BY <2>3, <2>4, <2>5
<1>11. q.ok => q.areas = t
  <2>1. t \o <<>> = t
    BY <1>10
  <2> QED
    BY <1>4, <1>7, <1>8, <1>9, <2>1
<1>12. Followed(p, q, what)
  <2>1. CASE q.ok
    BY <1>4, <1>6, <1>8, <1>10, <1>11, <2>1 DEF Followed
  <2>2. CASE ~q.ok
    BY <1>4, <2>2 DEF Followed
  <2> QED
    BY <2>1, <2>2
<1>13. ASSUME Loaded(p, limit), limit + 4 + size < 2^22 PROVE Loaded(q, limit)
  <2>1. CASE ~q.ok
    BY <1>4, <1>13, <2>1 DEF Loaded, Laid
  <2>2. CASE q.ok
    <3>1. p.ok /\ Laid(p, limit) /\ p.end >= SDRAM_BASE
      BY <1>4, <1>13, <2>2 DEF Loaded
    <3>2. end <= limit /\ 2^22 \in Nat
      BY <1>1, <3>1, Sizes22 DEF Laid
    <3>3. end <= base /\ base <= end + 3
      <4>1. end + 4 < 2^22 /\ base = ALIGN(end)
        BY <1>1, <1>13, <3>2
      <4> QED
        BY <4>1, AlignOf
    <3>4. base + size < 2^22
      BY <1>13, <3>2, <3>3
    <3>5. Wrap(base + size) = base + size
      BY <3>4, WrapNat
    <3>6. q.areas = p.areas \o Part(head) /\ q.end = head.base + head.size /\ head.base + head.size <= limit
      BY <1>1, <1>4, <1>6, <1>8, <1>9, <1>11, <2>2, <3>5
    <3>7. head.base >= p.end
      BY <1>1, <1>6, <3>3
    <3> QED
      BY <1>4, <3>1, <3>6, <3>7, Stacked
  <2> QED
    BY <2>1, <2>2
<1> QED
  BY <1>1, <1>12, <1>13

\* load_initrd: behind the image, or not at all.
LEMMA InitrdOf ==
  ASSUME NEW p, Plan(p), NEW size \in Nat, NEW q, q = load_initrd(p, size)
  PROVE  /\ Followed(p, q, "initrd")
         /\ Loaded(p, Limit(p.total)) /\ Limit(p.total) + 4 + size < 2^22 => Loaded(q, Limit(p.total))
<1>1. PICK limit \in Nat, end \in Nat, base \in Nat : limit = Limit(p.total) /\ end = p.end /\ base = ALIGN(p.end)
  BY LimitNat, AlignOf DEF Plan
<1>2. PICK a, top : a = Area("initrd", base, size) /\ top = Wrap(base + size)
  OBVIOUS
<1>3. q = IF ~p.ok \/ size = 0 THEN p
          ELSE IF top > limit THEN [p EXCEPT !.ok = FALSE]
          ELSE [p EXCEPT !.areas = Append(@, a), !.end = top]
  BY <1>1, <1>2 DEF load_initrd
<1>4. /\ Record(p, {"ok", "areas", "end", "total"})
      /\ p.ok \in BOOLEAN /\ p.areas \in Seq(Areas) /\ p.end \in Nat /\ p.total \in Nat
  BY DEF Plan
<1>5. a \in Areas /\ a.base = base /\ a.size = size /\ top \in Nat
  BY <1>2, WrapNat DEF Area, Areas, Names
<1>6. CASE ~p.ok \/ size = 0
  <2>1. q = p
    BY <1>3, <1>6
  <2> QED
    BY <2>1, <1>4 DEF Followed
<1>7. CASE ~(~p.ok \/ size = 0) /\ top > limit
  <2>1. q = [p EXCEPT !.ok = FALSE]
    BY <1>3, <1>7
  <2>2. /\ Record(q, {"ok", "areas", "end", "total"})
        /\ q.ok = FALSE /\ q.areas = p.areas /\ q.end = p.end /\ q.total = p.total
    BY <1>4, <2>1 DEF Record
  <2>3. Followed(p, q, "initrd")
    BY <1>4, <2>2 DEF Followed, Plan
  <2>4. Loaded(p, Limit(p.total)) => Loaded(q, Limit(p.total))
    BY <2>2 DEF Loaded, Laid
  <2> QED
    BY <2>3, <2>4
<1>8. CASE ~(~p.ok \/ size = 0) /\ ~(top > limit)
  <2>1. q = [p EXCEPT !.areas = Append(p.areas, a), !.end = top]
    BY <1>3, <1>8
  <2>2. Append(p.areas, a) = p.areas \o Part(a)
    <3>1. Part(a) = <<a>>
      BY <1>5, <1>8, PartOf
    <3>2. \A s \in Seq(Areas) : Append(s, a) = s \o <<a>>
      BY <1>5, AppendIsConcat
    <3> QED
      BY <1>4, <3>1, <3>2
  <2>3. PICK t : t = p.areas \o Part(a)
    OBVIOUS
  <2>4. /\ Record(q, {"ok", "areas", "end", "total"}) /\ q.areas = t /\ q.end = top /\ q.total = p.total
    BY <1>4, <2>1, <2>2, <2>3 DEF Record
  <2>5. q.ok = p.ok
    BY <1>4, <2>1 DEF Record
  <2>6. t \in Seq(Areas) /\ \A i \in 1..Len(p.areas) : i \in 1..Len(t) /\ t[i] = p.areas[i]
    <3>1. PICK s \in Seq(Areas) : s = p.areas
      BY <1>4
    <3>2. t = s \o Part(a)
      BY <2>3, <3>1
    <3>3. a \in Areas
      BY <1>5
    <3>4. t \in Seq(Areas)
      BY <3>2, <3>3, AddPart
    <3>5. \A i \in 1..Len(s) : i \in 1..Len(t) /\ t[i] = s[i]
      BY <3>2, <3>3, AddPart
    <3> QED
      BY <3>1, <3>4, <3>5
  <2>7. Plan(q)
    BY <1>4, <1>5, <2>4, <2>5, <2>6 DEF Plan
  <2>8. Followed(p, q, "initrd")
    BY <2>4, <2>5, <2>6, <2>7 DEF Followed
  <2>9. ASSUME Loaded(p, limit), limit + 4 + size < 2^22 PROVE Loaded(q, limit)
    <3>1. Laid(p, limit) /\ p.end >= SDRAM_BASE
      BY <1>8, <2>9 DEF Loaded
    <3>2. end <= limit /\ 2^22 \in Nat
      BY <1>1, <3>1, Sizes22 DEF Laid
    <3>3. end + 4 < 2^22 /\ base = ALIGN(end)
      BY <1>1, <2>9, <3>2
    <3>4. end <= base /\ base <= end + 3
      BY <3>3, AlignOf
    <3>5. base + size < 2^22
      BY <2>9, <3>2, <3>4
    <3>6. top = base + size
      BY <1>2, <3>5, WrapNat
    <3>7. q.areas = p.areas \o Part(a) /\ q.end = a.base + a.size /\ a.base + a.size <= limit /\ a.base >= p.end
      BY <1>1, <1>5, <1>8, <2>3, <2>4, <3>4, <3>6
    <3> QED
      BY <1>5, <3>1, <3>7, Stacked
  <2> QED
    BY <1>1, <2>8, <2>9
<1> QED
  BY <1>6, <1>7, <1>8

\* load_elf: the kernel, all of it, in memory below stage 2.
THEOREM ElfPlan ==
  ASSUME NEW k, k.ident \in BOOLEAN, k.segments \in Seq(ElfSegments), k.initrd \in Nat, k.args \in Nat \ {0},
         NEW total \in Nat, NEW p, p = load_elf(k, total)
  PROVE  /\ p.ok \in BOOLEAN /\ p.areas \in Seq(Areas)
         /\ WellFormed(k, Limit(total)) =>
              /\ Disjoint(p.areas, Limit(total))
              /\ p.ok => {"args", "trampoline"} \subseteq {p.areas[i].what : i \in DOMAIN p.areas}
<1>1. PICK a, b, c, segments :
        /\ a = load_elf_image(k, total) /\ b = load_initrd(a, k.initrd) /\ c = load_args(b, k.args)
        /\ segments = k.segments
  OBVIOUS
<1>2. p = load_trampoline(c)
  BY <1>1 DEF load_elf
<1>3. Plan(a) /\ a.total = total
      /\ (Separate(segments) => Laid(a, Limit(total)) /\ Imaged(a, segments, Len(segments)))
  BY <1>1, ImagePlan DEF Imaging
<1>4. /\ Followed(a, b, "initrd")
      /\ Loaded(a, Limit(total)) /\ Limit(total) + 4 + k.initrd < 2^22 => Loaded(b, Limit(total))
  BY <1>1, <1>3, InitrdOf
<1>5. Plan(b) /\ b.total = total
  BY <1>3, <1>4 DEF Followed
<1>6. "args" \in Names /\ "trampoline" \in Names /\ 1 \in Nat \ {0}
  BY DEF Names
<1>7. /\ Followed(b, c, "args")
      /\ Loaded(b, Limit(total)) /\ Limit(total) + 4 + k.args < 2^22 => Loaded(c, Limit(total))
  BY <1>1, <1>5, <1>6, BehindOf DEF load_args
<1>8. Plan(c) /\ c.total = total
  BY <1>5, <1>7 DEF Followed
<1>9. /\ Followed(c, p, "trampoline")
      /\ Loaded(c, Limit(total)) /\ Limit(total) + 4 + 1 < 2^22 => Loaded(p, Limit(total))
  BY <1>2, <1>6, <1>8, BehindOf DEF load_trampoline
<1>10. p.ok \in BOOLEAN /\ p.areas \in Seq(Areas)
  BY <1>9 DEF Followed, Plan
<1>11. ASSUME WellFormed(k, Limit(total))
       PROVE  /\ Disjoint(p.areas, Limit(total))
              /\ p.ok => {"args", "trampoline"} \subseteq {p.areas[i].what : i \in DOMAIN p.areas}
  <2>1. DOMAIN segments = 1..Len(segments)
    BY <1>1
  <2>2. Separate(segments) /\ \E i \in 1..Len(segments) : segments[i].load
    BY <1>1, <1>11, <2>1 DEF WellFormed, Separate
  <2>3. Limit(total) + 4 + k.initrd < 2^22 /\ Limit(total) + 4 + k.args < 2^22
    BY <1>11 DEF WellFormed
  <2>4. Limit(total) + 4 + 1 < 2^22
    <3>1. PICK limit \in Nat, n \in Nat : limit = Limit(total) /\ n = k.args /\ n # 0
      BY LimitNat
    <3> QED
      BY <2>3, <3>1, Sizes22
  <2>5. Loaded(a, Limit(total))
    BY <1>3, <2>2 DEF Loaded, Imaged
  <2>6. Loaded(p, Limit(total))
    BY <1>4, <1>7, <1>9, <2>3, <2>4, <2>5
  <2>7. DOMAIN p.areas = 1..Len(p.areas)
    BY <1>10
  <2>8. Disjoint(p.areas, Limit(total))
    <3>1. PICK end \in Nat, limit \in Nat : end = p.end /\ limit = Limit(total)
      BY <1>9, LimitNat DEF Followed, Plan
    <3>2. end <= limit /\ Apart(p.areas)
      BY <2>6, <3>1 DEF Loaded, Laid
    <3>3. ASSUME NEW i \in 1..Len(p.areas) PROVE p.areas[i].base >= SDRAM_BASE /\ p.areas[i].base + p.areas[i].size <= limit
      <4>1. p.areas[i] \in Areas
        BY <1>10
      <4>2. p.areas[i].base \in Nat /\ p.areas[i].size \in Nat
        BY <4>1 DEF Areas
      <4>3. p.areas[i].base >= SDRAM_BASE /\ p.areas[i].base + p.areas[i].size <= end
        BY <2>6, <3>1 DEF Loaded, Laid
      <4> QED
        BY <3>2, <4>2, <4>3
    <3> QED
      BY <2>7, <3>1, <3>2, <3>3 DEF Disjoint, Apart
  <2>9. ASSUME p.ok PROVE {"args", "trampoline"} \subseteq {p.areas[i].what : i \in DOMAIN p.areas}
    <3>1. c.ok /\ (\E i \in 1..Len(p.areas) : p.areas[i].what = "trampoline")
      BY <1>9, <2>9 DEF Followed
    <3>2. PICK i \in 1..Len(c.areas) : c.areas[i].what = "args"
      BY <1>7, <3>1 DEF Followed
    <3>3. i \in 1..Len(p.areas) /\ p.areas[i].what = "args"
      BY <1>9, <3>2 DEF Followed
    <3> QED
      BY <2>7, <3>1, <3>3
  <2> QED
    BY <2>8, <2>9
<1> QED
  BY <1>10, <1>11

(* A failure unwinds the stack *********************************************)


\* No line or script on the stack catches a failure: none was started by a
\* `safe', and there is no prompt below.
Uncaught(frames) ==
  \A i \in 1..Len(frames) : frames[i].kind # "prompt" /\ (frames[i].kind = "line" => ~frames[i].safe)

\* main starts with an empty stack and returns with one; a failure nobody
\* catches is on its way through the stack, or main has returned 1.
Unwinding ==
  /\ session.kind \in {"-c", "-b", "prompt"}
  /\ \E F : stack \in Seq(F)
  /\ mustStop \in BOOLEAN
  /\ phase \in {"start", "config", "main", "quit"}
  /\ phase \in {"start", "quit"} => stack = <<>>
  /\ phase = "start" => ~mustStop /\ result = "none"
  /\ mustStop =>
       /\ Uncaught(stack)
       /\ \/ phase \in {"config", "main"} /\ result = "fail"
          \/ phase = "quit" /\ ret = 1

\* Front of a sequence.
LEMMA FrontOf ==
  ASSUME NEW F, NEW s \in Seq(F), s # <<>>
  PROVE  /\ Front(s) \in Seq(F) /\ Len(Front(s)) = Len(s) - 1
         /\ \A i \in 1..Len(Front(s)) : i \in 1..Len(s) /\ Front(s)[i] = s[i]
         /\ Last(s) = s[Len(s)] /\ Len(s) \in 1..Len(s) /\ Len(s) \in Nat
<1>1. Len(s) \in Nat /\ Len(s) >= 1
  OBVIOUS
<1>2. Front(s) = SubSeq(s, 1, Len(s) - 1) /\ Last(s) = s[Len(s)]
  BY DEF Front, Last
<1>3. PICK n : n = Len(s) - 1 /\ n \in Nat
  BY <1>1
<1>4. 1 \in Int /\ n \in Int /\ \A i \in 1..n : s[i] \in F
  BY <1>1, <1>3
<1>5. /\ SubSeq(s, 1, n) \in Seq(F) /\ Len(SubSeq(s, 1, n)) = IF 1 <= n THEN n - 1 + 1 ELSE 0
      /\ \A i \in 1..(n - 1 + 1) : SubSeq(s, 1, n)[i] = s[1 + i - 1]
  BY ONLY <1>4, SubSeqProperties
<1>6. Len(SubSeq(s, 1, n)) = n /\ \A i \in 1..n : SubSeq(s, 1, n)[i] = s[i]
  BY <1>3, <1>5
<1> QED
  BY <1>1, <1>2, <1>3, <1>5, <1>6

\* A stack with its innermost frame replaced, or one more put on, is a stack.
LEMMA Stacks ==
  ASSUME NEW F, stack \in Seq(F), NEW f
  PROVE  /\ \E G : Append(stack, f) \in Seq(G)
         /\ stack # <<>> => (\E G : Front(stack) \in Seq(G)) /\ (\E G : Replace(f) \in Seq(G))
<1>1. \A s \in Seq(F) : Append(s, f) \in Seq(F \cup {f})
  OBVIOUS
<1>2. stack # <<>> => Front(stack) \in Seq(F)
  BY FrontOf
<1> QED
  BY <1>1, <1>2 DEF Replace

\* A failure outside `safe' with nobody on the stack to catch it ends the frame.
LEMMA StopUnwinds ==
  ASSUME Unwinding, NEW frame, ~mustStop, stack # <<>>, phase \in {"config", "main"}, NEW safe \in BOOLEAN,
         frame.safe = safe, Continue(frame, "fail"), Stop(safe)
  PROVE  /\ \E F : stack' \in Seq(F)
         /\ mustStop' \in BOOLEAN
         /\ mustStop' => Uncaught(stack') /\ result' = "fail"
<1>1. PICK F : stack \in Seq(F)
  BY DEF Unwinding
<1>2. stack' \in {Front(stack), Replace([frame EXCEPT !.safe = FALSE])}
  BY DEF Continue
<1>3. \E G : stack' \in Seq(G)
  BY <1>1, <1>2, Stacks
<1>4. mustStop' \in BOOLEAN
  BY DEF Stop, Unwinding
<1>5. ASSUME mustStop' PROVE Uncaught(stack') /\ result' = "fail"
  <2>1. ~safe /\ \A i \in DOMAIN stack : stack[i].kind # "prompt" /\ (stack[i].kind = "line" => ~stack[i].safe)
    BY <1>5 DEF Stop
  <2>2. DOMAIN stack = 1..Len(stack)
    BY <1>1
  <2>3. stack' = Front(stack) /\ result' = "fail"
    BY <2>1 DEF Continue
  <2> QED
    BY <1>1, <2>1, <2>2, <2>3, FrontOf DEF Uncaught
<1> QED
  BY <1>3, <1>4, <1>5

\* A command that succeeds leaves the rest of the line.
LEMMA ContinueStacks ==
  ASSUME NEW F, stack \in Seq(F), stack # <<>>, NEW frame, NEW outcome, Continue(frame, outcome)
  PROVE  \E G : stack' \in Seq(G)
  BY Stacks DEF Continue

\* The commands of a line run only while nothing unwinds; a failing one may
\* start it.
LEMMA RunUnwinds ==
  ASSUME Unwinding, shell_run
  PROVE  Unwinding' /\ ~mustStop
<1>1. Running("line") /\ UNCHANGED <<session, phase, ret>> /\ stack # <<>> /\ result = "none"
  BY DEF shell_run, Running
<1>2. ~mustStop /\ phase \in {"config", "main"} /\ mustStop = FALSE
  BY <1>1 DEF Unwinding
<1>3. PICK argv, frame :
        /\ frame = [Top EXCEPT !.cmds = Tail(@), !.safe = Safe(argv)]
        /\ Rejected(frame, argv) \/ builtin_source(frame, argv) \/ Handled(frame, argv)
  BY DEF shell_run
<1>4. PICK F : stack \in Seq(F)
  BY DEF Unwinding
<1>5. Safe(argv) \in BOOLEAN
  BY DEF Safe
<1>6. /\ \E G : stack' \in Seq(G)
      /\ mustStop' \in BOOLEAN
      /\ mustStop' => Uncaught(stack') /\ result' = "fail"
  <2>1. CASE Continue(frame, "fail") /\ Stop(Safe(argv))
    <3>1. CASE frame.safe = Safe(argv)
      BY <1>1, <1>2, <1>5, <2>1, <3>1, StopUnwinds
    <3> QED
      BY <1>3, <3>1
  <2>2. CASE mustStop' = mustStop /\ \E outcome : Continue(frame, outcome)
    BY <1>1, <1>2, <1>4, <2>2, ContinueStacks
  <2>3. ASSUME NEW name, stack' = Append(Replace(frame), Script(name)), mustStop' = mustStop
        PROVE  \E G : stack' \in Seq(G)
    <3>1. PICK G : Replace(frame) \in Seq(G)
      BY <1>1, <1>4, Stacks
    <3>2. Append(Replace(frame), Script(name)) \in Seq(G \cup {Script(name)})
      BY <3>1
    <3> QED
      BY <2>3, <3>2
  <2>4. CASE Rejected(frame, argv)
    BY <2>1, <2>4 DEF Rejected
  <2>5. CASE builtin_source(frame, argv)
    BY <1>2, <2>1, <2>3, <2>5 DEF builtin_source
  <2>6. CASE Handled(frame, argv)
    BY <1>2, <2>1, <2>2, <2>6 DEF Handled
  <2> QED
    BY <1>3, <2>4, <2>5, <2>6
<1> QED
  BY <1>1, <1>2, <1>6 DEF Unwinding

\* So does the end of a line, which may find a malformed one.
LEMMA EndOfLineUnwinds ==
  ASSUME Unwinding, EndOfLine
  PROVE  Unwinding' /\ ~mustStop
<1>1. UNCHANGED <<session, phase, ret>> /\ stack # <<>> /\ result = "none"
  BY DEF EndOfLine, Running
<1>2. ~mustStop /\ phase \in {"config", "main"} /\ mustStop = FALSE
  BY <1>1 DEF Unwinding
<1>3. PICK F : stack \in Seq(F)
  BY DEF Unwinding
<1>4. \E G : stack' \in Seq(G)
  BY <1>1, <1>3, Stacks DEF EndOfLine
<1>5. mustStop' \in BOOLEAN
  BY <1>2 DEF EndOfLine, Stop
<1>6. ASSUME mustStop' PROVE Uncaught(stack') /\ result' = "fail"
  <2>1. stack' = Front(stack) /\ result' = "fail" /\ Stop(FALSE)
    BY <1>2, <1>6 DEF EndOfLine
  <2>2. \A i \in DOMAIN stack : stack[i].kind # "prompt" /\ (stack[i].kind = "line" => ~stack[i].safe)
    BY <1>2, <1>6, <2>1 DEF Stop
  <2>3. DOMAIN stack = 1..Len(stack)
    BY <1>3
  <2> QED
    BY <1>1, <1>3, <2>1, <2>2, <2>3, FrontOf DEF Uncaught
<1> QED
  BY <1>1, <1>2, <1>4, <1>5, <1>6 DEF Unwinding

\* An uncaught failure goes one frame down.
LEMMA ReturnedUnwinds ==
  ASSUME Unwinding, Returned
  PROVE  Unwinding'
<1>1. UNCHANGED <<session, phase, ret, mustStop>> /\ stack # <<>> /\ result # "none"
  BY DEF Returned
<1>2. phase \in {"config", "main"}
  BY <1>1 DEF Unwinding
<1>3. PICK F : stack \in Seq(F)
  BY DEF Unwinding
<1>4. \E G : stack' \in Seq(G)
  BY <1>1, <1>3, Stacks, ContinueStacks DEF Returned
<1>5. ASSUME mustStop PROVE Uncaught(stack') /\ result' = "fail"
  <2>1. Uncaught(stack) /\ result = "fail"
    BY <1>2, <1>5 DEF Unwinding
  <2>2. Top.kind # "prompt" /\ (Top.kind = "line" => ~Top.safe)
    <3>1. Top = stack[Len(stack)] /\ Len(stack) \in 1..Len(stack)
      BY <1>1, <1>3, FrontOf DEF Top
    <3> QED
      BY <2>1, <3>1 DEF Uncaught
  <2>3. stack' = Front(stack) /\ result' = "fail"
    BY <2>1, <2>2 DEF Returned, Continue
  <2> QED
    BY <1>1, <1>3, <2>1, <2>3, FrontOf DEF Uncaught
<1> QED
  BY <1>1, <1>2, <1>4, <1>5 DEF Unwinding

\* A line of a script, or one that is typed, is put on the stack.
LEMMA PushStacks ==
  ASSUME NEW F, NEW frames \in Seq(F), NEW tokens
  PROVE  \E G : shell_execute(frames, tokens) \in Seq(G)
<1> DEFINE new == [i \in DOMAIN frames |-> IF frames[i].kind = "line" THEN [frames[i] EXCEPT !.stale = TRUE]
                                           ELSE frames[i]]
           G == {new[i] : i \in DOMAIN frames}
<1>1. DOMAIN frames = 1..Len(frames) /\ Len(frames) \in Nat
  OBVIOUS
<1>2. new \in [1..Len(frames) -> G]
  BY <1>1
<1> HIDE DEF new, G
<1>3. new \in Seq(G)
  <2>1. new \in UNION {[1..n -> G] : n \in Nat}
    BY <1>1, <1>2
  <2> QED
    BY <2>1, SeqDef
<1>4. Append(new, Line(tokens)) \in Seq(G \cup {Line(tokens)})
  BY <1>3
<1> QED
  BY <1>4 DEF shell_execute, new

\* Scripts and the prompt take a next line only while nothing unwinds.
LEMMA SourceUnwinds ==
  ASSUME Unwinding, shell_source \/ shell_interactive
  PROVE  Unwinding' /\ ~mustStop
<1>1. UNCHANGED <<session, phase, ret, mustStop>> /\ stack # <<>> /\ result = "none"
  BY DEF shell_source, shell_interactive, Running
<1>2. ~mustStop /\ phase \in {"config", "main"} /\ mustStop = FALSE
  BY <1>1 DEF Unwinding
<1>3. PICK F : stack \in Seq(F)
  BY DEF Unwinding
<1>4. \E G : stack' \in Seq(G)
  <2>1. CASE stack' = Front(stack)
    BY <1>1, <1>3, <2>1, Stacks
  <2>2. CASE \E line \in Typed : stack' = shell_execute(stack, line)
    BY <1>3, <2>2, PushStacks
  <2>3. ASSUME NEW frame, NEW line, stack' = shell_execute(Replace(frame), line) PROVE \E G : stack' \in Seq(G)
    <3>1. PICK G : Replace(frame) \in Seq(G)
      BY <1>1, <1>3, Stacks
    <3> QED
      BY <2>3, <3>1, PushStacks
  <2> QED
    BY <2>1, <2>2, <2>3 DEF shell_source, shell_interactive
<1> QED
  BY <1>1, <1>2, <1>4 DEF Unwinding

\* main goes on after a configuration that went well, or returns 1.
LEMMA MainUnwinds ==
  ASSUME Unwinding, OpenFails \/ Open \/ Choose \/ Finish
  PROVE  Unwinding'
<1>1. UNCHANGED mustStop /\ phase \in {"start", "config", "main"} /\ stack = <<>>
  BY DEF Unwinding, OpenFails, Open, Choose, Finish
<1>2. \A f : <<f>> \in Seq({f})
  OBVIOUS
<1>3. <<>> \in Seq({})
  OBVIOUS
<1>4. CASE OpenFails
  BY <1>1, <1>3, <1>4 DEF OpenFails, Leave, Unwinding
<1>5. CASE Open
  <2>1. ~mustStop /\ result = "none" /\ UNCHANGED session
    BY <1>5 DEF Open, Unwinding
  <2>2. \/ phase' = "config" /\ stack' = <<Script(session.config)>>
        \/ phase' = "config" /\ stack' = stack
        \/ phase' = "quit" /\ stack' = stack
    BY <1>5 DEF Open, Leave
  <2>3. \E G : stack' \in Seq(G)
    BY <1>1, <1>2, <1>3, <2>2
  <2> QED
    BY <1>1, <2>1, <2>2, <2>3 DEF Unwinding
<1>6. CASE Choose
  <2>1. CASE Leave(1)
    BY <1>1, <1>3, <1>6, <2>1 DEF Leave, Unwinding, Choose
  <2>2. CASE /\ result = "ok" /\ (session.kind = "-b" => session.script \in DOMAIN Scripts)
        /\ phase' = "main" /\ result' = "none" /\ UNCHANGED ret
        /\ stack' = CASE session.kind = "-c" -> <<Line(session.cmd)>>
                      [] session.kind = "-b" -> <<Script(session.script)>>
                      [] session.kind = "prompt" -> <<Prompt>>
    <3>1. ~mustStop
      BY <1>1, <1>6, <2>2 DEF Unwinding, Choose
    <3>2. \E G : stack' \in Seq(G)
      BY <1>2, <2>2 DEF Unwinding
    <3> QED
      BY <1>1, <1>6, <2>2, <3>1, <3>2 DEF Choose, Unwinding
  <2> QED
    BY <1>6, <2>1, <2>2 DEF Choose
<1>7. CASE Finish
  BY <1>1, <1>3, <1>7 DEF Finish, Leave, Unwinding
<1> QED
  BY <1>4, <1>5, <1>6, <1>7

\* Every step keeps the stack unwinding.
LEMMA NextUnwinds ==
  ASSUME Unwinding, [Next]_vars
  PROVE  Unwinding'
<1>1. CASE Unplug \/ UNCHANGED vars
  <2>1. UNCHANGED <<session, stack, mustStop, phase, result, ret>>
    BY <1>1 DEF Unplug, vars
  <2>2. Uncaught(stack') <=> Uncaught(stack)
    BY <2>1
  <2> QED
    BY <2>1, <2>2 DEF Unwinding
<1> QED
  BY <1>1, RunUnwinds, EndOfLineUnwinds, ReturnedUnwinds, SourceUnwinds, MainUnwinds DEF Next

\* A failure that nobody catches is always on its way through the stack to
\* main, or main has returned 1.
THEOREM FailureUnwinds == Spec => []Unwinding
<1>1. Init => Unwinding
  <2>1. <<>> \in Seq({})
    OBVIOUS
  <2> QED
    BY <2>1, SessionAssumption DEF Init, Unwinding
<1>2. Unwinding /\ [Next]_vars => Unwinding'
  BY NextUnwinds
<1> QED
  BY <1>1, <1>2, PTL DEF Spec

\* Once a command failed that neither `safe' nor a prompt catches, however deep
\* in sourced scripts and whatever the scripts are, no step changes the
\* configuration or the device, and main returns 1.
THEOREM BatchStops == Spec => BatchStopsAtFailure
<1> DEFINE Step == mustStop => /\ UNCHANGED <<set_cmds, env, handle>>
                               /\ dev' \in {dev, [dev EXCEPT !.on = FALSE]}
                               /\ phase' = "quit" => ret' = 1
<1>1. Unwinding /\ Unwinding' /\ [Next]_vars => [Step]_vars
  <2> SUFFICES ASSUME Unwinding, Unwinding', Next, mustStop PROVE Step
    OBVIOUS
  <2>1. mustStop' => (phase' = "quit" => ret' = 1)
    BY DEF Unwinding
  <2>2. phase # "start"
    BY DEF Unwinding
  <2>3. ~shell_run /\ ~EndOfLine /\ ~shell_source /\ ~shell_interactive /\ ~OpenFails /\ ~Open
    BY <2>2, RunUnwinds, EndOfLineUnwinds, SourceUnwinds DEF OpenFails, Open
  <2>4. CASE Choose \/ Finish \/ Returned
    BY <2>1, <2>4 DEF Choose, Finish, Returned, world
  <2>5. CASE Unplug
    BY <2>1, <2>5 DEF Unplug
  <2> QED
    BY <2>3, <2>4, <2>5 DEF Next
<1> QED
  BY <1>1, FailureUnwinds, PTL DEF Spec, BatchStopsAtFailure

(* The world a command works on ********************************************)

\* The fields of what a command works on.
Shaped(w) ==
  /\ Record(w, {"set_cmds", "env", "handle", "dev"})
  /\ Record(w.handle, {"type", "cpu_id", "cfg", "nand", "total", "torn"})
  /\ Record(w.dev, {"on", "mode", "sdram", "place", "bulk", "mem", "data", "sound", "conf", "lost"})

\* CommandsMatchDevice, where f says whether a request failed.
Matched(w, f) ==
  /\ w.set_cmds = w.handle.type
  /\ w.set_cmds = "USBBoot" => w.dev.mode # "rom"
  /\ w.set_cmds = "SPL" /\ w.dev.mode = "stage2" => f

\* A configuration that was built to the end is complete, and total_sdram_size is the
\* memory it describes.
Built(w) ==
  /\ w.handle.total \in Nat /\ DOMAIN w.handle.cfg = Range(FwOptions)
  /\ ~w.handle.torn =>
       /\ w.handle.cpu_id /\ \A o \in Range(FwOptions) : w.handle.cfg[o] \in Nat
       /\ w.handle.total = Wrap(SdramSize(w.handle.cfg))

\* KernelIntact; data that stage 2 was not told to take is left by a failed request only.
Intact(w, f) ==
  /\ w.dev.place \in Nat /\ w.dev.mem \in Seq(Areas) /\ (w.dev.bulk # "empty" => f)
  /\ w.dev.sound =>
       /\ w.dev.mode = "overwritten" => Last(w.dev.mem).what = "file"
       /\ w.dev.mode = "kernel" =>
            /\ Disjoint(w.dev.mem, w.dev.place)
            /\ {"args", "trampoline"} \subseteq {w.dev.mem[i].what : i \in DOMAIN w.dev.mem}
            /\ w.dev.data \/ f

World(w, f) == Shaped(w) /\ Matched(w, f) /\ Built(w) /\ w.dev.lost # "no memory" /\ Intact(w, f)

\* What a library function may return when it is called in a world that is in order.
Fine(o, f) == IF o.fault THEN o.rc = -1 /\ World(o.w, TRUE) ELSE World(o.w, f)

\* A failed request excuses more.
LEMMA Excused ==
  ASSUME NEW w, NEW f \in BOOLEAN, World(w, f), NEW g \in BOOLEAN, f => g
  PROVE  World(w, g)
  BY DEF World, Matched, Intact

\* A request that succeeds, is refused or fails without having done anything.
LEMMA OutcomesFine ==
  ASSUME NEW w, NEW f \in BOOLEAN, World(w, f)
  PROVE  Fine(Ok(w), f) /\ Fine(Err(w), f) /\ Fine(Fault(w), f)
<1>1. World(w, TRUE)
  BY Excused
<1>3. /\ Ok(w).w = w /\ Ok(w).rc = 0 /\ Ok(w).fault = FALSE
      /\ Err(w).w = w /\ Err(w).rc = -1 /\ Err(w).fault = FALSE
      /\ Fault(w).w = w /\ Fault(w).rc = -1 /\ Fault(w).fault = TRUE
  BY DEF Ok, Err, Fault
<1> QED
  BY <1>1, <1>3 DEF Fine

\* A request that fails excuses itself.
LEMMA FaultFine ==
  ASSUME NEW w, NEW f \in BOOLEAN, World(w, TRUE)
  PROVE  Fine(Fault(w), f)
<1>3. Fault(w).w = w /\ Fault(w).rc = -1 /\ Fault(w).fault = TRUE
  BY DEF Fault
<1> QED
  BY <1>3 DEF Fine

\* usbdev: a request is fine when what it does to the device is.
LEMMA UsbdevFine ==
  ASSUME NEW w, NEW f \in BOOLEAN, World(w, f), NEW after,
         \A x \in after : Answers(w) => World(x, f)
  PROVE  \A o \in usbdev(w, after) : Fine(o, f)
<1> SUFFICES ASSUME NEW o \in usbdev(w, after) PROVE Fine(o, f)
  OBVIOUS
<1>1. CASE ~Answers(w)
  BY <1>1, OutcomesFine DEF usbdev
<1>2. CASE Answers(w)
  <2>1. (\E x \in after : o = Ok(x)) \/ (\E x \in {w} \cup after : o = Fault(x))
    BY <1>2 DEF usbdev
  <2> QED
    BY <1>2, <2>1, OutcomesFine
<1> QED
  BY <1>1, <1>2

\* One field of the device changed.
LEMMA ModeShape ==
  ASSUME NEW w, Shaped(w), NEW m
  PROVE  LET x == Mode(w, m) IN
         /\ Shaped(x) /\ x.set_cmds = w.set_cmds /\ x.env = w.env /\ x.handle = w.handle
         /\ x.dev = [w.dev EXCEPT !.mode = m]
  BY DEF Shaped, Record, Mode

\* The same, for what became of the device.
LostAs(x, w, m) ==
  /\ Shaped(x) /\ x.set_cmds = w.set_cmds /\ x.env = w.env /\ x.handle = w.handle
  /\ x.dev = [w.dev EXCEPT !.lost = m]
LEMMA LostShape ==
  ASSUME NEW w, Shaped(w), NEW m
  PROVE  LostAs([w EXCEPT !.dev.lost = m], w, m)
  BY DEF Shaped, Record, LostAs

\* A program that ran without usable memory.
LEMMA GoneWorld ==
  ASSUME NEW w, NEW f \in BOOLEAN, World(w, f),
         w.dev.mode = "stage2" \/ w.handle.torn \/ ~Usable(SdramSize(w.handle.cfg))
  PROVE  World(Gone(w), f) /\ Gone(w).handle = w.handle /\ Gone(w).dev.mode = "gone"
<1> DEFINE y == Mode(w, "gone")
           why == CASE w.dev.mode = "stage2" -> "left" [] w.handle.torn -> "half"
                    [] ~Usable(SdramSize(w.handle.cfg)) -> "unusable"
                    [] OTHER -> "no memory"
           x == [y EXCEPT !.dev.lost = why]
<1>1. why # "no memory"
  OBVIOUS
<1>2. Gone(w) = x
  BY DEF Gone
<1>3. Shaped(w)
  BY DEF World
<1>4. Shaped(y) /\ y.set_cmds = w.set_cmds /\ y.handle = w.handle /\ y.dev = [w.dev EXCEPT !.mode = "gone"]
  BY <1>3, ModeShape
<1> HIDE DEF y, why
<1>a. Shaped(y) /\ x = [y EXCEPT !.dev.lost = why]
  BY <1>4
<1>5. Shaped(x) /\ x.set_cmds = y.set_cmds /\ x.handle = y.handle /\ x.dev = [y.dev EXCEPT !.lost = why]
  <2>1. LostAs(x, y, why)
    BY <1>a, LostShape
  <2> QED
    BY <2>1 DEF LostAs
<1> HIDE DEF x
<1>6. /\ x.dev.mode = "gone" /\ x.dev.place = w.dev.place /\ x.dev.mem = w.dev.mem
      /\ x.dev.bulk = w.dev.bulk /\ x.dev.lost = why
  BY <1>3, <1>4, <1>5 DEF Shaped, Record
<1>7. Matched(x, f)
  BY <1>4, <1>5, <1>6 DEF World, Matched
<1>8. Built(x)
  BY <1>4, <1>5 DEF World, Built
<1>9. Intact(x, f)
  BY <1>6 DEF World, Intact
<1> QED
  BY <1>1, <1>2, <1>4, <1>5, <1>6, <1>7, <1>8, <1>9 DEF World

\* RunStage1: once stage 1 has run with a whole configuration, the memory it set up is
\* the one that configuration describes.
LEMMA RunStage1World ==
  ASSUME NEW w, NEW f \in BOOLEAN, World(w, f), w.dev.mode = "stage2" => f, NEW op,
         w.dev.mode \in {"rom", "stage2"}
  PROVE  \A x \in RunStage1(w, op) :
           /\ World(x, f) /\ x.handle = w.handle
           /\ op # "gpio" /\ x.dev.mode = "rom" /\ ~w.handle.torn => x.dev.sdram = SdramSize(w.handle.cfg)
<1> SUFFICES ASSUME NEW x \in RunStage1(w, op)
             PROVE  /\ World(x, f) /\ x.handle = w.handle
                    /\ op # "gpio" /\ x.dev.mode = "rom" /\ ~w.handle.torn => x.dev.sdram = SdramSize(w.handle.cfg)
  OBVIOUS
<1>1. Shaped(w)
  BY DEF World
<1>2. CASE w.dev.mode = "stage2"
  <2>1. x = [w EXCEPT !.dev.bulk = "left"]
    BY <1>2 DEF RunStage1
  <2>2. Shaped(x) /\ x.set_cmds = w.set_cmds /\ x.handle = w.handle /\ x.dev = [w.dev EXCEPT !.bulk = "left"]
    BY <1>1, <2>1 DEF Shaped, Record
  <2>3. /\ x.dev.mode = w.dev.mode /\ x.dev.place = w.dev.place /\ x.dev.mem = w.dev.mem
        /\ x.dev.lost = w.dev.lost /\ x.dev.sound = w.dev.sound /\ x.dev.data = w.dev.data
    BY <1>1, <2>2 DEF Shaped, Record
  <2> QED
    BY <1>2, <2>2, <2>3 DEF World, Matched, Built, Intact
<1>3. CASE w.dev.mode # "stage2" /\ (op = "gpio" \/ ~w.handle.cpu_id)
  <2>1. x = w
    BY <1>3 DEF RunStage1
  <2>2. op = "gpio" \/ w.handle.torn
    BY <1>3 DEF World, Built
  <2> QED
    BY <2>1, <2>2
<1>4. CASE w.dev.mode # "stage2" /\ ~(op = "gpio" \/ ~w.handle.cpu_id)
           /\ \E o \in DOMAIN w.handle.cfg : w.handle.cfg[o] = Junk
  <2>1. x \in {w, Gone(w)}
    BY <1>4 DEF RunStage1
  <2>2. w.handle.torn
    <3> SUFFICES ASSUME ~w.handle.torn PROVE FALSE
      OBVIOUS
    <3>1. PICK o \in DOMAIN w.handle.cfg : w.handle.cfg[o] = -1
      BY <1>4 DEF Junk
    <3>2. w.handle.cfg[o] \in Nat
      BY <3>1 DEF World, Built
    <3> QED
      BY <3>1, <3>2
  <2> QED
    BY <2>1, <2>2, GoneWorld
<1>5. CASE w.dev.mode # "stage2" /\ ~(op = "gpio" \/ ~w.handle.cpu_id)
           /\ ~\E o \in DOMAIN w.handle.cfg : w.handle.cfg[o] = Junk
  <2>1. x = [w EXCEPT !.dev.sdram = SdramSize(w.handle.cfg)]
    BY <1>5 DEF RunStage1
  <2> DEFINE size == SdramSize(w.handle.cfg)
  <2> HIDE DEF size
  <2>2. Shaped(x) /\ x.set_cmds = w.set_cmds /\ x.handle = w.handle /\ x.dev = [w.dev EXCEPT !.sdram = size]
    BY <1>1, <2>1 DEF Shaped, Record, size
  <2>3. /\ x.dev.mode = w.dev.mode /\ x.dev.place = w.dev.place /\ x.dev.mem = w.dev.mem
        /\ x.dev.lost = w.dev.lost /\ x.dev.sound = w.dev.sound /\ x.dev.data = w.dev.data
        /\ x.dev.bulk = w.dev.bulk /\ x.dev.sdram = size
    BY <1>1, <2>2 DEF Shaped, Record
  <2>4. World(x, f)
    BY <2>2, <2>3 DEF World, Matched, Built, Intact
  <2> QED
    BY <2>2, <2>3, <2>4 DEF size
<1> QED
  BY <1>2, <1>3, <1>4, <1>5

\* Where stage 2 is put when the memory is size long.
LEMMA LimitOf ==
  ASSUME NEW size \in Int
  PROVE  /\ Wrap(size) \in Nat /\ Limit(size) \in Nat
         /\ Usable(size) => Wrap(size) = size /\ Limit(size) = SDRAM_BASE + size - STAGE2_CODESIZE
                            /\ Limit(size) >= SDRAM_BASE
<1>1. 2^22 = 4194304 /\ 2^21 = 2097152
  OBVIOUS
<1> QED
  BY <1>1 DEF Wrap, Limit, Usable, SDRAM_BASE, STAGE2_CODESIZE

\* SdramSize of a complete configuration is a number.
LEMMA SizeInt ==
  ASSUME NEW cfg, \A o \in Range(FwOptions) : cfg[o] \in Nat
  PROVE  SdramSize(cfg) \in Int
<1>1. /\ FwOptions[4] = "SDRAM_BUSWIDTH" /\ FwOptions[5] = "SDRAM_BANKS" /\ FwOptions[6] = "SDRAM_ROWADDR"
      /\ DOMAIN FwOptions = 1..6
  BY DEF FwOptions
<1>2. {"SDRAM_BUSWIDTH", "SDRAM_BANKS", "SDRAM_ROWADDR"} \subseteq Range(FwOptions)
  BY <1>1 DEF Range
<1>3. cfg["SDRAM_BUSWIDTH"] \in Nat /\ cfg["SDRAM_BANKS"] \in Nat /\ cfg["SDRAM_ROWADDR"] \in Nat
  BY <1>2
<1>4. ASSUME NEW a \in Int, NEW b \in Nat, NEW c \in Nat PROVE a * (b \div 4 + 1) * 2 * (c \div 16) \in Int
  OBVIOUS
<1>5. cfg["SDRAM_ROWADDR"] % 256 \in Nat /\ cfg["SDRAM_BANKS"] % 256 \in Nat
  BY <1>3
<1>6. 2^(cfg["SDRAM_ROWADDR"] % 256) \in Int
  BY <1>5
<1> QED
  BY <1>3, <1>4, <1>5, <1>6 DEF SdramSize
\* Stage 2 in its place.
Placed(x, w, base) ==
  /\ Shaped(x) /\ x.set_cmds = w.set_cmds /\ x.handle = w.handle
  /\ x.dev = [w.dev EXCEPT !.mode = "stage2", !.place = base, !.bulk = "empty"]
LEMMA PlacedShape ==
  ASSUME NEW w, Shaped(w), NEW base, NEW x,
         x = [w EXCEPT !.dev.mode = "stage2", !.dev.place = base, !.dev.bulk = "empty"]
  PROVE  Placed(x, w, base)
<1>1. PICK d : d = [w.dev EXCEPT !.mode = "stage2", !.place = base, !.bulk = "empty"]
  OBVIOUS
<1>a. Record(w, {"set_cmds", "env", "handle", "dev"})
  BY DEF Shaped
<1>b. Record(w.dev, {"on", "mode", "sdram", "place", "bulk", "mem", "data", "sound", "conf", "lost"})
  BY DEF Shaped
<1>2. x = [w EXCEPT !.dev = d]
  BY <1>1, <1>a DEF Record
<1>c. x.set_cmds = w.set_cmds /\ x.handle = w.handle /\ x.dev = d
  BY <1>2, <1>a DEF Record
<1>3. Record(x, {"set_cmds", "env", "handle", "dev"})
  BY <1>2, <1>a DEF Record
<1>4. Record(d, {"on", "mode", "sdram", "place", "bulk", "mem", "data", "sound", "conf", "lost"})
  BY <1>1, <1>b DEF Record
<1> QED
  BY <1>1, <1>c, <1>3, <1>4 DEF Shaped, Placed

\* RunStage2: stage 2 finds memory where the host puts it, provided stage 1 set up
\* what handle->total_sdram_size says.
LEMMA RunStage2World ==
  ASSUME NEW w, NEW f \in BOOLEAN, World(w, f), w.dev.on, w.dev.mode \in {"rom", "stage2"},
         w.dev.mode = "rom" /\ ~w.handle.torn => w.dev.sdram = SdramSize(w.handle.cfg)
  PROVE  \A x \in RunStage2(w) : World(x, TRUE) /\ Intact(x, f) /\ (Answers(x) \/ World(x, f))
<1> SUFFICES ASSUME NEW x \in RunStage2(w) PROVE World(x, TRUE) /\ Intact(x, f) /\ (Answers(x) \/ World(x, f))
  OBVIOUS
<1> DEFINE base == Limit(w.handle.total)
           good == w.dev.mode = "rom" /\ base >= SDRAM_BASE /\ base + STAGE2_CODESIZE <= SDRAM_BASE + w.dev.sdram
<1>1. CASE ~good
  <2>1. x = Gone(w)
    BY <1>1 DEF RunStage2
  <2>2. w.dev.mode = "stage2" \/ w.handle.torn \/ ~Usable(SdramSize(w.handle.cfg))
    <3> SUFFICES ASSUME w.dev.mode = "rom", ~w.handle.torn, Usable(SdramSize(w.handle.cfg)) PROVE FALSE
      OBVIOUS
    <3> DEFINE size == SdramSize(w.handle.cfg)
    <3>1. size \in Int
      BY SizeInt DEF World, Built
    <3>2. w.handle.total = Wrap(size) /\ w.dev.sdram = size
      BY DEF World, Built
    <3> HIDE DEF size
    <3>3. w.handle.total = size /\ base = SDRAM_BASE + size - STAGE2_CODESIZE /\ base >= SDRAM_BASE
      BY <3>1, <3>2, LimitOf DEF size
    <3> HIDE DEF base
    <3>4. base + STAGE2_CODESIZE <= SDRAM_BASE + w.dev.sdram
      BY <3>1, <3>2, <3>3 DEF SDRAM_BASE, STAGE2_CODESIZE
    <3> QED
      BY <1>1, <3>3, <3>4
  <2>3. World(x, f)
    BY <2>1, <2>2, GoneWorld
  <2> QED
    BY <2>3, Excused DEF World
<1>2. CASE good
  <2>1. x = [w EXCEPT !.dev.mode = "stage2", !.dev.place = base, !.dev.bulk = "empty"]
    BY <1>2 DEF RunStage2
  <2>2. w.handle.total \in Nat /\ Shaped(w)
    BY DEF World, Built
  <2>3. base \in Nat
    BY <2>2, LimitOf
  <2> HIDE DEF base, good
  <2>4. Shaped(x) /\ x.set_cmds = w.set_cmds /\ x.handle = w.handle
        /\ x.dev = [w.dev EXCEPT !.mode = "stage2", !.place = base, !.bulk = "empty"]
    <3>1. Placed(x, w, base)
      BY <2>1, <2>2, PlacedShape
    <3> QED
      BY <3>1 DEF Placed
  <2>5. /\ x.dev.mode = "stage2" /\ x.dev.place = base /\ x.dev.mem = w.dev.mem /\ x.dev.on = w.dev.on
        /\ x.dev.lost = w.dev.lost /\ x.dev.bulk = "empty"
    <3>1. PICK d, e : /\ d = w.dev /\ e = x.dev
                      /\ e = [d EXCEPT !.mode = "stage2", !.place = base, !.bulk = "empty"]
      BY <2>4
    <3>2. Record(d, {"on", "mode", "sdram", "place", "bulk", "mem", "data", "sound", "conf", "lost"})
      BY <2>2, <3>1 DEF Shaped
    <3>3. e.mode = "stage2" /\ e.place = base /\ e.mem = d.mem /\ e.lost = d.lost /\ e.bulk = "empty"
      BY <3>1, <3>2 DEF Record
    <3>4. e.on = d.on
      BY <3>1, <3>2 DEF Record
    <3> QED
      BY <3>1, <3>3, <3>4
  <2>6. Intact(x, f) /\ Intact(x, TRUE)
    BY <2>3, <2>5 DEF World, Intact
  <2>7. Matched(x, TRUE) /\ Answers(x)
    BY <2>4, <2>5 DEF World, Matched, Answers
  <2>8. Built(x)
    BY <2>4 DEF World, Built
  <2> QED
    BY <2>4, <2>5, <2>6, <2>7, <2>8 DEF World
<1> QED
  BY <1>1, <1>2

\* ingenic_redetect: afterwards the shell offers the commands of what was found.
LEMMA RedetectFine ==
  ASSUME NEW w, NEW f \in BOOLEAN, World(w, TRUE), Intact(w, f), Answers(w) \/ World(w, f)
  PROVE  \A o \in ingenic_redetect(w) : Fine(o, f)
<1> SUFFICES ASSUME NEW o \in ingenic_redetect(w) PROVE Fine(o, f)
  OBVIOUS
<1> DEFINE type == ingenic_probe(w)
           told == [w EXCEPT !.handle.type = type,
                             !.set_cmds = IF type # w.handle.type THEN type ELSE @]
<1>1. CASE ~Answers(w)
  BY <1>1, OutcomesFine DEF ingenic_redetect
<1>2. CASE o = Fault(w)
  BY <1>2, FaultFine
<1>3. CASE Answers(w) /\ o = Ok(told)
  <2>1. type = IF w.dev.mode = "rom" THEN "SPL" ELSE "USBBoot"
    BY DEF ingenic_probe
  <2>2. Shaped(w) /\ w.set_cmds = w.handle.type
    BY DEF World, Matched
  <2> HIDE DEF type
  <2>3. PICK y : y = [w EXCEPT !.handle.type = type]
    OBVIOUS
  <2>4. Shaped(y) /\ y.handle = [w.handle EXCEPT !.type = type] /\ y.dev = w.dev /\ y.set_cmds = w.set_cmds
    BY <2>2, <2>3 DEF Shaped, Record
  <2>5. told = [y EXCEPT !.set_cmds = type]
    BY <2>2, <2>3, <2>4
  <2>6. Shaped(told) /\ told.handle = y.handle /\ told.dev = y.dev /\ told.set_cmds = type
    <3> HIDE DEF told
    <3> QED
      BY <2>4, <2>5 DEF Shaped, Record
  <2> HIDE DEF told
  <2>7. /\ told.handle.type = type /\ told.handle.cpu_id = w.handle.cpu_id /\ told.handle.cfg = w.handle.cfg
        /\ told.handle.total = w.handle.total /\ told.handle.torn = w.handle.torn
    BY <2>2, <2>4, <2>6 DEF Shaped, Record
  <2>8. Matched(told, f)
    BY <2>1, <2>4, <2>6, <2>7 DEF Matched
  <2>9. Built(told)
    BY <2>7 DEF World, Built
  <2>10. Intact(told, f)
    BY <2>4, <2>6 DEF Intact
  <2> QED
    BY <1>3, <2>4, <2>6, <2>8, <2>9, <2>10, OutcomesFine DEF World
<1> QED
  BY <1>1, <1>2, <1>3 DEF ingenic_redetect

\* What was read of the configuration, and what was not.
LEMMA FilledWhole ==
  ASSUME NEW old, DOMAIN old = Range(FwOptions), NEW e
  PROVE  /\ DOMAIN Filled(old, e, FwOptions) = Range(FwOptions)
         /\ Read(e, FwOptions) = Len(FwOptions) =>
              \A o \in Range(FwOptions) : Filled(old, e, FwOptions)[o] \in Nat
<1>1. ASSUME NEW o \in Range(FwOptions), Read(e, FwOptions) = Len(FwOptions)
      PROVE  Filled(old, e, FwOptions)[o] \in Nat
  <2>1. PICK i \in DOMAIN FwOptions : FwOptions[i] = o
    BY DEF Range
  <2>2. DOMAIN FwOptions = 1..Len(FwOptions)
    BY DEF FwOptions
  <2>3. Filled(old, e, FwOptions)[o] = atoi(e[o])
    BY <1>1, <2>1, <2>2 DEF Filled
  <2> QED
    BY <2>3, NumbersAssumption DEF atoi
<1> QED
  BY <1>1 DEF Filled

\* ingenic_rebuild: the configuration is torn, or total_sdram_size is that of the new one.
LEMMA RebuildFine ==
  ASSUME NEW w, NEW f \in BOOLEAN, World(w, f)
  PROVE  \A o \in ingenic_rebuild(w) : Fine(o, f)
<1> DEFINE fw == Filled(w.handle.cfg, w.env, FwOptions)
           complete == Read(w.env, FwOptions) = Len(FwOptions)
           half == [w EXCEPT !.handle.cpu_id = TRUE, !.handle.cfg = fw, !.handle.torn = TRUE]
           whole == [half EXCEPT !.handle.total = Wrap(SdramSize(fw)), !.handle.torn = FALSE,
                                 !.handle.nand = Filled(@, w.env, NandOptions)]
           total == Wrap(SdramSize(fw))
<1>1. /\ ~complete => ingenic_rebuild(w) = {Err(half)}
      /\ complete => ingenic_rebuild(w) \in {{Ok(whole)}, {Err(whole)}}
  <2>1. ingenic_rebuild(w) =
          IF ~complete THEN {Err(half)}
          ELSE IF Read(w.env, NandOptions) = Len(NandOptions) THEN {Ok(whole)} ELSE {Err(whole)}
    BY DEF ingenic_rebuild
  <2> HIDE DEF complete, half, whole
  <2> QED
    BY <2>1
<1>2. Shaped(w) /\ DOMAIN w.handle.cfg = Range(FwOptions) /\ w.handle.total \in Nat
  BY DEF World, Built
<1>3. DOMAIN fw = Range(FwOptions) /\ (complete => \A o \in Range(FwOptions) : fw[o] \in Nat)
  BY <1>2, FilledWhole
<1>4. complete => total \in Nat
  BY <1>3, SizeInt, LimitOf
<1> HIDE DEF fw, complete
<1>5. /\ Shaped(half) /\ half.set_cmds = w.set_cmds /\ half.dev = w.dev
      /\ half.handle.type = w.handle.type /\ half.handle.cfg = fw
      /\ half.handle.total = w.handle.total /\ half.handle.cpu_id = TRUE /\ half.handle.torn = TRUE
  <2>1. PICK h : h = [w.handle EXCEPT !.cpu_id = TRUE, !.cfg = fw, !.torn = TRUE]
    OBVIOUS
  <2>2. half.set_cmds = w.set_cmds /\ half.dev = w.dev /\ half.handle = h
    BY <1>2, <2>1 DEF Shaped, Record
  <2>3. Record(half, {"set_cmds", "env", "handle", "dev"})
    BY <1>2 DEF Shaped, Record
  <2> HIDE DEF half
  <2>4. Record(h, {"type", "cpu_id", "cfg", "nand", "total", "torn"})
    BY <1>2, <2>1 DEF Shaped, Record
  <2>5. h.type = w.handle.type /\ h.cfg = fw /\ h.total = w.handle.total
    BY <1>2, <2>1 DEF Shaped, Record
  <2>6. h.cpu_id = TRUE /\ h.torn = TRUE
    BY <1>2, <2>1 DEF Shaped, Record
  <2>7. Shaped(half)
    BY <1>2, <2>2, <2>3, <2>4 DEF Shaped
  <2> QED
    BY <2>2, <2>5, <2>6, <2>7
<1> HIDE DEF half
<1>6. Built(half)
  BY <1>2, <1>3, <1>5 DEF Built
<1>7. Matched(half, f)
  <2>1. half.set_cmds = w.set_cmds /\ half.dev = w.dev /\ half.handle.type = w.handle.type
    BY <1>5
  <2> QED
    BY <2>1 DEF World, Matched
<1>8. Intact(half, f) /\ half.dev.lost # "no memory"
  BY <1>5 DEF World, Intact
<1>9. World(half, f)
  BY <1>5, <1>6, <1>7, <1>8 DEF World
<1>10. /\ Shaped(whole) /\ whole.set_cmds = half.set_cmds /\ whole.dev = half.dev
       /\ whole.handle.type = half.handle.type /\ whole.handle.cfg = half.handle.cfg
       /\ whole.handle.total = total /\ whole.handle.cpu_id = half.handle.cpu_id /\ whole.handle.torn = FALSE
  <2>1. PICK nand, h : /\ nand = Filled(half.handle.nand, w.env, NandOptions)
                       /\ h = [half.handle EXCEPT !.total = total, !.torn = FALSE, !.nand = nand]
    OBVIOUS
  <2> HIDE DEF total
  <2>2. whole = [half EXCEPT !.handle.total = total, !.handle.torn = FALSE, !.handle.nand = nand]
    BY <1>5, <2>1 DEF Shaped, Record, total
  <2> HIDE DEF whole
  <2>3. whole.set_cmds = half.set_cmds /\ whole.dev = half.dev /\ whole.handle = h
    <3>1. Record(half, {"set_cmds", "env", "handle", "dev"})
      BY <1>5 DEF Shaped
    <3> QED
      BY <2>1, <2>2, <3>1 DEF Record
  <2>4. Record(whole, {"set_cmds", "env", "handle", "dev"})
    <3>1. Record(half, {"set_cmds", "env", "handle", "dev"})
      BY <1>5 DEF Shaped
    <3> QED
      BY <2>2, <3>1 DEF Record
  <2>5. PICK g : g = half.handle
    OBVIOUS
  <2>6. Record(g, {"type", "cpu_id", "cfg", "nand", "total", "torn"})
    BY <1>5, <2>5 DEF Shaped
  <2>7. h = [g EXCEPT !.total = total, !.torn = FALSE, !.nand = nand]
    BY <2>1, <2>5
  <2>8. Record(h, {"type", "cpu_id", "cfg", "nand", "total", "torn"})
    BY <2>6, <2>7 DEF Record
  <2>9. h.type = half.handle.type /\ h.cfg = half.handle.cfg /\ h.total = total
    BY <2>5, <2>6, <2>7 DEF Record
  <2>10. h.cpu_id = half.handle.cpu_id /\ h.torn = FALSE
    BY <2>5, <2>6, <2>7 DEF Record
  <2>11. Shaped(whole)
    BY <1>5, <2>3, <2>4, <2>8 DEF Shaped
  <2> QED
    BY <2>3, <2>9, <2>10, <2>11
<1> HIDE DEF whole
<1>11. complete => Built(whole)
  BY <1>3, <1>4, <1>5, <1>10 DEF Built
<1>12. Matched(whole, f)
  <2>1. whole.set_cmds = half.set_cmds /\ whole.dev = half.dev /\ whole.handle.type = half.handle.type
    BY <1>10
  <2> QED
    BY <1>7, <2>1 DEF Matched
<1>13. Intact(whole, f) /\ whole.dev.lost # "no memory"
  BY <1>8, <1>10 DEF Intact
<1>14. complete => World(whole, f)
  BY <1>10, <1>11, <1>12, <1>13 DEF World
<1> QED
  BY <1>1, <1>9, <1>14, OutcomesFine

\* ingenic_loadstage1 from the command set of the boot ROM.
LEMMA Loadstage1Fine ==
  ASSUME NEW w, NEW f \in BOOLEAN, World(w, f), w.set_cmds = "SPL", NEW op
  PROVE  \A o \in ingenic_loadstage1(w, op) :
           /\ Fine(o, f)
           /\ op # "gpio" /\ o.rc = 0 =>
                /\ World(o.w, f)
                /\ o.w.dev.mode = "rom" /\ ~o.w.handle.torn => o.w.dev.sdram = SdramSize(o.w.handle.cfg)
<1>1. Answers(w) => /\ w.dev.mode \in {"rom", "stage2"}
                    /\ w.dev.mode = "stage2" => f
  BY DEF Answers, World, Matched
<1>2. \A x \in RunStage1(w, op) : Answers(w) => World(x, f)
  BY <1>1, RunStage1World
<1>3. \A o \in usbdev(w, RunStage1(w, op)) : Fine(o, f)
  BY <1>2, UsbdevFine
<1> SUFFICES ASSUME NEW o \in ingenic_loadstage1(w, op)
             PROVE  /\ Fine(o, f)
                    /\ op # "gpio" /\ o.rc = 0 =>
                        /\ World(o.w, f)
                        /\ o.w.dev.mode = "rom" /\ ~o.w.handle.torn => o.w.dev.sdram = SdramSize(o.w.handle.cfg)
  OBVIOUS
<1>4. Err(w).rc = -1 /\ \A x : Fault(x).rc = -1 /\ Ok(x).w = x
  BY DEF Err, Fault, Ok
<1>5. CASE o = Err(w)
  BY <1>4, <1>5, OutcomesFine
<1>6. CASE Answers(w) /\ o \in usbdev(w, RunStage1(w, op))
  <2>1. o.rc = 0 => \E x \in RunStage1(w, op) : o.w = x
    BY <1>4, <1>6 DEF usbdev
  <2> QED
    BY <1>1, <1>3, <1>6, <2>1, RunStage1World
<1> QED
  BY <1>5, <1>6 DEF ingenic_loadstage1, usbdev

\* ingenic_loadstage2, with the redetection at its end.
LEMMA Loadstage2Fine ==
  ASSUME NEW w, NEW f \in BOOLEAN, World(w, f),
         w.dev.mode = "rom" /\ ~w.handle.torn => w.dev.sdram = SdramSize(w.handle.cfg)
  PROVE  \A o \in ingenic_loadstage2(w) : Fine(o, f)
<1> SUFFICES ASSUME NEW o \in ingenic_loadstage2(w) PROVE Fine(o, f)
  OBVIOUS
<1>1. CASE o = Err(w)
  BY <1>1, OutcomesFine
<1>2. CASE o \in Then(usbdev(w, RunStage2(w)), ingenic_redetect) /\ Answers(w)
  <2>1. w.dev.on /\ w.dev.mode \in {"rom", "stage2"}
    BY <1>2 DEF Answers
  <2>2. \A x \in RunStage2(w) : World(x, TRUE) /\ Intact(x, f) /\ (Answers(x) \/ World(x, f))
    BY <2>1, RunStage2World
  <2>3. PICK q \in usbdev(w, RunStage2(w)) : o \in IF q.rc = 0 THEN ingenic_redetect(q.w) ELSE {q}
    BY <1>2 DEF Then
  <2>4. (\E x \in RunStage2(w) : q = Ok(x)) \/ (\E x \in {w} \cup RunStage2(w) : q = Fault(x))
    BY <1>2, <2>3 DEF usbdev
  <2>5. CASE \E x \in RunStage2(w) : q = Ok(x)
    <3>1. PICK x \in RunStage2(w) : q = Ok(x)
      BY <2>5
    <3>2. q.rc = 0 /\ q.w = x
      BY <3>1 DEF Ok
    <3>3. o \in ingenic_redetect(x)
      BY <2>3, <3>2
    <3> QED
      BY <2>2, <3>1, <3>3, RedetectFine
  <2>6. CASE \E x \in {w} \cup RunStage2(w) : q = Fault(x)
    <3>1. PICK x \in {w} \cup RunStage2(w) : q = Fault(x)
      BY <2>6
    <3>2. q.rc = -1
      BY <3>1 DEF Fault
    <3>3. o = Fault(x)
      BY <2>3, <3>1, <3>2
    <3>4. World(x, TRUE)
      BY <2>2, <3>1, Excused
    <3> QED
      BY <3>3, <3>4, FaultFine
  <2> QED
    BY <2>4, <2>5, <2>6
<1>3. CASE o \in Then({Err(w)}, ingenic_redetect)
  <2>1. o = Err(w)
    BY <1>3 DEF Then, Err
  <2> QED
    BY <2>1, OutcomesFine
<1> QED
  BY <1>1, <1>2, <1>3 DEF ingenic_loadstage2, usbdev

\* Data left in stage 2's buffer by a request that failed.
LEMMA LeftFine ==
  ASSUME NEW w, NEW f \in BOOLEAN, World(w, f)
  PROVE  Fine(Fault([w EXCEPT !.dev.bulk = "left"]), f)
<1> DEFINE x == [w EXCEPT !.dev.bulk = "left"]
<1>1. /\ Shaped(x) /\ x.set_cmds = w.set_cmds /\ x.handle = w.handle
      /\ x.dev.mode = w.dev.mode /\ x.dev.place = w.dev.place /\ x.dev.mem = w.dev.mem
      /\ x.dev.lost = w.dev.lost /\ x.dev.sound = w.dev.sound
  <2>1. /\ Record(w, {"set_cmds", "env", "handle", "dev"})
        /\ Record(w.handle, {"type", "cpu_id", "cfg", "nand", "total", "torn"})
        /\ Record(w.dev, {"on", "mode", "sdram", "place", "bulk", "mem", "data", "sound", "conf", "lost"})
    BY DEF World, Shaped
  <2>2. PICK d, e : d = w.dev /\ e = [d EXCEPT !.bulk = "left"]
    OBVIOUS
  <2>3. x = [w EXCEPT !.dev = e]
    BY <2>1, <2>2 DEF Record
  <2> HIDE DEF x
  <2>4. Record(x, {"set_cmds", "env", "handle", "dev"})
    BY <2>1, <2>3 DEF Record
  <2>5. x.set_cmds = w.set_cmds /\ x.handle = w.handle /\ x.dev = e
    BY <2>1, <2>3 DEF Record
  <2>6. Record(e, {"on", "mode", "sdram", "place", "bulk", "mem", "data", "sound", "conf", "lost"})
    BY <2>1, <2>2 DEF Record
  <2>7. e.mode = d.mode /\ e.place = d.place /\ e.mem = d.mem /\ e.lost = d.lost
    BY <2>1, <2>2 DEF Record
  <2>8. e.sound = d.sound
    BY <2>1, <2>2 DEF Record
  <2>9. Shaped(x)
    BY <2>1, <2>4, <2>5, <2>6 DEF Shaped
  <2> QED
    BY <2>2, <2>5, <2>7, <2>8, <2>9
<1>2. World(w, TRUE)
  BY Excused
<1> HIDE DEF x
<1>3. World(x, TRUE)
  BY <1>1, <1>2 DEF World, Matched, Built, Intact
<1> QED
  BY <1>3, FaultFine DEF x

\* ingenic_configure_stage2: DS_hand.
LEMMA ConfigureFine ==
  ASSUME NEW w, NEW f \in BOOLEAN, World(w, f)
  PROVE  \A o \in ingenic_configure_stage2(w) : Fine(o, f)
<1> DEFINE new == IF w.dev.bulk = "empty" THEN w.handle.nand ELSE [o \in DOMAIN w.dev.conf |-> Junk]
           x == [w EXCEPT !.dev.conf = IF w.dev.bulk = "empty" THEN w.handle.nand ELSE [o \in DOMAIN @ |-> Junk],
                          !.dev.bulk = "empty"]
<1>1. \A o \in ingenic_configure_stage2(w) :
        o = Err(w) \/ o \in usbdev(w, {x}) \/ o = Fault([w EXCEPT !.dev.bulk = "left"])
  BY DEF ingenic_configure_stage2
<1>2. x = [w EXCEPT !.dev.conf = new, !.dev.bulk = "empty"]
  OBVIOUS
<1> HIDE DEF new, x
<1>3. /\ Shaped(x) /\ x.set_cmds = w.set_cmds /\ x.handle = w.handle
      /\ x.dev.mode = w.dev.mode /\ x.dev.place = w.dev.place /\ x.dev.mem = w.dev.mem
      /\ x.dev.lost = w.dev.lost /\ x.dev.sound = w.dev.sound /\ x.dev.data = w.dev.data
      /\ x.dev.bulk = "empty"
  <2>1. Shaped(w)
    BY DEF World
  <2>2. PICK d : d = [w.dev EXCEPT !.conf = new, !.bulk = "empty"]
    OBVIOUS
  <2>3. x.set_cmds = w.set_cmds /\ x.handle = w.handle /\ x.dev = d
    BY <1>2, <2>1, <2>2 DEF Shaped, Record
  <2>4. Record(x, {"set_cmds", "env", "handle", "dev"})
    BY <1>2, <2>1 DEF Shaped, Record
  <2>5. Record(d, {"on", "mode", "sdram", "place", "bulk", "mem", "data", "sound", "conf", "lost"})
    BY <2>1, <2>2 DEF Shaped, Record
  <2>6. /\ d.mode = w.dev.mode /\ d.place = w.dev.place /\ d.mem = w.dev.mem
        /\ d.lost = w.dev.lost /\ d.bulk = "empty"
    BY <2>1, <2>2 DEF Shaped, Record
  <2>7. d.sound = w.dev.sound /\ d.data = w.dev.data
    BY <2>1, <2>2 DEF Shaped, Record
  <2>8. Shaped(x)
    BY <2>1, <2>3, <2>4, <2>5 DEF Shaped
  <2> QED
    BY <2>3, <2>6, <2>7, <2>8
<1>4. Matched(x, f) /\ Built(x)
  BY <1>3 DEF World, Matched, Built
<1>5. Intact(x, f)
  BY <1>3 DEF World, Intact
<1>6. World(x, f)
  BY <1>3, <1>4, <1>5 DEF World
<1> QED
  BY <1>1, <1>6, OutcomesFine, LeftFine, UsbdevFine

\* ingenic_memtest: stage 1 may report an address that failed.
LEMMA MemtestFine ==
  ASSUME NEW w, NEW f \in BOOLEAN, World(w, f), w.set_cmds = "SPL"
  PROVE  \A o \in ingenic_memtest(w) : Fine(o, f)
<1>1. \A o \in ingenic_loadstage1(w, "memtest") : Fine(o, f)
  BY Loadstage1Fine
<1> SUFFICES ASSUME NEW q \in ingenic_loadstage1(w, "memtest") PROVE Fine([q EXCEPT !.rc = -1], f)
  BY <1>1 DEF ingenic_memtest
<1>2. PICK x : q \in {Ok(x), Err(x), Fault(x)}
  BY DEF ingenic_loadstage1, usbdev
<1> DEFINE y == [q EXCEPT !.rc = -1]
<1>3. y.w = q.w /\ y.fault = q.fault /\ y.rc = -1
  <2>1. CASE q = Ok(x)
    BY <2>1 DEF Ok
  <2>2. CASE q = Err(x)
    BY <2>2 DEF Err
  <2>3. CASE q = Fault(x)
    BY <2>3 DEF Fault
  <2> QED
    BY <1>2, <2>1, <2>2, <2>3
<1>4. Fine(q, f)
  BY <1>1
<1> HIDE DEF y
<1>5. Fine(y, f)
  BY <1>3, <1>4 DEF Fine
<1> QED
  BY <1>5 DEF y

\* spl_boot: stage 1, stage 2, its redetection and DS_hand, whichever of them fails.
LEMMA SplBootFine ==
  ASSUME NEW w, NEW f \in BOOLEAN, World(w, f), w.set_cmds = "SPL"
  PROVE  \A o \in spl_boot(w) : Fine(o, f)
<1> SUFFICES ASSUME NEW o \in spl_boot(w) PROVE Fine(o, f)
  OBVIOUS
<1> DEFINE started == Then(ingenic_loadstage1(w, "boot"), ingenic_loadstage2)
<1>1. PICK q \in started : o \in IF q.rc = 0 THEN ingenic_configure_stage2(q.w) ELSE {q}
  BY DEF spl_boot, Then
<1>2. PICK p \in ingenic_loadstage1(w, "boot") : q \in IF p.rc = 0 THEN ingenic_loadstage2(p.w) ELSE {p}
  BY <1>1 DEF Then
<1>3. Fine(p, f) /\ (p.rc = 0 => World(p.w, f) /\
        (p.w.dev.mode = "rom" /\ ~p.w.handle.torn => p.w.dev.sdram = SdramSize(p.w.handle.cfg)))
  BY <1>2, Loadstage1Fine
<1>4. CASE p.rc # 0
  BY <1>1, <1>2, <1>3, <1>4
<1>5. CASE p.rc = 0
  <2>1. q \in ingenic_loadstage2(p.w)
    BY <1>2, <1>5
  <2>2. Fine(q, f)
    BY <1>3, <1>5, <2>1, Loadstage2Fine
  <2>3. q.rc = 0 => World(q.w, f)
    BY <2>2 DEF Fine
  <2>4. q.rc = 0 => Fine(o, f)
    BY <1>1, <2>3, ConfigureFine
  <2> QED
    BY <1>1, <2>2, <2>4
<1> QED
  BY <1>4, <1>5

\* What stage 2 stored, and whether it is still there to tell.
LEMMA StoreOf ==
  ASSUME NEW w, Shaped(w), NEW area
  PROVE  \A x \in Store(w, area) :
           /\ Shaped(x) /\ x.set_cmds = w.set_cmds /\ x.handle = w.handle
           /\ x.dev.on = w.dev.on /\ x.dev.place = w.dev.place /\ x.dev.lost = w.dev.lost
           /\ x.dev.sound = w.dev.sound /\ x.dev.bulk = "empty"
           /\ x.dev.mem = Append(w.dev.mem, area)
           /\ w.dev.data /\ w.dev.bulk = "empty" => x.dev.data
           /\ x.dev.mode = IF Overlap(area, Area("stage2", w.dev.place, STAGE2_CODESIZE))
                           THEN "overwritten" ELSE w.dev.mode
<1> DEFINE mem == Append(w.dev.mem, area)
           data == w.dev.data /\ w.dev.bulk = "empty"
           y == [w EXCEPT !.dev.bulk = "empty", !.dev.mem = Append(@, area),
                          !.dev.data = @ /\ w.dev.bulk = "empty"]
           hit == Overlap(area, Area("stage2", w.dev.place, STAGE2_CODESIZE))
<1>1. Store(w, area) = {IF hit THEN Mode(y, "overwritten") ELSE y}
  BY DEF Store
<1>a. Record(w.dev, {"on", "mode", "sdram", "place", "bulk", "mem", "data", "sound", "conf", "lost"})
  BY DEF Shaped
<1>2. PICK d : d = [w.dev EXCEPT !.bulk = "empty", !.mem = mem, !.data = data]
  OBVIOUS
<1>3. y.set_cmds = w.set_cmds /\ y.handle = w.handle /\ y.dev = d
  BY <1>2 DEF Shaped, Record
<1>4. Record(y, {"set_cmds", "env", "handle", "dev"})
  BY DEF Shaped, Record
<1> HIDE DEF y, mem, data, hit
<1>5. Record(d, {"on", "mode", "sdram", "place", "bulk", "mem", "data", "sound", "conf", "lost"})
  BY <1>2, <1>a DEF Record
<1>6. Shaped(y)
  BY <1>3, <1>4, <1>5 DEF Shaped
<1>7. d.on = w.dev.on /\ d.place = w.dev.place /\ d.lost = w.dev.lost
       /\ d.bulk = "empty" /\ d.mode = w.dev.mode /\ d.mem = mem
  BY <1>2, <1>a DEF Record
<1>8. d.sound = w.dev.sound
  BY <1>2, <1>a DEF Record
<1>9. d.data = data
  BY <1>2, <1>a DEF Record
<1>10. y.dev.mem = mem /\ Shaped(y)
  BY <1>3, <1>6, <1>7
<1>11. /\ y.set_cmds = w.set_cmds /\ y.handle = w.handle
      /\ y.dev.on = w.dev.on /\ y.dev.place = w.dev.place /\ y.dev.lost = w.dev.lost
      /\ y.dev.sound = w.dev.sound /\ y.dev.bulk = "empty" /\ y.dev.mode = w.dev.mode
  BY <1>3, <1>7, <1>8
<1>12. data => y.dev.data
  BY <1>3, <1>9
<1> DEFINE z == Mode(y, "overwritten")
<1>13. Shaped(z) /\ z.set_cmds = y.set_cmds /\ z.handle = y.handle /\ z.dev = [y.dev EXCEPT !.mode = "overwritten"]
  BY <1>10, ModeShape
<1> HIDE DEF z
<1>14. /\ z.dev.on = y.dev.on /\ z.dev.place = y.dev.place /\ z.dev.lost = y.dev.lost
      /\ z.dev.sound = y.dev.sound /\ z.dev.bulk = y.dev.bulk /\ z.dev.mode = "overwritten"
      /\ z.dev.mem = y.dev.mem /\ z.dev.data = y.dev.data
  BY <1>10, <1>13 DEF Shaped, Record
<1>15. CASE hit
  <2>1. \A x \in Store(w, area) : x = z
    BY <1>1, <1>15 DEF z
  <2>2. data => z.dev.data
    BY <1>12, <1>14
  <2> QED
    BY <1>10, <1>11, <1>13, <1>14, <1>15, <2>1, <2>2 DEF mem, data, hit
<1>16. CASE ~hit
  <2>1. \A x \in Store(w, area) : x = y
    BY <1>1, <1>16
  <2> QED
    BY <1>10, <1>11, <1>12, <1>16, <2>1 DEF mem, data, hit
<1> QED
  BY <1>15, <1>16

\* A sequence with one more element.
LEMMA AppendLast ==
  ASSUME NEW F, NEW s \in Seq(F), NEW e \in F
  PROVE  /\ Append(s, e) \in Seq(F) /\ Last(Append(s, e)) = e /\ Len(Append(s, e)) = Len(s) + 1
         /\ \A i \in 1..Len(s) : Append(s, e)[i] = s[i]
         /\ Append(s, e)[Len(s) + 1] = e
  BY DEF Last

\* The load command: a file may be put over stage 2, and that is what is said of it.
LEMMA LoadFileFine ==
  ASSUME NEW w, NEW f \in BOOLEAN, World(w, f), NEW area \in Areas, area.what = "file"
  PROVE  \A o \in ingenic_load_sdram(w, area) : Fine(o, f)
<1>1. CASE w.dev.mode # "stage2"
  BY <1>1, OutcomesFine DEF ingenic_load_sdram
<1>2. CASE w.dev.mode = "stage2"
  <2>1. ASSUME NEW x \in Store(w, area) PROVE World(x, f)
    <3>1. Shaped(w) /\ w.dev.mem \in Seq(Areas)
      BY DEF World, Intact
    <3>2. /\ Shaped(x) /\ x.set_cmds = w.set_cmds /\ x.handle = w.handle
          /\ x.dev.place = w.dev.place /\ x.dev.lost = w.dev.lost /\ x.dev.bulk = "empty"
          /\ x.dev.mem = Append(w.dev.mem, area) /\ x.dev.mode \in {"overwritten", "stage2"}
      BY <1>2, <3>1, StoreOf
    <3>3. x.dev.mem \in Seq(Areas) /\ Last(x.dev.mem) = area
      BY <3>1, <3>2, AppendLast
    <3>4. Matched(x, f) /\ Built(x)
      BY <1>2, <3>2 DEF World, Matched, Built
    <3>5. Intact(x, f)
      BY <3>2, <3>3 DEF World, Intact
    <3> QED
      BY <3>2, <3>4, <3>5 DEF World
  <2>2. \A o \in usbdev(w, Store(w, area)) : Fine(o, f)
    BY <2>1, UsbdevFine
  <2> QED
    BY <1>2, <2>2, LeftFine DEF ingenic_load_sdram
<1> QED
  BY <1>1, <1>2

\* load_kernel loads one area after the other, while it succeeds.
LoadArea(outs, area) == Then(outs, LAMBDA x : ingenic_load_sdram(x, area))
LoadFrom(base, seq) == FoldLeft(LoadArea, base, seq)
LoadSteps(g, base, seq) ==
  /\ g[0] = base
  /\ \A i \in 1..Len(seq) : g[i] = LoadArea(g[i - 1], seq[i])
  /\ LoadFrom(base, seq) = g[Len(seq)]

\* So does the fold over them, as in ImageFold.
LEMMA LoadFold ==
  ASSUME NEW base, NEW seq \in Seq(Areas)
  PROVE  \E g : LoadSteps(g, base, seq)
<1> DEFINE Is(f, n) == f = [s \in SUBSET (1..n) |-> IF s = {} THEN base ELSE LoadArea(f[s \ {Max(s)}], seq[Max(s)])]
           I == {n \in Nat : \E f : Is(f, n)}
<1>1. DOMAIN seq = 1..Len(seq) /\ Len(seq) \in Nat
  OBVIOUS
<1>2. 0 \in I
  <2>1. Is([s \in SUBSET (1..0) |-> base], 0)
    <3>1. \A s \in SUBSET (1..0) : s = {}
      OBVIOUS
    <3> QED
      BY <3>1
  <2> QED
    BY <2>1
<1>3. ASSUME NEW n \in Nat, n \in I PROVE n + 1 \in I
  <2>1. PICK f : Is(f, n)
    BY <1>3
  <2> DEFINE h == [s \in SUBSET (1..(n + 1)) |-> IF s \subseteq 1..n THEN f[s]
                                                 ELSE LoadArea(f[s \ {n + 1}], seq[n + 1])]
  <2>2. ASSUME NEW s \in SUBSET (1..(n + 1))
        PROVE  h[s] = IF s = {} THEN base ELSE LoadArea(h[s \ {Max(s)}], seq[Max(s)])
    <3>1. CASE s \subseteq 1..n
      <4>1. h[s] = f[s] /\ h[s \ {Max(s)}] = f[s \ {Max(s)}]
        BY <3>1
      <4>2. f[s] = IF s = {} THEN base ELSE LoadArea(f[s \ {Max(s)}], seq[Max(s)])
        BY <2>1, <3>1
      <4> QED
        BY <4>1, <4>2
    <3>2. CASE ~(s \subseteq 1..n)
      <4>1. n + 1 \in s
        BY <3>2
      <4>2. Max(s) = n + 1
        BY <4>1, MaxIs
      <4>3. s \ {n + 1} \subseteq 1..n /\ s \ {n + 1} \in SUBSET (1..(n + 1))
        OBVIOUS
      <4>4. h[s \ {n + 1}] = f[s \ {n + 1}]
        BY <4>3
      <4>5. h[s] = LoadArea(f[s \ {n + 1}], seq[n + 1])
        BY <3>2
      <4> QED
        BY <4>1, <4>2, <4>4, <4>5
    <3> QED
      BY <3>1, <3>2
  <2>3. Is(h, n + 1)
    BY <2>2
  <2> HIDE DEF h, Is
  <2> QED
    BY <2>3
<1>4. Len(seq) \in I
  <2> HIDE DEF I
  <2> QED
    BY <1>1, <1>2, <1>3, Upwards
<1> DEFINE iter == CHOOSE f : f = [s \in SUBSET DOMAIN seq |-> IF s = {} THEN base ELSE LoadArea(f[s \ {Max(s)}], seq[Max(s)])]
           g == [i \in 0..Len(seq) |-> iter[1..i]]
<1>5. LoadFrom(base, seq) = iter[DOMAIN seq]
  BY DEF LoadFrom, FoldLeft, MapThenFoldSet
<1>6. Is(iter, Len(seq))
  BY <1>1, <1>4
<1> HIDE DEF iter
<1>7. g[0] = base
  <2>1. 1..0 = {} /\ {} \in SUBSET (1..Len(seq))
    OBVIOUS
  <2> QED
    BY <1>1, <1>6, <2>1
<1>8. ASSUME NEW i \in 1..Len(seq) PROVE g[i] = LoadArea(g[i - 1], seq[i])
  <2>1. PICK n \in Nat : n = i - 1
    BY <1>1
  <2>2. i = n + 1 /\ i \in 1..i /\ \A j \in 1..i : j \in 1..Len(seq)
    BY <1>1, <2>1
  <2>3. Max(1..i) = i
    <3>1. n + 1 \in 1..(n + 1)
      OBVIOUS
    <3>2. Max(1..(n + 1)) = n + 1
      BY <3>1, MaxIs
    <3> QED
      BY <2>2, <3>2
  <2>4. (1..i) \ {i} = 1..(i - 1)
    BY <1>1
  <2>5. g[i] = iter[1..i] /\ g[i - 1] = iter[1..(i - 1)]
    BY <1>1
  <2>6. iter[1..i] = LoadArea(iter[(1..i) \ {Max(1..i)}], seq[Max(1..i)])
    BY <1>6, <2>2
  <2> QED
    BY <2>3, <2>4, <2>5, <2>6
<1>9. g[Len(seq)] = iter[DOMAIN seq]
  BY <1>1
<1> HIDE DEF g
<1> QED
  BY <1>5, <1>7, <1>8, <1>9 DEF LoadSteps

\* What load_kernel starts from.
Clean(w, k) ==
  [w EXCEPT !.dev.mem = <<>>, !.dev.data = TRUE,
            !.dev.sound = WellFormed(k, w.dev.place) /\ w.dev.mode = "stage2"
                            /\ Limit(w.handle.total) = w.dev.place]

\* load_kernel: the areas are loaded, then the trampoline is called if load_elf got so far.
LEMMA LoadKernelIs ==
  ASSUME NEW w, NEW k
  PROVE  LET p == load_elf(k, w.handle.total) IN
         \A o \in load_kernel(w, k) : \E q \in LoadFrom({Ok(Clean(w, k))}, p.areas) :
           o \in IF q.rc = 0 THEN (IF p.ok THEN ingenic_go(q.w, "kernel") ELSE {Err(q.w)}) ELSE {q}
<1> DEFINE p == load_elf(k, w.handle.total)
           outs == LoadFrom({Ok(Clean(w, k))}, p.areas)
<1>1. load_kernel(w, k) =
        UNION {IF q.rc = 0 THEN (IF p.ok THEN ingenic_go(q.w, "kernel") ELSE {Err(q.w)}) ELSE {q} : q \in outs}
  BY DEF load_kernel, Clean, LoadFrom, LoadArea, Then, FoldLeft, MapThenFoldSet
<1> HIDE DEF p, outs
<1>2. \A o \in load_kernel(w, k) : \E q \in outs :
        o \in IF q.rc = 0 THEN (IF p.ok THEN ingenic_go(q.w, "kernel") ELSE {Err(q.w)}) ELSE {q}
  BY <1>1
<1> QED
  BY <1>2 DEF outs, p

\* An area of a kernel was loaded behind those in mem: stage 2 is still there.
Behind(x, w, mem, f) ==
  /\ World(x, f) /\ x.dev.sound = w.dev.sound /\ x.dev.place = w.dev.place
  /\ w.dev.sound => x.dev.mode = "stage2" /\ x.dev.mem = mem /\ (x.dev.data \/ f)
Reached(o, w, mem, f) == Fine(o, f) /\ (o.rc = 0 => Behind(o.w, w, mem, f))

\* Where memory ends below stage 2, stage 2 is not overwritten.
LEMMA NotHit ==
  ASSUME NEW area \in Areas, NEW place \in Nat, area.base + area.size <= place
  PROVE  ~Overlap(area, Area("stage2", place, STAGE2_CODESIZE))
<1>1. PICK b \in Nat, s \in Nat : b = area.base /\ s = area.size
  BY DEF Areas
<1>2. Area("stage2", place, STAGE2_CODESIZE).base = place
  BY DEF Area
<1> QED
  BY <1>1, <1>2 DEF Overlap

\* ingenic_load_sdram: an area below stage 2 leaves it running.
LEMMA LoadAreaFine ==
  ASSUME NEW w, NEW f \in BOOLEAN, World(w, f), NEW area \in Areas,
         w.dev.sound => w.dev.mode = "stage2" /\ area.base + area.size <= w.dev.place /\ (w.dev.data \/ f)
  PROVE  \A o \in ingenic_load_sdram(w, area) : Reached(o, w, Append(w.dev.mem, area), f)
<1>1. CASE w.dev.mode # "stage2"
  <2>1. \A o \in ingenic_load_sdram(w, area) : o = Err(w)
    BY <1>1 DEF ingenic_load_sdram
  <2>2. Err(w).rc # 0
    BY DEF Err
  <2> QED
    BY <2>1, <2>2, OutcomesFine DEF Reached
<1>2. CASE w.dev.mode = "stage2"
  <2>1. ASSUME NEW x \in Store(w, area) PROVE Behind(x, w, Append(w.dev.mem, area), f)
    <3>1. Shaped(w) /\ w.dev.mem \in Seq(Areas) /\ w.dev.place \in Nat /\ (w.dev.bulk # "empty" => f)
      BY DEF World, Intact
    <3>2. /\ Shaped(x) /\ x.set_cmds = w.set_cmds /\ x.handle = w.handle
          /\ x.dev.place = w.dev.place /\ x.dev.lost = w.dev.lost /\ x.dev.bulk = "empty"
          /\ x.dev.sound = w.dev.sound /\ x.dev.mem = Append(w.dev.mem, area)
          /\ x.dev.mode \in {"overwritten", "stage2"}
      BY <1>2, <3>1, StoreOf
    <3>3. x.dev.mem \in Seq(Areas)
      BY <3>1, <3>2, AppendLast
    <3>4. Matched(x, f) /\ Built(x)
      BY <1>2, <3>2 DEF World, Matched, Built
    <3>5. w.dev.sound => x.dev.mode = "stage2"
      BY <1>2, <2>1, <3>1, StoreOf, NotHit
    <3>6. w.dev.sound => x.dev.data \/ f
      BY <2>1, <3>1, StoreOf
    <3>7. Intact(x, f)
      BY <3>2, <3>3, <3>5, <3>1 DEF Intact
    <3>8. World(x, f)
      BY <3>2, <3>4, <3>7 DEF World
    <3> QED
      BY <3>2, <3>5, <3>6, <3>8 DEF Behind
  <2>2. \A o \in usbdev(w, Store(w, area)) : Fine(o, f)
    BY <2>1, UsbdevFine DEF Behind
  <2>3. ASSUME NEW o \in ingenic_load_sdram(w, area) PROVE Reached(o, w, Append(w.dev.mem, area), f)
    <3>1. o \in usbdev(w, Store(w, area)) \/ o = Fault([w EXCEPT !.dev.bulk = "left"])
      BY <1>2, <2>3 DEF ingenic_load_sdram
    <3>2. Fine(o, f)
      BY <2>2, <3>1, LeftFine
    <3>3. ASSUME o.rc = 0 PROVE \E x \in Store(w, area) : o.w = x
      BY <3>1, <3>3 DEF usbdev, Ok, Err, Fault
    <3> QED
      BY <2>1, <3>2, <3>3 DEF Reached
  <2> QED
    BY <2>3
<1> QED
  BY <1>1, <1>2

\* The first areas of a sequence.
LEMMA FirstOf ==
  ASSUME NEW F, NEW s \in Seq(F)
  PROVE  /\ SubSeq(s, 1, 0) = <<>> /\ SubSeq(s, 1, Len(s)) = s
         /\ \A n \in Nat : n + 1 <= Len(s) => SubSeq(s, 1, n + 1) = Append(SubSeq(s, 1, n), s[n + 1])
<1>1. Len(s) \in Nat /\ DOMAIN s = 1..Len(s)
  OBVIOUS
<1>2. SubSeq(s, 1, 0) = <<>>
  OBVIOUS
<1>3. SubSeq(s, 1, Len(s)) = s
  OBVIOUS
<1>4. ASSUME NEW n \in Nat, n + 1 <= Len(s) PROVE SubSeq(s, 1, n + 1) = Append(SubSeq(s, 1, n), s[n + 1])
  BY <1>1, <1>4
<1> QED
  BY <1>2, <1>3, <1>4

\* The areas are loaded one behind the other, as long as no request fails.
LEMMA LoadedFine ==
  ASSUME NEW w, NEW f \in BOOLEAN, World(w, f), w.dev.mem = <<>>, NEW areas \in Seq(Areas),
         w.dev.sound => w.dev.mode = "stage2" /\ w.dev.data /\ Disjoint(areas, w.dev.place)
  PROVE  \A o \in LoadFrom({Ok(w)}, areas) : Reached(o, w, areas, f)
<1>1. PICK g : LoadSteps(g, {Ok(w)}, areas)
  BY LoadFold
<1>2. DOMAIN areas = 1..Len(areas) /\ Len(areas) \in Nat
  OBVIOUS
<1> DEFINE I == {n \in Nat : n <= Len(areas) => \A o \in g[n] : Reached(o, w, SubSeq(areas, 1, n), f)}
<1>3. 0 \in I
  <2>1. g[0] = {Ok(w)} /\ SubSeq(areas, 1, 0) = <<>>
    BY <1>1, FirstOf DEF LoadSteps
  <2>2. Ok(w).w = w
    BY DEF Ok
  <2>3. Behind(w, w, <<>>, f)
    BY DEF Behind
  <2>4. Reached(Ok(w), w, <<>>, f)
    BY <2>2, <2>3, OutcomesFine DEF Reached
  <2>5. \A o \in g[0] : Reached(o, w, SubSeq(areas, 1, 0), f)
    BY <2>1, <2>4
  <2> QED
    BY <2>5
<1>4. ASSUME NEW n \in Nat, n \in I PROVE n + 1 \in I
  <2> SUFFICES ASSUME n + 1 <= Len(areas), NEW o \in g[n + 1]
               PROVE  Reached(o, w, SubSeq(areas, 1, n + 1), f)
    OBVIOUS
  <2>1. PICK i \in 1..Len(areas) : i = n + 1 /\ i - 1 = n
    BY <1>2
  <2>2. g[i] = LoadArea(g[n], areas[i])
    BY <1>1, <2>1 DEF LoadSteps
  <2> DEFINE area == areas[i]
             mem == SubSeq(areas, 1, n)
  <2>3. area \in Areas /\ SubSeq(areas, 1, n + 1) = Append(mem, area)
    BY <2>1, FirstOf
  <2>4. w.dev.sound => area.base + area.size <= w.dev.place
    BY <1>2 DEF Disjoint
  <2> HIDE DEF area
  <2>5. PICK q \in g[n] : o \in IF q.rc = 0 THEN ingenic_load_sdram(q.w, area) ELSE {q}
    BY <2>1, <2>2 DEF LoadArea, Then, area
  <2>6. Reached(q, w, mem, f)
    BY <1>2, <1>4, <2>5
  <2> HIDE DEF mem
  <2>7. CASE q.rc # 0
    BY <2>5, <2>6, <2>7 DEF Reached
  <2>8. CASE q.rc = 0
    <3>1. Behind(q.w, w, mem, f)
      BY <2>6, <2>8 DEF Reached
    <3>2. /\ World(q.w, f) /\ q.w.dev.sound = w.dev.sound /\ q.w.dev.place = w.dev.place
          /\ w.dev.sound => q.w.dev.mode = "stage2" /\ q.w.dev.mem = mem /\ (q.w.dev.data \/ f)
      BY <3>1 DEF Behind
    <3>3. Reached(o, q.w, Append(q.w.dev.mem, area), f)
      BY <2>3, <2>4, <2>5, <2>8, <3>2, LoadAreaFine
    <3>4. Reached(o, w, Append(mem, area), f)
      BY <3>2, <3>3 DEF Reached, Behind
    <3> QED
      BY <2>3, <3>4
  <2> QED
    BY <2>7, <2>8
<1>5. Len(areas) \in I
  <2> HIDE DEF I
  <2> QED
    BY <1>2, <1>3, <1>4, Upwards
<1>6. LoadFrom({Ok(w)}, areas) = g[Len(areas)] /\ SubSeq(areas, 1, Len(areas)) = areas
  BY <1>1, FirstOf DEF LoadSteps
<1>7. Len(areas) <= Len(areas)
  BY <1>2
<1>8. \A o \in g[Len(areas)] : Reached(o, w, SubSeq(areas, 1, Len(areas)), f)
  BY <1>5, <1>7
<1> QED
  BY <1>6, <1>8

\* load_kernel starts in a world that is in order, with nothing loaded.
LEMMA CleanWorld ==
  ASSUME NEW w, NEW f \in BOOLEAN, World(w, f), NEW k
  PROVE  LET x == Clean(w, k) IN
         /\ World(x, f) /\ x.dev.mem = <<>> /\ x.dev.place = w.dev.place
         /\ x.dev.sound => /\ x.dev.mode = "stage2" /\ x.dev.data
                           /\ WellFormed(k, w.dev.place) /\ Limit(w.handle.total) = w.dev.place
<1> DEFINE sound == WellFormed(k, w.dev.place) /\ w.dev.mode = "stage2" /\ Limit(w.handle.total) = w.dev.place
           x == [w EXCEPT !.dev.mem = <<>>, !.dev.data = TRUE, !.dev.sound = sound]
<1>1. Clean(w, k) = x
  BY DEF Clean
<1>2. Shaped(w)
  BY DEF World
<1> HIDE DEF sound
<1>3. PICK d : d = [w.dev EXCEPT !.mem = <<>>, !.data = TRUE, !.sound = sound]
  OBVIOUS
<1>4. x.set_cmds = w.set_cmds /\ x.handle = w.handle /\ x.dev = d
  BY <1>2, <1>3 DEF Shaped, Record
<1>5. Record(x, {"set_cmds", "env", "handle", "dev"})
  BY <1>2 DEF Shaped, Record
<1> HIDE DEF x
<1>6. Record(d, {"on", "mode", "sdram", "place", "bulk", "mem", "data", "sound", "conf", "lost"})
  BY <1>2, <1>3 DEF Shaped, Record
<1>7. /\ d.mode = w.dev.mode /\ d.place = w.dev.place /\ d.mem = <<>>
       /\ d.lost = w.dev.lost /\ d.bulk = w.dev.bulk
  BY <1>2, <1>3 DEF Shaped, Record
<1>8. d.data = TRUE
  BY <1>2, <1>3 DEF Shaped, Record
<1>9. d.sound = sound
  BY <1>2, <1>3 DEF Shaped, Record
<1>10. x.dev.sound => /\ WellFormed(k, w.dev.place) /\ w.dev.mode = "stage2"
                     /\ Limit(w.handle.total) = w.dev.place
  BY <1>4, <1>9 DEF sound
<1>11. x.dev.data
  BY <1>4, <1>8
<1>12. /\ Shaped(x) /\ x.set_cmds = w.set_cmds /\ x.handle = w.handle
      /\ x.dev.mode = w.dev.mode /\ x.dev.place = w.dev.place /\ x.dev.mem = <<>>
      /\ x.dev.lost = w.dev.lost /\ x.dev.bulk = w.dev.bulk
  <2>1. Shaped(x)
    BY <1>2, <1>4, <1>5, <1>6 DEF Shaped
  <2> QED
    BY <1>4, <1>7, <2>1
<1>13. Matched(x, f) /\ Built(x)
  BY <1>12 DEF World, Matched, Built
<1>14. <<>> \in Seq(Areas)
  OBVIOUS
<1>15. x.dev.sound => x.dev.mode = "stage2"
  BY <1>10, <1>12
<1>16. Intact(x, f)
  BY <1>12, <1>14, <1>15 DEF World, Intact
<1>17. World(x, f)
  BY <1>12, <1>13, <1>16 DEF World
<1> QED
  BY <1>1, <1>10, <1>11, <1>12, <1>15, <1>17

\* The kernel is started, or stage 2 is told to jump.
LEMMA GoFine ==
  ASSUME NEW w, NEW f \in BOOLEAN, World(w, f), NEW m \in {"kernel", "jumped"},
         m = "kernel" /\ w.dev.sound =>
           /\ Disjoint(w.dev.mem, w.dev.place)
           /\ {"args", "trampoline"} \subseteq {w.dev.mem[i].what : i \in DOMAIN w.dev.mem}
           /\ w.dev.data \/ f
  PROVE  \A o \in ingenic_go(w, m) : Fine(o, f)
<1> DEFINE x == Mode(w, m)
<1>1. Shaped(w)
  BY DEF World
<1>2. Shaped(x) /\ x.set_cmds = w.set_cmds /\ x.handle = w.handle /\ x.dev = [w.dev EXCEPT !.mode = m]
  BY <1>1, ModeShape
<1> HIDE DEF x
<1>3. /\ x.dev.mode = m /\ x.dev.place = w.dev.place /\ x.dev.mem = w.dev.mem
      /\ x.dev.bulk = w.dev.bulk /\ x.dev.lost = w.dev.lost
      /\ x.dev.sound = w.dev.sound /\ x.dev.data = w.dev.data
  BY <1>1, <1>2 DEF Shaped, Record
<1>4. Matched(x, f) /\ Built(x)
  BY <1>2, <1>3 DEF World, Matched, Built
<1>5. Intact(x, f)
  BY <1>3 DEF World, Intact
<1>6. World(x, f)
  BY <1>2, <1>3, <1>4, <1>5 DEF World
<1> QED
  BY <1>6, UsbdevFine DEF ingenic_go, x

\* load_kernel: whatever it loads, it starts what load_elf laid out.
LEMMA LoadKernelFine ==
  ASSUME NEW w, NEW f \in BOOLEAN, World(w, f), NEW name \in DOMAIN Kernels
  PROVE  \A o \in load_kernel(w, Kernels[name]) : Fine(o, f)
<1> DEFINE k == Kernels[name]
<1>1. /\ k.ident \in BOOLEAN /\ k.segments \in Seq(ElfSegments) /\ k.initrd \in Nat
      /\ k.args \in Nat \ {0}
  BY KernelsAssumption
<1> HIDE DEF k
<1>2. PICK total \in Nat : total = w.handle.total
  BY DEF World, Built
<1>3. PICK p : p = load_elf(k, total)
  OBVIOUS
<1>4. /\ p.ok \in BOOLEAN /\ p.areas \in Seq(Areas)
      /\ WellFormed(k, Limit(total)) =>
           /\ Disjoint(p.areas, Limit(total))
           /\ p.ok => {"args", "trampoline"} \subseteq {p.areas[i].what : i \in DOMAIN p.areas}
  BY <1>1, <1>3, ElfPlan
<1>5. PICK areas \in Seq(Areas) : areas = p.areas
  BY <1>4
<1>6. PICK x : x = Clean(w, k)
  OBVIOUS
<1>7. /\ World(x, f) /\ x.dev.mem = <<>> /\ x.dev.place = w.dev.place
      /\ x.dev.sound => /\ x.dev.mode = "stage2" /\ x.dev.data
                        /\ WellFormed(k, w.dev.place) /\ Limit(w.handle.total) = w.dev.place
  BY <1>6, CleanWorld
<1>8. x.dev.sound => Disjoint(areas, x.dev.place)
                     /\ (p.ok => {"args", "trampoline"} \subseteq {areas[i].what : i \in DOMAIN areas})
  BY <1>2, <1>4, <1>5, <1>7
<1>9. \A q \in LoadFrom({Ok(x)}, areas) : Reached(q, x, areas, f)
  BY <1>7, <1>8, LoadedFine
<1>10. ASSUME NEW o \in load_kernel(w, k) PROVE Fine(o, f)
  <2>1. PICK q \in LoadFrom({Ok(x)}, areas) :
          o \in IF q.rc = 0 THEN (IF p.ok THEN ingenic_go(q.w, "kernel") ELSE {Err(q.w)}) ELSE {q}
    BY <1>2, <1>3, <1>5, <1>6, <1>10, LoadKernelIs
  <2>2. Reached(q, x, areas, f)
    BY <1>9, <2>1
  <2>3. CASE q.rc # 0
    BY <2>1, <2>2, <2>3 DEF Reached
  <2>4. CASE q.rc = 0 /\ ~p.ok
    BY <2>1, <2>2, <2>4, OutcomesFine DEF Reached, Behind
  <2>5. CASE q.rc = 0 /\ p.ok
    <3>1. o \in ingenic_go(q.w, "kernel")
      BY <2>1, <2>5
    <3>2. /\ World(q.w, f) /\ q.w.dev.sound = x.dev.sound /\ q.w.dev.place = x.dev.place
          /\ x.dev.sound => q.w.dev.mem = areas /\ (q.w.dev.data \/ f)
      BY <2>2, <2>5 DEF Reached, Behind
    <3>3. q.w.dev.sound =>
            /\ Disjoint(q.w.dev.mem, q.w.dev.place)
            /\ {"args", "trampoline"} \subseteq {q.w.dev.mem[i].what : i \in DOMAIN q.w.dev.mem}
            /\ q.w.dev.data \/ f
      BY <1>8, <2>5, <3>2
    <3> QED
      BY <3>1, <3>2, <3>3, GoFine
  <2> QED
    BY <2>3, <2>4, <2>5, <1>4
<1> QED
  BY <1>10 DEF k

\* set changes nothing but the configuration variables.
LEMMA SetFine ==
  ASSUME NEW w, NEW f \in BOOLEAN, World(w, f), NEW e
  PROVE  Fine(Ok([w EXCEPT !.env = e]), f)
<1> DEFINE x == [w EXCEPT !.env = e]
<1>1. Shaped(x) /\ x.set_cmds = w.set_cmds /\ x.handle = w.handle /\ x.dev = w.dev
  BY DEF World, Shaped, Record
<1> HIDE DEF x
<1>2. World(x, f)
  BY <1>1 DEF World, Matched, Built, Intact
<1> QED
  BY <1>2, OutcomesFine DEF x

\* The commands of the shell that concern the device.
LEMMA BuiltinFine ==
  ASSUME NEW w, NEW f \in BOOLEAN, World(w, f), NEW argv
  PROVE  \A o \in builtin_handler(w, argv) : Fine(o, f)
<1>1. CASE argv[1] = "rebuildcfg"
  BY <1>1, RebuildFine DEF builtin_handler
<1>2. CASE argv[1] = "redetect"
  <2>1. World(w, TRUE) /\ Intact(w, f)
    BY Excused DEF World
  <2>2. builtin_handler(w, argv) = ingenic_redetect(w)
    BY <1>2 DEF builtin_handler
  <2> QED
    BY <2>1, <2>2, RedetectFine
<1>3. CASE argv[1] = "set"
  <2>1. PICK e : e = CASE Len(argv) = 1 -> w.env [] Len(argv) = 2 -> cfg_unsetenv(w.env, argv[2])
                       [] Len(argv) = 3 -> cfg_setenv(w.env, argv[2], argv[3])
    OBVIOUS
  <2>2. builtin_handler(w, argv) = {Ok([w EXCEPT !.env = e])}
    BY <1>3, <2>1 DEF builtin_handler
  <2> QED
    BY <2>2, SetFine
<1>4. CASE argv[1] \notin {"rebuildcfg", "redetect", "set"}
  <2>1. builtin_handler(w, argv) = {Ok(w)}
    BY <1>4 DEF builtin_handler
  <2> QED
    BY <2>1, OutcomesFine
<1> QED
  BY <1>1, <1>2, <1>3, <1>4

\* The commands of the boot ROM.
LEMMA SplFine ==
  ASSUME NEW w, NEW f \in BOOLEAN, World(w, f), w.set_cmds = "SPL", NEW argv, argv[1] \in DOMAIN spl_cmdset
  PROVE  \A o \in spl_handler(w, argv) : Fine(o, f)
<1>1. argv[1] \in {"boot", "memtest", "gpio"}
  BY DEF spl_cmdset
<1>2. CASE argv[1] = "boot"
  BY <1>2, SplBootFine DEF spl_handler
<1>3. CASE argv[1] = "memtest"
  BY <1>3, MemtestFine DEF spl_handler
<1>4. CASE argv[1] = "gpio"
  <2>1. \A o \in spl_handler(w, argv) : o \in ingenic_loadstage1(w, "gpio") \/ o = Err(w)
    BY <1>4 DEF spl_handler
  <2> QED
    BY <2>1, Loadstage1Fine, OutcomesFine
<1> QED
  BY <1>1, <1>2, <1>3, <1>4

\* The commands of stage 2.
LEMMA UsbbootFine ==
  ASSUME NEW w, NEW f \in BOOLEAN, World(w, f), NEW argv, argv[1] \in DOMAIN usbboot_cmdset
  PROVE  \A o \in usbboot_handler(w, argv) : Fine(o, f)
<1>1. argv[1] \in {"boot", "load", "go", "load_kernel"} \/ argv[1] \in NandCommands
  BY DEF NandCommands
<1> USE DEF NandCommands
<1>2. CASE argv[1] = "boot"
  BY <1>2, ConfigureFine DEF usbboot_handler
<1>3. CASE argv[1] = "load"
  <2>1. PICK a \in Nat : a = atoi(argv[3])
    BY NumbersAssumption DEF atoi
  <2>2. Area("file", a, 1) \in Areas /\ Area("file", a, 1).what = "file"
    BY DEF Area, Areas, Names
  <2>3. usbboot_handler(w, argv) = ingenic_load_sdram(w, Area("file", a, 1))
    BY <1>3, <2>1 DEF usbboot_handler
  <2> QED
    BY <2>2, <2>3, LoadFileFine
<1>4. CASE argv[1] = "go"
  <2>1. usbboot_handler(w, argv) = ingenic_go(w, "jumped")
    BY <1>4 DEF usbboot_handler
  <2> QED
    BY <2>1, GoFine
<1>5. CASE argv[1] = "load_kernel"
  <2>1. usbboot_handler(w, argv) = IF argv[2] \in DOMAIN Kernels THEN load_kernel(w, Kernels[argv[2]]) ELSE {Err(w)}
    BY <1>5 DEF usbboot_handler
  <2> QED
    BY <2>1, LoadKernelFine, OutcomesFine
<1>6. CASE argv[1] \in NandCommands
  <2>1. usbboot_handler(w, argv) = usbdev(w, {w})
    BY <1>6 DEF usbboot_handler, NandCommands
  <2> QED
    BY <2>1, UsbdevFine
<1> QED
  BY <1>1, <1>2, <1>3, <1>4, <1>5, <1>6

\* Whatever command the shell accepts.
LEMMA HandlerFine ==
  ASSUME NEW w, NEW f \in BOOLEAN, World(w, f), NEW argv, Valid(argv, w.set_cmds)
  PROVE  \A o \in handler(w, argv) : Fine(o, f)
<1>1. CASE argv[1] \in DOMAIN Builtin
  BY <1>1, BuiltinFine DEF handler
<1>2. CASE argv[1] \notin DOMAIN Builtin /\ w.set_cmds = "SPL"
  <2>1. argv[1] \in DOMAIN spl_cmdset
    BY <1>2 DEF Valid, shell_enumerate_commands
  <2> QED
    BY <1>2, <2>1, SplFine DEF handler
<1>3. CASE argv[1] \notin DOMAIN Builtin /\ w.set_cmds # "SPL"
  <2>1. argv[1] \in DOMAIN usbboot_cmdset
    BY <1>3 DEF Valid, shell_enumerate_commands
  <2> QED
    BY <1>3, <2>1, UsbbootFine DEF handler
<1> QED
  BY <1>1, <1>2, <1>3

(* The invariant ***********************************************************)

This == [set_cmds |-> set_cmds, env |-> env, handle |-> handle, dev |-> dev]

\* The world is in order, and untouched until the device is opened.
InOrder ==
  /\ failed \in Nat
  /\ World(This, failed > 0)
  /\ phase = "start" => /\ stack = <<>>
                        /\ dev.mode = "rom" /\ ~dev.sound /\ handle.torn

\* The fields of the world in a state.
LEMMA ThisFields ==
  /\ This.set_cmds = set_cmds /\ This.env = env /\ This.handle = handle /\ This.dev = dev
  /\ Record(This, {"set_cmds", "env", "handle", "dev"})
  BY DEF This, Record

\* main starts with a cleared handle and a device it has not opened.
LEMMA StartsInOrder == ASSUME Init PROVE InOrder
<1>1. Shaped(This)
  BY DEF Shaped, This, Record, Init
<1>2. Matched(This, failed > 0)
  BY ThisFields DEF Matched, Init
<1>3. Built(This)
  BY ThisFields DEF Built, Init
<1>4. Intact(This, failed > 0)
  BY ThisFields DEF Intact, Init
<1>5. dev.lost # "no memory" /\ failed \in Nat
  BY DEF Init
<1> QED
  BY <1>1, <1>2, <1>3, <1>4, <1>5, ThisFields DEF InOrder, World, Init

\* Steps that leave the device and the configuration alone; a request may fail in them.
LEMMA SameWorld ==
  ASSUME InOrder, UNCHANGED world, failed' \in {failed, failed + 1},
         phase' = "start" => phase = "start" /\ stack' = stack
  PROVE  InOrder'
<1>1. This' = This
  BY DEF This, world
<1>2. failed' \in Nat /\ (failed > 0 => failed' > 0) /\ (failed > 0) \in BOOLEAN /\ (failed' > 0) \in BOOLEAN
  BY DEF InOrder
<1>3. World(This, failed' > 0)
  BY <1>2, Excused DEF InOrder
<1> QED
  BY <1>1, <1>2, <1>3 DEF InOrder, world

\* Open: the type the probe found is what runs there; the rest of the handle is torn.
LEMMA OpenInOrder ==
  ASSUME InOrder, Open
  PROVE  InOrder'
<1>1. /\ failed \in Nat /\ World(This, failed > 0) /\ phase = "start"
      /\ dev.mode = "rom" /\ ~dev.sound /\ handle.torn
  BY DEF InOrder, Open
<1>2. /\ Record(handle, {"type", "cpu_id", "cfg", "nand", "total", "torn"})
      /\ Record(dev, {"on", "mode", "sdram", "place", "bulk", "mem", "data", "sound", "conf", "lost"})
      /\ DOMAIN handle.cfg = Range(FwOptions) /\ dev.lost # "no memory" /\ dev.place \in Nat
      /\ dev.mem \in Seq(Areas) /\ (dev.bulk # "empty" => failed > 0)
  BY <1>1, ThisFields DEF World, Shaped, Built, Intact
<1>3. PICK type : type = IF Found = "rom" THEN "SPL" ELSE "USBBoot"
  OBVIOUS
<1>4. PICK total \in Heap : handle' = [handle EXCEPT !.type = type, !.total = total]
  BY <1>3 DEF Open, ingenic_open
<1>5. /\ Record(handle', {"type", "cpu_id", "cfg", "nand", "total", "torn"})
      /\ handle'.type = type /\ handle'.total = total /\ handle'.cfg = handle.cfg /\ handle'.torn
  BY <1>1, <1>2, <1>4 DEF Record
<1>6. total \in Nat
  BY NumbersAssumption
<1>7. set_cmds' = type
  BY <1>5 DEF Open
<1>8. PICK size \in Sizes :
        dev' = IF Found = "rom" THEN [dev EXCEPT !.on = TRUE]
               ELSE [dev EXCEPT !.on = TRUE, !.mode = "stage2", !.sdram = size, !.place = Limit(size)]
  BY DEF Open
<1>9. PICK place \in Nat : place = Limit(size)
  BY NumbersAssumption, LimitNat
<1>10. /\ Record(dev', {"on", "mode", "sdram", "place", "bulk", "mem", "data", "sound", "conf", "lost"})
      /\ dev'.mode = (IF Found = "rom" THEN "rom" ELSE "stage2") /\ dev'.place \in Nat
      /\ dev'.mem = dev.mem /\ dev'.bulk = dev.bulk /\ dev'.lost = dev.lost
  <2>1. CASE Found = "rom"
    <3>1. dev' = [dev EXCEPT !.on = TRUE]
      BY <1>8, <2>1
    <3> QED
      BY <1>1, <1>2, <2>1, <3>1 DEF Record
  <2>2. CASE Found # "rom"
    <3>1. dev' = [dev EXCEPT !.on = TRUE, !.mode = "stage2", !.sdram = size, !.place = place]
      BY <1>8, <1>9, <2>2
    <3> QED
      BY <1>2, <2>2, <3>1 DEF Record
  <2> QED
    BY <2>1, <2>2
<1>11. ~dev'.sound
  <2>1. CASE Found = "rom"
    <3>1. dev' = [dev EXCEPT !.on = TRUE]
      BY <1>8, <2>1
    <3> QED
      BY <1>1, <1>2, <3>1 DEF Record
  <2>2. CASE Found # "rom"
    <3>1. dev' = [dev EXCEPT !.on = TRUE, !.mode = "stage2", !.sdram = size, !.place = place]
      BY <1>8, <1>9, <2>2
    <3> QED
      BY <1>1, <1>2, <3>1 DEF Record
  <2> QED
    BY <2>1, <2>2
<1>12. failed' = failed /\ phase' # "start"
  BY DEF Open, Leave
<1>13. /\ This'.set_cmds = set_cmds' /\ This'.handle = handle' /\ This'.dev = dev'
       /\ Record(This', {"set_cmds", "env", "handle", "dev"})
  BY DEF This, Record
<1>14. PICK x : x = This'
  OBVIOUS
<1>15. Shaped(x)
  BY <1>5, <1>10, <1>13, <1>14 DEF Shaped
<1>16. Matched(x, failed > 0)
  BY <1>3, <1>5, <1>7, <1>10, <1>13, <1>14 DEF Matched
<1>17. Built(x)
  BY <1>2, <1>5, <1>6, <1>13, <1>14 DEF Built
<1>18. Intact(x, failed > 0)
  BY <1>2, <1>10, <1>11, <1>13, <1>14 DEF Intact
<1>19. World(x, failed > 0)
  BY <1>2, <1>10, <1>13, <1>14, <1>15, <1>16, <1>17, <1>18 DEF World
<1> QED
  BY <1>1, <1>12, <1>14, <1>19 DEF InOrder

\* Unplug: counts as a failure.
LEMMA UnplugInOrder ==
  ASSUME InOrder, Unplug
  PROVE  InOrder'
<1>1. /\ dev' = [dev EXCEPT !.on = FALSE] /\ failed' = failed + 1
      /\ set_cmds' = set_cmds /\ env' = env /\ handle' = handle /\ phase' = phase /\ stack' = stack
  BY DEF Unplug
<1>2. PICK w : w = This
  OBVIOUS
<1>3. World(w, TRUE)
  <2>1. World(w, failed > 0) /\ (failed > 0) \in BOOLEAN
    BY <1>2 DEF InOrder
  <2> QED
    BY <2>1, Excused
<1>4. PICK x : x = This'
  OBVIOUS
<1>5. /\ x.set_cmds = w.set_cmds /\ x.handle = w.handle /\ x.dev = [w.dev EXCEPT !.on = FALSE]
      /\ Record(x, {"set_cmds", "env", "handle", "dev"})
  BY <1>1, <1>2, <1>4 DEF This, Record
<1>6. Shaped(w)
  BY <1>3 DEF World
<1>7. Shaped(x)
  <2>1. PICK d : d = [w.dev EXCEPT !.on = FALSE]
    OBVIOUS
  <2>2. Record(d, {"on", "mode", "sdram", "place", "bulk", "mem", "data", "sound", "conf", "lost"})
    BY <1>6, <2>1 DEF Shaped, Record
  <2> QED
    BY <1>5, <1>6, <2>1, <2>2 DEF Shaped
<1>8. /\ x.dev.mode = w.dev.mode /\ x.dev.place = w.dev.place /\ x.dev.mem = w.dev.mem
      /\ x.dev.bulk = w.dev.bulk /\ x.dev.lost = w.dev.lost
      /\ x.dev.sound = w.dev.sound /\ x.dev.data = w.dev.data
  BY <1>5, <1>6 DEF Shaped, Record
<1>9. Matched(x, TRUE) /\ Built(x)
  BY <1>3, <1>5, <1>8 DEF World, Matched, Built
<1>10. Intact(x, TRUE)
  BY <1>3, <1>8 DEF World, Intact
<1>11. World(x, TRUE)
  BY <1>3, <1>8, <1>7, <1>9, <1>10 DEF World
<1>12. failed' \in Nat /\ (failed' > 0) = TRUE
  BY <1>1 DEF InOrder
<1>13. World(This', failed' > 0)
  BY <1>4, <1>11, <1>12
<1>14. phase' = "start" => stack' = <<>> /\ dev'.mode = "rom" /\ ~dev'.sound /\ handle'.torn
  BY <1>1, <1>2, <1>4, <1>8, ThisFields DEF InOrder, This
<1> QED
  BY <1>12, <1>13, <1>14 DEF InOrder

\* shell_run: a command the shell accepts.
LEMMA HandledInOrder ==
  ASSUME InOrder, NEW frame, NEW argv, Handled(frame, argv), phase' # "start"
  PROVE  InOrder'
<1>1. Valid(builtin_safe(argv), set_cmds)
  BY DEF Handled
<1>2. PICK o \in handler(This, builtin_safe(argv)) :
        /\ failed' = failed + (IF o.fault THEN 1 ELSE 0)
        /\ set_cmds' = o.w.set_cmds /\ env' = o.w.env /\ handle' = o.w.handle /\ dev' = o.w.dev
  BY DEF Handled, This
<1>3. failed \in Nat /\ World(This, failed > 0) /\ (failed > 0) \in BOOLEAN
  BY DEF InOrder
<1>4. Fine(o, failed > 0)
  BY <1>1, <1>2, <1>3, HandlerFine, ThisFields
<1>5. failed' \in Nat /\ World(o.w, failed' > 0)
  <2>1. CASE o.fault
    <3>1. failed' \in Nat /\ (failed' > 0) = TRUE
      BY <1>2, <1>3, <2>1
    <3> QED
      BY <1>4, <2>1, <3>1 DEF Fine
  <2>2. CASE ~o.fault
    <3>1. failed' = failed
      BY <1>2, <1>3, <2>2
    <3> QED
      BY <1>3, <1>4, <2>2, <3>1 DEF Fine
  <2> QED
    BY <2>1, <2>2
<1>6. This' = o.w
  BY <1>2, <1>5 DEF World, Shaped, Record, This
<1> QED
  BY <1>5, <1>6 DEF InOrder

\* Every step keeps the world in order.
LEMMA StaysInOrder == ASSUME InOrder, [Next]_vars PROVE InOrder'
<1> USE DEF InOrder
<1>1. CASE UNCHANGED vars
  BY <1>1, SameWorld DEF vars, world
<1>2. CASE OpenFails
  <2>1. failed' \in {failed, failed + 1} /\ phase' = "quit" /\ UNCHANGED world
    BY <1>2 DEF OpenFails, Leave
  <2> QED
    BY <2>1, SameWorld
<1>3. CASE Open
  BY <1>3, OpenInOrder
<1>4. CASE Choose
  <2>1. failed' = failed /\ phase' # "start" /\ UNCHANGED world
    BY <1>4 DEF Choose, Leave
  <2> QED
    BY <2>1, SameWorld
<1>5. CASE Finish
  <2>1. failed' = failed /\ phase' # "start" /\ UNCHANGED world
    BY <1>5 DEF Finish, Leave
  <2> QED
    BY <2>1, SameWorld
<1>6. CASE shell_run
  <2>1. phase' # "start"
    BY <1>6 DEF shell_run, Running
  <2>2. PICK frame, argv : Rejected(frame, argv) \/ builtin_source(frame, argv) \/ Handled(frame, argv)
    BY <1>6 DEF shell_run
  <2>3. CASE Handled(frame, argv)
    BY <2>1, <2>3, HandledInOrder
  <2>4. CASE Rejected(frame, argv) \/ builtin_source(frame, argv)
    <3>1. failed' = failed /\ UNCHANGED world
      BY <2>4 DEF Rejected, builtin_source
    <3> QED
      BY <2>1, <3>1, SameWorld
  <2> QED
    BY <2>2, <2>3, <2>4
<1>7. CASE EndOfLine \/ shell_source \/ shell_interactive \/ Returned
  <2>1. failed' = failed /\ phase' # "start" /\ UNCHANGED world
    BY <1>7 DEF EndOfLine, shell_source, shell_interactive, Returned, Running
  <2> QED
    BY <2>1, SameWorld
<1>8. CASE Unplug
  BY <1>8, UnplugInOrder
<1> QED
  BY <1>1, <1>2, <1>3, <1>4, <1>5, <1>6, <1>7, <1>8 DEF Next

\* The inductive invariant of the three theorems below.
LEMMA AlwaysInOrder == Spec => []InOrder
<1>1. Init => InOrder
  BY StartsInOrder
<1>2. InOrder /\ [Next]_vars => InOrder'
  BY StaysInOrder
<1> QED
  BY <1>1, <1>2, PTL DEF Spec

\* The commands the shell offers are those of what runs on the device, for any scripts,
\* sessions, lines typed and kernels: every path on which stage 2 comes to run ends in
\* ingenic_redetect, or in a request that failed (spl_boot, shell_update_cmdset).
THEOREM CommandsMatch == Spec => []CommandsMatchDevice
<1>1. InOrder => CommandsMatchDevice
  BY ThisFields DEF InOrder, World, Matched, CommandsMatchDevice
<1> QED
  BY <1>1, AlwaysInOrder, PTL

\* Stage 2 is put where stage 1 set memory up, for any sequence of geometries: the
\* total_sdram_size that ingenic_loadstage uses is always that of the configuration stage 1
\* was last started with (ingenic_rebuild, spl_boot).
THEOREM MemoryFound == Spec => []BootFindsMemory
<1>1. InOrder => BootFindsMemory
  BY ThisFields DEF InOrder, World, BootFindsMemory
<1> QED
  BY <1>1, AlwaysInOrder, PTL

\* The kernel that is started is all there and nothing of it was overwritten, for any
\* well-formed images and any order of commands and failures (load_elf, load_segment,
\* ingenic_load_sdram).
THEOREM KernelStarts == Spec => []KernelIntact
<1>1. InOrder => KernelIntact
  <2> SUFFICES ASSUME InOrder, dev.sound PROVE KernelIntact
    BY DEF KernelIntact
  <2>1. Intact(This, failed > 0) /\ failed \in Nat
    BY DEF InOrder, World
  <2>2. failed = 0 => ~(failed > 0)
    BY <2>1
  <2>3. /\ dev.mode = "overwritten" => Last(dev.mem).what = "file"
        /\ dev.mode = "kernel" =>
             /\ Disjoint(dev.mem, dev.place)
             /\ {"args", "trampoline"} \subseteq {dev.mem[i].what : i \in DOMAIN dev.mem}
             /\ dev.data \/ failed > 0
    BY <2>1, ThisFields DEF Intact
  <2> QED
    BY <2>2, <2>3 DEF KernelIntact
<1> QED
  BY <1>1, AlwaysInOrder, PTL
=============================================================================
