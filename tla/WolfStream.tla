----------------------------- MODULE WolfStream -----------------------------
(***************************************************************************)
(* The wolf loop's tries, run by both implementations side by side: the    *)
(* switch of astroBWTv3Stream (internal/astrobwt/pow.go) and the table     *)
(* interpreter of WolfStreamInto (wolftable.go) that the GPU kernel is     *)
(* translated from.  step_3 has N cells instead of 256, RC4 runs modulo N, *)
(* bytes are bytes.  What xxhash, FNV and siphash return is left open, so  *)
(* any random_switcher may come next: the log keeps which hash was taken   *)
(* over which bytes, when RC4 ran, and in what order, and every hash is    *)
(* preceded by the same prev_lhash update.  WolfLoop models when the loop  *)
(* ends and what it leaves in the scratch.                                 *)
(***************************************************************************)
EXTENDS WolfOps, Integers, Sequences, FiniteSets

CONSTANTS
  N,         \* cells of step_3 (256)
  Window,    \* most bytes a try rewrites (32)
  Seeds,     \* the contents of step_3 to start from
  Switchers  \* for each try, the random_switchers it may meet: op, pos1, pos2

Cell == 0 .. N - 1

StreamAssumption ==
  /\ N \in 1 .. 256 /\ Window \in Nat \ {0}
  /\ Seeds \subseteq [Cell -> Byte]
  /\ Switchers \in Seq(SUBSET (Byte \X Cell \X Cell))

VARIABLES
  tries,
  op, pos1, pos2,  \* random_switcher of the last try, -1 before the first
  before,          \* ref before the last try (history)
  ref, tab         \* step_3 (s), the log and the cipher (rc), by each

vars == <<tries, op, pos1, pos2, before, ref, tab>>

-----------------------------------------------------------------------------
(* rc4.go                                                                  *)

Swapped(s, i, j) == [s EXCEPT ![i] = s[j], ![j] = s[i]]

\* One turn of NewCipher's loop.
Mixed(m, i, key) ==
  LET j == (m.j + m.s[i] + key[i]) % N IN [s |-> Swapped(m.s, i, j), j |-> j]
NewCipher(key) ==
  LET m[k \in 0 .. N] == IF k = 0 THEN [s |-> [i \in Cell |-> i], j |-> 0]
                         ELSE Mixed(m[k - 1], k - 1, key)
  IN [s |-> m[N].s, i |-> 0, j |-> 0]

\* One turn of XORKeyStream's loop, and all of them over step_3, in place.
Crypted(t, k, src) ==
  LET i == (t.c.i + 1) % N
      x == t.c.s[i]
      j == (t.c.j + x) % N
      y == t.c.s[j]
      s == Swapped(t.c.s, i, j)
  IN [c   |-> [s |-> s, i |-> i, j |-> j],
      dst |-> [t.dst EXCEPT ![k] = Xor8(src[k], s[(x + y) % N])]]
XORKeyStream(c, src) ==
  LET t[k \in 0 .. N] == IF k = 0 THEN [c |-> c, dst |-> src] ELSE Crypted(t[k - 1], k - 1, src)
  IN t[N]

-----------------------------------------------------------------------------
(* What the two loops have in common, statement by statement.              *)

\* pos1 and pos2 in order, at most Window bytes apart.
Ordered(p, q) == IF p > q THEN <<q, p>> ELSE <<p, q>>
Clamped_Off(p) == p  \* (mutant) no limit on the bytes of one try
Clamped(p) == IF p[2] - p[1] > Window THEN <<p[1], p[1] + ((p[2] - p[1]) % Window)>> ELSE p

Hashed(t, kind, b) == [t EXCEPT !.log = Append(@, <<kind, [k \in 0 .. b - 1 |-> t.s[k]]>>)]

ReverseSwap(t, a, b) ==
  [t EXCEPT !.s = [@ EXCEPT ![b] = Reverse8(t.s[a]), ![a] = Reverse8(t.s[b])]]

Rekeyed(t) == [t EXCEPT !.rc = NewCipher(t.s)]

\* RC4 over the whole of step_3.
Encrypted(t) ==
  LET ks == XORKeyStream(t.rc, t.s)
  IN [s |-> ks.dst, log |-> Append(t.log, <<"rc4", <<>>>>), rc |-> ks.c]

\* The thresholds after the byte loop: up to three more hashes and RC4, and the
\* last cell folded with both ends.
Diff(t, a, b) == (t.s[a] - t.s[b]) % 256
Thresholds(t0, a, b) ==
  LET t1 == IF Diff(t0, a, b) < 16 THEN Hashed(t0, "xxhash", b) ELSE t0
      t2 == IF Diff(t1, a, b) < 32 THEN Hashed(t1, "fnv1a", b) ELSE t1
      t3 == IF Diff(t2, a, b) < 48 THEN Hashed(t2, "siphash", b) ELSE t2
      t4 == IF Diff(t3, a, b) <= 64 THEN Encrypted(t3) ELSE t3
  IN [t4 EXCEPT !.s[N - 1] = Xor8(Xor8(@, t4.s[a]), t4.s[b])]

-----------------------------------------------------------------------------
(* pow.go: the switch.  In each loop, for i := pos1; i < pos2; i++.        *)

Exec(s, t, i, a, b) ==
  CASE s = "swap" -> ReverseSwap(t, a, b)
    [] s = "hash" -> Hashed(t, "xxhash", b)
    [] OTHER      -> [t EXCEPT !.s[i] = Stmt(s, @, t.s[b])]
SwitchBody(c, t, i, a, b) ==
  LET st == Cases(c)
      u[k \in 0 .. Len(st)] == IF k = 0 THEN t ELSE Exec(st[k], u[k - 1], i, a, b)
  IN u[Len(st)]
SwitchTry(c, t, a, b) ==
  LET u[k \in 0 .. b - a] ==
        IF k = 0 THEN IF c \in Rekeys THEN Rekeyed(t) ELSE t
        ELSE SwitchBody(c, u[k - 1], a + k - 1, a, b)
  IN Thresholds(u[b - a], a, b)

(* wolftable.go: the table, with its three special cases.                  *)

TableBody(c, t, i, a, b) ==
  LET u == [t EXCEPT !.s[i] = wolfApplyByte(c, @, t.s[b])]
      v == IF c = 0 THEN ReverseSwap(u, a, b) ELSE u
  IN IF c = 253 THEN Hashed(v, "xxhash", b) ELSE v

TableTry_LateRekey(c, t, a, b) ==  \* (mutant) the new key is taken after the byte loop
  LET u[k \in 0 .. b - a] == IF k = 0 THEN t ELSE TableBody(c, u[k - 1], a + k - 1, a, b)
  IN Thresholds(IF c \in {254, 255} THEN Rekeyed(u[b - a]) ELSE u[b - a], a, b)
TableTry(c, t, a, b) ==
  LET u[k \in 0 .. b - a] ==
        IF k = 0 THEN IF c \in {254, 255} THEN Rekeyed(t) ELSE t
        ELSE TableBody(c, u[k - 1], a + k - 1, a, b)
  IN Thresholds(u[b - a], a, b)

-----------------------------------------------------------------------------
\* The prologue: step_3 encrypted with itself as the key.
Prologue(key) ==
  LET ks == XORKeyStream(NewCipher(key), key)
  IN [s |-> ks.dst, log |-> <<>>, rc |-> ks.c]

Init ==
  /\ tries = 0 /\ op = -1 /\ pos1 = -1 /\ pos2 = -1
  /\ \E seed \in Seeds : ref = Prologue(seed)
  /\ tab = ref /\ before = ref

\* random_switcher is a function of the hashes: both implementations read the
\* same one as long as they agree.
Try(c, p, q) ==
  LET w == Clamped(Ordered(p, q))
  IN /\ tries' = tries + 1
     /\ op' = c /\ pos1' = w[1] /\ pos2' = w[2]
     /\ before' = ref
     /\ ref' = SwitchTry(c, ref, w[1], w[2])
     /\ tab' = TableTry(c, tab, w[1], w[2])

Next ==
  /\ tries < Len(Switchers)
  /\ \E rs \in Switchers[tries + 1] : Try(rs[1], rs[2], rs[3])

Spec == Init /\ [][Next]_vars

-----------------------------------------------------------------------------
(* Properties.                                                             *)

\* The table interpreter leaves the bytes, the cipher and the order of hashes
\* that the switch leaves, whatever the cases, the bytes and the windows; this
\* includes the cases whose loop body swaps, hashes or follows a new RC4 key.
TableMirrorsSwitch == tab = ref

\* wolftable_gen.go holds what genwolf emits from the switch, tags included.
TableIsGenerated ==
  op # -1 => classifyCase(op) = [row |-> wolfOps(op), tag |-> wolfSpecial(op)]

\* RC4's state stays a permutation: an exchange with i = j loses no value.
CipherIsPermutation == Cardinality({ref.rc.s[i] : i \in Cell}) = N

\* The byte loop reads step_3[pos2] while it rewrites the cells before it: but
\* for RC4 a try changes at most Window cells, the cell at pos2 only in case 0,
\* and the last one.
WindowRespected ==
  LET encrypted == \E k \in Len(before.log) + 1 .. Len(ref.log) : ref.log[k][1] = "rc4"
      changed   == {i \in Cell : ref.s[i] # before.s[i]} \ {N - 1}
  IN op # -1 /\ ~encrypted =>
       /\ changed \subseteq pos1 .. pos2
       /\ Cardinality(changed \ {pos2}) <= Window
       /\ pos2 \in changed => op = 0
=============================================================================
