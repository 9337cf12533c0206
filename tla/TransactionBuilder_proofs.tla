------------------------ MODULE TransactionBuilder_proofs ------------------------
(***************************************************************************)
(* Proofs about TransactionBuilder, for any accounts, keys, calls and any  *)
(* number of operations.  The invariant says when the transaction that is  *)
(* cached in the dict agrees with the operations and the signatures: while *)
(* it counts as constructed, and only then.  Failures leave it as it was   *)
(* or not constructed at all.                                              *)
(***************************************************************************)
EXTENDS TransactionBuilder, SequenceTheorems, FiniteSetTheorems, TLAPS

Bodies == [ops : Seq(Nat), exp : Nat]
Signatures == [key : Keys, body : Bodies]
KeySets == {K \in SUBSET Keys : IsFiniteSet(K)}
Dicts == [exp : Nat, ops : Seq(Nat), sigs : Seq(Signatures), missing : KeySets]
Builders == [ops : Seq(Nat), wifs : SUBSET Keys, signers : SUBSET Accounts,
             tx : Bodies \cup {NoTx}, rebuild : BOOLEAN, dict : Dicts]

\* The signatures of a transaction were made for it.
Fits(d) == \A i \in DOMAIN d.sigs : d.sigs[i].body = Body(d)

\* A transaction that counts as constructed is the one of tx; unless it is to be
\* constructed anew, it has the builder's operations and signatures for them.
Agrees(x) ==
    x.dict.exp # 0 =>
        /\ x.tx # NoTx => x.tx = Body(x.dict)
        /\ ~x.rebuild => x.dict.ops = x.ops /\ Fits(x.dict)

Sound(x) == x \in Builders /\ IsFiniteSet(x.wifs) /\ Agrees(x)

TypeOK ==
    /\ b \in Builders
    /\ wallet \in SUBSET Keys /\ locked \in BOOLEAN
    /\ now \in Nat \ {0} /\ nextOp \in Nat \ {0} /\ loads \in Nat
    /\ returned \in Dicts /\ sent \in Seq(Dicts)

\* Different operations, all made before n and none of them sent.
FreshOps(ops, n) ==
    /\ \A i \in DOMAIN ops : ops[i] < n
    /\ \A i, j \in DOMAIN ops : i # j => ops[i] # ops[j]
    /\ \A m \in DOMAIN sent : \A i \in DOMAIN ops, j \in DOMAIN sent[m].ops :
          sent[m].ops[j] # ops[i]

SentBefore(n) == \A m \in DOMAIN sent : \A j \in DOMAIN sent[m].ops : sent[m].ops[j] < n

\* The operations of the builder were never sent.
Unsent == loads = 0 => FreshOps(b.ops, nextOp) /\ SentBefore(nextOp)

\* What was sent has no operation twice.
SentOnce ==
    loads = 0 =>
        \A n, m \in DOMAIN sent : \A i \in DOMAIN sent[n].ops, j \in DOMAIN sent[m].ops :
            n # m \/ i # j => sent[n].ops[i] # sent[m].ops[j]

BuilderInv ==
    /\ TypeOK /\ Sound(b) /\ Fits(returned)
    /\ \A n \in DOMAIN sent : Fits(sent[n])
    /\ Unsent /\ SentOnce

USE BuilderAssumption

-----------------------------------------------------------------------------
(* The methods of the builder.                                             *)

LEMMA FetchedKeys ==
    ASSUME wallet \in SUBSET Keys, NEW a \in Accounts, NEW p \in Perms
    PROVE  FetchKeys(a, p) \in SUBSET Keys /\ IsFiniteSet(FetchKeys(a, p))
<1>1. ASSUME NEW q PROVE Held(a, q) \in SUBSET Keys /\ IsFiniteSet(Held(a, q))
  <2>1. IsFiniteSet({<<a, q>>}) /\ Held(a, q) \in SUBSET {<<a, q>>}
    BY FS_Singleton DEF Held
  <2> QED
    BY <2>1, FS_Subset DEF Held
<1> QED
  BY <1>1 DEF FetchKeys

\* SetToSeq of a finite set that is not empty is a sequence that is not empty.
LEMMA SequenceOfSet ==
    ASSUME NEW S, IsFiniteSet(S)
    PROVE  SetToSeq(S) \in Seq(S) /\ (S # {} => SetToSeq(S) # <<>>)
<1> DEFINE n == Cardinality(S)
<1>1. n \in Nat /\ ExistsBijection(1..n, S) /\ (S # {} => n # 0)
  BY FS_CardinalityType, FS_EmptySet
<1>2. \E f \in [1..n -> S] : IsInjective(f)
  BY <1>1 DEF ExistsBijection, Bijection, Injection, IsInjective
<1>3. SetToSeq(S) \in [1..n -> S]
  BY <1>2 DEF SetToSeq
<1> HIDE DEF n
<1> QED
  BY <1>1, <1>3

\* Signing with keys gives a signature at least.
LEMMA SignaturesOf ==
    ASSUME NEW K \in SUBSET Keys, IsFiniteSet(K), K # {}, NEW body \in Bodies
    PROVE  LET s == SetToSeq({[key |-> k, body |-> body] : k \in K})
           IN s \in Seq(Signatures) /\ s # <<>> /\ \A i \in DOMAIN s : s[i].body = body
<1> DEFINE T == {[key |-> k, body |-> body] : k \in K}
           f == [k \in K |-> [key |-> k, body |-> body]]
<1>1. f \in Bijection(K, T)
  <2>1. f \in [K -> T] /\ \A t \in T : \E k \in K : f[k] = t
    OBVIOUS
  <2>2. \A j, k \in K : f[j] = f[k] => j = k
    <3> TAKE j \in K, k \in K
    <3>1. f[j].key = j /\ f[k].key = k
      OBVIOUS
    <3> QED
      BY <3>1
  <2> HIDE DEF T, f
  <2> QED
    BY <2>1, <2>2 DEF Bijection, Injection, Surjection, IsInjective
<1>2. IsFiniteSet(T)
  BY <1>1, FS_Bijection DEF ExistsBijection
<1>3. T # {} /\ T \subseteq Signatures /\ \A t \in T : t.body = body
  <2>1. \A k \in K : /\ [key |-> k, body |-> body] \in Signatures
                     /\ [key |-> k, body |-> body].body = body
    BY DEF Signatures
  <2> QED
    BY <2>1
<1> HIDE DEF T
<1>4. SetToSeq(T) \in Seq(T) /\ SetToSeq(T) # <<>>
  BY <1>2, <1>3, SequenceOfSet
<1>5. \A i \in DOMAIN SetToSeq(T) : SetToSeq(T)[i] \in T
  BY <1>4
<1>6. SetToSeq(T) \in Seq(Signatures)
  BY <1>3, <1>4, SeqMonotonic
<1> QED
  BY <1>3, <1>4, <1>5, <1>6 DEF T

LEMMA BuiltSound ==
    ASSUME NEW x \in Builders, IsFiniteSet(x.wifs), now \in Nat \ {0}
    PROVE  /\ Sound(Built(x))
           /\ Built(x).ops = x.ops /\ Built(x).wifs = x.wifs
           /\ Built(x).dict.exp # 0 /\ Built(x).dict.ops = x.ops
           /\ Built(x).dict.sigs = <<>>
           /\ Built(x).tx = Body(Built(x).dict) /\ ~Built(x).rebuild
<1> DEFINE d == [x.dict EXCEPT !.exp = now, !.ops = x.ops, !.sigs = <<>>]
           y == [x EXCEPT !.tx = [ops |-> x.ops, exp |-> now], !.rebuild = FALSE, !.dict = d]
<1>1. x.dict \in Dicts /\ x.ops \in Seq(Nat)
  BY DEF Builders
<1>2. d \in Dicts /\ d.exp = now /\ d.ops = x.ops /\ d.sigs = <<>>
  <2>1. <<>> \in Seq(Signatures)
    BY EmptySeq
  <2> QED
    BY <1>1, <2>1 DEF Dicts
<1>3. Built(x) = y
  BY <1>1 DEF Built, Builders, Dicts
<1> HIDE DEF d
<1>4. /\ y.ops = x.ops /\ y.wifs = x.wifs /\ y.dict = d
      /\ y.tx = [ops |-> x.ops, exp |-> now] /\ ~y.rebuild
  BY DEF Builders
<1>5. y \in Builders
  BY <1>1, <1>2 DEF Builders, Bodies
<1>6. y.tx = Body(y.dict)
  BY <1>2, <1>4 DEF Body
<1> HIDE DEF y
<1>7. Fits(y.dict)
  BY <1>2, <1>4 DEF Fits
<1>8. Sound(y)
  BY <1>2, <1>4, <1>5, <1>6, <1>7 DEF Sound, Agrees
<1> QED
  BY <1>2, <1>3, <1>4, <1>6, <1>8

LEMMA ConstructSound ==
    ASSUME NEW x, Sound(x), now \in Nat \ {0}, NEW up
    PROVE  /\ Construct(x, up).out = "ok" => Construct(x, up).b = Built(x)
           /\ Construct(x, up).out # "ok" => Construct(x, up).b = x
           /\ Sound(Construct(x, up).b)
  BY BuiltSound DEF Construct, Result, Sound

LEMMA WithOpsSound ==
    ASSUME NEW x, Sound(x), NEW n \in Nat
    PROVE  /\ Sound(WithOps(x, <<n>>))
           /\ WithOps(x, <<n>>).ops = x.ops \o <<n>>
<1> DEFINE d == [x.dict EXCEPT !.ops = IF Shared(x) THEN x.dict.ops \o <<n>> ELSE x.dict.ops]
           y == [x EXCEPT !.ops = x.ops \o <<n>>, !.rebuild = TRUE, !.dict = d]
<1>1. x \in Builders /\ x.dict \in Dicts /\ x.ops \o <<n>> \in Seq(Nat)
  BY DEF Builders, Sound
<1>2. /\ d \in Dicts /\ d.exp = x.dict.exp
      /\ ~Shared(x) => d.ops = x.dict.ops
  <2> DEFINE ops == IF Shared(x) THEN x.dict.ops \o <<n>> ELSE x.dict.ops
  <2>1. ops \in Seq(Nat) /\ (~Shared(x) => ops = x.dict.ops)
    BY <1>1 DEF Dicts
  <2>2. d = [x.dict EXCEPT !.ops = ops]
    OBVIOUS
  <2> HIDE DEF ops, d
  <2> QED
    BY <1>1, <2>1, <2>2 DEF Dicts
<1>3. WithOps(x, <<n>>) = y
  BY <1>1 DEF WithOps, Builders, Dicts
<1> HIDE DEF d
<1>4. /\ y \in Builders /\ y.ops = x.ops \o <<n>> /\ y.wifs = x.wifs /\ y.tx = x.tx
      /\ y.rebuild /\ y.dict = d
  BY <1>1, <1>2 DEF Builders
<1> HIDE DEF y
<1>5. Agrees(y)
  BY <1>2, <1>4 DEF Sound, Agrees, Shared, Body
<1> QED
  BY <1>3, <1>4, <1>5 DEF Sound

LEMMA ClearedSound ==
    ASSUME NEW x, Sound(x)
    PROVE  Sound(Cleared(x)) /\ Cleared(x).ops = <<>>
<1> DEFINE d == [x.dict EXCEPT !.exp = 0]
           y == [x EXCEPT !.ops = <<>>, !.wifs = {}, !.signers = {}, !.dict = d]
<1>1. x \in Builders /\ x.dict \in Dicts
  BY DEF Builders, Sound
<1>2. d \in Dicts /\ d.exp = 0
  BY <1>1 DEF Dicts
<1>3. Cleared(x) = y
  BY <1>1 DEF Cleared, Builders, Dicts
<1> HIDE DEF d
<1>4. y \in Builders /\ y.ops = <<>> /\ y.wifs = {} /\ y.dict = d
  <2>1. <<>> \in Seq(Nat)
    BY EmptySeq
  <2> QED
    BY <1>1, <1>2, <2>1 DEF Builders
<1> HIDE DEF y
<1> QED
  BY <1>2, <1>3, <1>4, FS_EmptySet DEF Sound, Agrees

LEMMA WithSignerSound ==
    ASSUME NEW x, Sound(x), wallet \in SUBSET Keys, NEW a \in Accounts, NEW p \in Perms
    PROVE  Sound(WithSigner(x, a, p).b) /\ WithSigner(x, a, p).b.ops = x.ops
<1> DEFINE y == [x EXCEPT !.wifs = x.wifs \cup FetchKeys(a, p), !.signers = x.signers \cup {a}]
<1>1. x \in Builders /\ IsFiniteSet(x.wifs)
  BY DEF Sound
<1>2. /\ y \in Builders /\ y.wifs = x.wifs \cup FetchKeys(a, p)
      /\ y.ops = x.ops /\ y.tx = x.tx /\ y.rebuild = x.rebuild /\ y.dict = x.dict
  BY <1>1, FetchedKeys DEF Builders
<1>3. WithSigner(x, a, p).b \in {x, y}
  BY DEF WithSigner, Result
<1> HIDE DEF y
<1>4. Sound(y)
  <2>1. IsFiniteSet(FetchKeys(a, p))
    BY FetchedKeys
  <2>2. IsFiniteSet(x.wifs \cup FetchKeys(a, p))
    BY <1>1, <2>1, FS_Union
  <2>3. Agrees(y)
    BY <1>2 DEF Sound, Agrees
  <2> QED
    BY <1>2, <2>2, <2>3, y.wifs = x.wifs \cup FetchKeys(a, p) DEF Sound
<1> QED
  BY <1>2, <1>3, <1>4

\* Signing leaves signatures of the transaction as it stands, one at least if it
\* succeeds; after a construction it is the one of the builder's operations.
LEMMA SignSound ==
    ASSUME NEW x, Sound(x), now \in Nat \ {0}, NEW up, NEW reconstruct \in BOOLEAN
    PROVE  LET s == Sign(x, up, reconstruct)
           IN /\ Sound(s.b) /\ s.b.ops = x.ops
              /\ s.out = "ok" => s.b.dict.sigs # <<>> /\ s.b.dict.ops # <<>>
              /\ s.out = "ok" /\ reconstruct =>
                    s.b.dict.exp # 0 /\ ~s.b.rebuild /\ s.b.dict.ops = x.ops
<1> DEFINE c == IF x.dict.exp = 0 \/ reconstruct THEN Construct(x, up) ELSE Result(x, "ok")
           more == SetToSeq({[key |-> k, body |-> c.b.tx] : k \in c.b.wifs})
           d == [c.b.dict EXCEPT !.sigs = c.b.dict.sigs \o more]
           y == [c.b EXCEPT !.dict = d]
<1>1. /\ Sound(c.b) /\ c.b.ops = x.ops
      /\ c.out = "ok" => c.b.dict.exp # 0
      /\ c.out = "ok" /\ reconstruct => ~c.b.rebuild /\ c.b.dict.ops = x.ops
  BY ConstructSound, BuiltSound DEF Result, Sound
<1> DEFINE s == Sign(x, up, reconstruct)
<1>2. ASSUME \/ s = c /\ c.out # "ok"
             \/ \E w \in {"nothing", "MissingKeyError", "AttributeError"} : s = Result(c.b, w)
      PROVE  s.out # "ok" /\ Sound(s.b) /\ s.b.ops = x.ops
  <2> HIDE DEF c, s
  <2> QED
    BY <1>1, <1>2 DEF Result
<1>3. ASSUME c.out = "ok", c.b.wifs # {}, c.b.tx # NoTx, c.b.dict.ops # <<>>
      PROVE  /\ Sound(y) /\ y.ops = x.ops
             /\ y.dict.sigs # <<>> /\ y.dict.ops # <<>>
             /\ reconstruct => y.dict.exp # 0 /\ ~y.rebuild /\ y.dict.ops = x.ops
  <2> HIDE DEF c
  <2>1. c.b \in Builders /\ IsFiniteSet(c.b.wifs) /\ c.b.wifs \in SUBSET Keys /\ c.b.dict \in Dicts
    BY <1>1 DEF Sound, Builders
  <2>2. c.b.tx \in Bodies /\ c.b.tx = Body(c.b.dict)
    BY <1>1, <1>3, <2>1 DEF Builders, Sound, Agrees
  <2>3. more \in Seq(Signatures) /\ more # <<>> /\ \A i \in DOMAIN more : more[i].body = c.b.tx
    BY <1>3, <2>1, <2>2, SignaturesOf
  <2>4. c.b.dict.sigs \in Seq(Signatures)
    BY <2>1 DEF Dicts
  <2> HIDE DEF more
  <2>5. /\ c.b.dict.sigs \o more \in Seq(Signatures) /\ c.b.dict.sigs \o more # <<>>
        /\ \A i \in DOMAIN (c.b.dict.sigs \o more) :
              \/ i \in DOMAIN more /\ c.b.dict.sigs = <<>> /\ (c.b.dict.sigs \o more)[i] = more[i]
              \/ \E j \in DOMAIN c.b.dict.sigs : (c.b.dict.sigs \o more)[i] = c.b.dict.sigs[j]
              \/ \E j \in DOMAIN more : (c.b.dict.sigs \o more)[i] = more[j]
    <3>1. /\ c.b.dict.sigs \o more \in Seq(Signatures)
          /\ Len(c.b.dict.sigs \o more) = Len(c.b.dict.sigs) + Len(more)
          /\ Len(more) > 0 /\ Len(c.b.dict.sigs) \in Nat
      BY <2>3, <2>4
    <3>2. ASSUME NEW i \in 1 .. Len(c.b.dict.sigs) + Len(more)
          PROVE  \/ \E j \in DOMAIN c.b.dict.sigs : (c.b.dict.sigs \o more)[i] = c.b.dict.sigs[j]
                 \/ \E j \in DOMAIN more : (c.b.dict.sigs \o more)[i] = more[j]
      <4>1. CASE i <= Len(c.b.dict.sigs)
        BY <2>3, <2>4, <4>1
      <4>2. CASE i > Len(c.b.dict.sigs)
        <5>1. i - Len(c.b.dict.sigs) \in DOMAIN more
          BY <2>3, <3>1, <4>2
        <5> QED
          BY <2>3, <2>4, <4>2, <5>1
      <4> QED
        BY <4>1, <4>2, <3>1
    <3> QED
      BY <3>1, <3>2
  <2>6. /\ d \in Dicts /\ d.sigs = c.b.dict.sigs \o more /\ d.ops = c.b.dict.ops
        /\ d.exp = c.b.dict.exp
    BY <2>1, <2>5 DEF Dicts
  <2> HIDE DEF d
  <2>7. /\ y \in Builders /\ y.dict = d /\ y.ops = c.b.ops /\ y.wifs = c.b.wifs
        /\ y.tx = c.b.tx /\ y.rebuild = c.b.rebuild
    BY <2>1, <2>6 DEF Builders
  <2> HIDE DEF y
  <2>8. Body(d) = Body(c.b.dict)
    BY <2>6 DEF Body
  <2>9. Fits(c.b.dict) => Fits(d)
    BY SMTT(30), <2>2, <2>3, <2>5, <2>6, <2>8 DEF Fits
  <2>10. Agrees(y)
    BY <1>1, <2>2, <2>6, <2>7, <2>8, <2>9 DEF Sound, Agrees
  <2> QED
    BY <1>1, <1>3, <2>1, <2>5, <2>6, <2>7, <2>10 DEF Sound
<1>4. \/ s = c /\ c.out # "ok"
      \/ \E w \in {"nothing", "MissingKeyError", "AttributeError"} : s = Result(c.b, w)
      \/ /\ c.out = "ok" /\ c.b.wifs # {} /\ c.b.tx # NoTx /\ c.b.dict.ops # <<>>
         /\ s = Result(y, "ok")
  BY DEF Sign
<1> HIDE DEF c, y, s
<1> QED
  BY <1>2, <1>3, <1>4 DEF s, Result
LEMMA JsonSound ==
    ASSUME NEW x, Sound(x), now \in Nat \ {0}, NEW up
    PROVE  LET j == Json(x, up)
           IN /\ Sound(j.b) /\ j.b.ops = x.ops /\ j.out # "sent"
              /\ j.out = "ok" => j.b.dict.exp # 0 /\ ~j.b.rebuild
              /\ x.dict.exp # 0 /\ ~x.rebuild => j = Result(x, "ok")
<1>1. Sound(Construct(x, up).b) /\ Construct(x, up).b \in {x, Built(x)}
  BY ConstructSound
<1>2. Construct(x, up).out = "ok" => Construct(x, up).b = Built(x)
  BY ConstructSound
<1>3. Construct(x, up).out # "sent"
  BY DEF Construct, Result
<1>4. Built(x).ops = x.ops /\ Built(x).dict.exp # 0 /\ ~Built(x).rebuild
  BY BuiltSound DEF Sound
<1> QED
  BY <1>1, <1>2, <1>3, <1>4 DEF Json, Result

\* What broadcast() is about to send is constructed; a transaction that was just
\* signed is sent as it is.
LEMMA ReadySound ==
    ASSUME NEW x, Sound(x), now \in Nat \ {0}, NEW up
    PROVE  LET r == Ready(x, up)
           IN /\ Sound(r.b) /\ r.b.ops = x.ops
              /\ r.out = "ok" => r.b.dict.exp # 0 /\ ~r.b.rebuild
              /\ x.dict.sigs # <<>> /\ x.dict.ops # <<>> /\ x.dict.exp # 0 /\ ~x.rebuild =>
                    r = Result(x, "ok")
<1> DEFINE s == IF x.dict.sigs # <<>> THEN Result(x, "ok") ELSE Sign(x, up, TRUE)
<1>1. Sound(s.b) /\ s.b.ops = x.ops
  BY SignSound DEF Result
<1>2. x.dict.sigs # <<>> => s = Result(x, "ok")
  OBVIOUS
<1>3. Ready(x, up) = IF s.out \notin {"ok", "nothing"} THEN s
                     ELSE IF s.b.dict.ops = <<>> THEN Result(s.b, "nothing")
                     ELSE Json(s.b, up)
  BY DEF Ready
<1> HIDE DEF s
<1>4. /\ Sound(Json(s.b, up).b) /\ Json(s.b, up).b.ops = x.ops
      /\ Json(s.b, up).out = "ok" => Json(s.b, up).b.dict.exp # 0 /\ ~Json(s.b, up).b.rebuild
      /\ s.b.dict.exp # 0 /\ ~s.b.rebuild => Json(s.b, up) = Result(s.b, "ok")
  BY <1>1, JsonSound
<1> QED
  BY <1>1, <1>2, <1>3, <1>4 DEF Result

-----------------------------------------------------------------------------
(* The calls.                                                              *)

LEMMA BuilderInit == Init => BuilderInv
<1> SUFFICES ASSUME Init PROVE BuilderInv
  OBVIOUS
<1>1. <<>> \in Seq(Nat) /\ <<>> \in Seq(Signatures) /\ <<>> \in Seq(Dicts)
  BY EmptySeq
<1>2. Fresh.dict \in Dicts /\ Fresh.dict.exp = 0 /\ Fresh.dict.sigs = <<>>
  BY <1>1, FS_EmptySet DEF Fresh, Dicts, KeySets
<1>3. b \in Builders /\ b.wifs = {} /\ b.ops = <<>>
  BY <1>1, <1>2 DEF Init, Fresh, Builders, Dicts
<1>4. wallet \in SUBSET Keys
  BY DEF Init, Keys
<1>5. TypeOK
  BY <1>1, <1>2, <1>3, <1>4 DEF Init, TypeOK
<1>6. Sound(b) /\ Fits(returned)
  BY <1>2, <1>3, FS_EmptySet DEF Init, Sound, Agrees, Fits
<1>7. sent = <<>> /\ Unsent /\ SentOnce
  BY <1>3 DEF Init, Unsent, FreshOps, SentBefore, SentOnce
<1> QED
  BY <1>5, <1>6, <1>7 DEF BuilderInv

\* A sequence with one more element.
LEMMA OneMore ==
    ASSUME NEW S, NEW s \in Seq(S), NEW e \in S
    PROVE  /\ \A i \in DOMAIN s : i \in DOMAIN (s \o <<e>>) /\ (s \o <<e>>)[i] = s[i]
           /\ \E k \in DOMAIN (s \o <<e>>) :
                 /\ k \notin DOMAIN s /\ (s \o <<e>>)[k] = e
                 /\ \A i \in DOMAIN (s \o <<e>>) : i \in DOMAIN s \/ i = k
<1> DEFINE more == s \o <<e>>
           n == Len(s)
<1>1. <<e>> \in Seq(S) /\ Len(<<e>>) = 1 /\ <<e>>[1] = e /\ n \in Nat /\ DOMAIN s = 1..n
  BY LenProperties
<1>2. /\ more \in Seq(S) /\ Len(more) = n + 1
      /\ \A i \in 1..(n + 1) : more[i] = IF i <= n THEN s[i] ELSE <<e>>[i - n]
  BY <1>1, ConcatProperties
<1>3. DOMAIN more = 1..(n + 1)
  BY <1>2, LenProperties
<1>4. <<e>>[(n + 1) - n] = e
  BY <1>1
<1> HIDE DEF more, n
<1>5. \A i \in DOMAIN s : i \in DOMAIN more /\ more[i] = s[i]
  BY <1>1, <1>2, <1>3
<1>6. n + 1 \in DOMAIN more /\ n + 1 \notin DOMAIN s /\ more[n + 1] = e
  BY <1>1, <1>2, <1>3, <1>4
<1>7. \A i \in DOMAIN more : i \in DOMAIN s \/ i = n + 1
  BY <1>1, <1>3
<1> QED
  BY <1>5, <1>6, <1>7 DEF more

\* The next operation is a fresh one.
LEMMA MoreOps ==
    ASSUME BuilderInv, NewOp
    PROVE  /\ nextOp' = nextOp + 1 /\ nextOp' \in Nat \ {0}
           /\ nextOp \in Nat /\ b.ops \in Seq(Nat)
           /\ loads = 0 => FreshOps(b.ops \o <<nextOp>>, nextOp') /\ SentBefore(nextOp')
           /\ loads = 0 => FreshOps(b.ops, nextOp')
           /\ \E i \in DOMAIN (b.ops \o <<nextOp>>) : (b.ops \o <<nextOp>>)[i] = nextOp
<1>1. nextOp' = nextOp + 1 /\ nextOp \in Nat /\ b.ops \in Seq(Nat) /\ sent \in Seq(Dicts)
  BY DEF NewOp, BuilderInv, TypeOK, Builders
<1> DEFINE more == b.ops \o <<nextOp>>
<1>2. \A i \in DOMAIN b.ops : i \in DOMAIN more /\ more[i] = b.ops[i]
  BY <1>1, OneMore
<1>3. PICK k \in DOMAIN more :
         /\ k \notin DOMAIN b.ops /\ more[k] = nextOp
         /\ \A i \in DOMAIN more : i \in DOMAIN b.ops \/ i = k
  BY <1>1, OneMore
<1> HIDE DEF more
<1>4. \A m \in DOMAIN sent : sent[m].ops \in Seq(Nat)
  <2>1. \A m \in DOMAIN sent : sent[m] \in Dicts
    BY <1>1
  <2> QED
    BY <2>1 DEF Dicts
<1>5. \A i \in DOMAIN b.ops : b.ops[i] \in Nat
  BY <1>1
<1>6. \A m \in DOMAIN sent : \A j \in DOMAIN sent[m].ops : sent[m].ops[j] \in Nat
  BY <1>4
<1>7. ASSUME loads = 0
      PROVE  FreshOps(more, nextOp') /\ SentBefore(nextOp') /\ FreshOps(b.ops, nextOp')
  <2>1. FreshOps(b.ops, nextOp) /\ SentBefore(nextOp)
    BY <1>7 DEF BuilderInv, Unsent
  <2>2. SentBefore(nextOp') /\ FreshOps(b.ops, nextOp')
    BY <1>1, <1>5, <1>6, <2>1 DEF SentBefore, FreshOps
  <2>3. \A i \in DOMAIN more : more[i] < nextOp'
    BY <1>1, <1>2, <1>3, <2>2 DEF FreshOps
  <2>4. \A i, j \in DOMAIN more : i # j => more[i] # more[j]
    BY <1>1, <1>2, <1>3, <1>5, <2>1 DEF FreshOps
  <2>5. \A m \in DOMAIN sent : \A i \in DOMAIN more, j \in DOMAIN sent[m].ops :
            sent[m].ops[j] # more[i]
    BY <1>1, <1>2, <1>3, <1>6, <2>1 DEF FreshOps, SentBefore
  <2> QED
    BY <2>2, <2>3, <2>4, <2>5 DEF FreshOps
<1> QED
  BY <1>1, <1>3, <1>7 DEF more

\* A call that ends with a sound builder whose operations are fresh.
LEMMA EndsInv ==
    ASSUME BuilderInv, NEW r, Ends(r), Sound(r.b),
           nextOp' \in Nat \ {0}, loads' \in Nat, returned' \in Dicts, Fits(returned)',
           loads' = 0 => loads = 0 /\ FreshOps(r.b.ops, nextOp') /\ SentBefore(nextOp')
    PROVE  BuilderInv'
<1>1. b' = r.b /\ UNCHANGED <<wallet, locked, now, sent>>
  BY DEF Ends
<1>2. TypeOK'
  BY <1>1 DEF BuilderInv, TypeOK, Sound
<1>3. Sound(b)'
  BY <1>1 DEF Sound, Agrees, Fits, Body
<1>4. (\A n \in DOMAIN sent : Fits(sent[n]))'
  BY <1>1 DEF BuilderInv, Fits, Body
<1>5. Unsent' /\ SentOnce'
  BY <1>1 DEF BuilderInv, Unsent, SentOnce, FreshOps, SentBefore
<1> QED
  BY <1>2, <1>3, <1>4, <1>5 DEF BuilderInv

\* A call that may send what is constructed.
LEMMA SendInv ==
    ASSUME BuilderInv, NEW r, Send(r), Sound(r.b),
           r.out = "ok" => r.b.dict.exp # 0 /\ ~r.b.rebuild,
           nextOp' \in Nat \ {0}, UNCHANGED <<loads, returned>>,
           loads = 0 => FreshOps(r.b.ops, nextOp') /\ SentBefore(nextOp')
    PROVE  BuilderInv'
<1>0. loads' \in Nat /\ returned' \in Dicts /\ Fits(returned)'
  BY DEF BuilderInv, TypeOK, Fits, Body
<1>1. CASE Ends(r)
  BY <1>0, <1>1, EndsInv
<1>2. CASE r.out = "ok" /\ sent' = Append(sent, r.b.dict) /\ b' = Cleared(r.b)
           /\ UNCHANGED <<wallet, locked, now>>
  <2> DEFINE d == r.b.dict
  <2>1. sent \in Seq(Dicts) /\ d \in Dicts /\ d.ops \in Seq(Nat) /\ d.ops = r.b.ops /\ Fits(d)
    BY <1>2 DEF BuilderInv, TypeOK, Sound, Builders, Dicts, Agrees
  <2>2. Sound(Cleared(r.b)) /\ Cleared(r.b).ops = <<>>
    BY ClearedSound
  <2> HIDE DEF d
  <2>3. /\ sent' \in Seq(Dicts) /\ DOMAIN sent' = 1..(Len(sent) + 1) /\ Len(sent) \in Nat
        /\ \A n \in DOMAIN sent : sent'[n] = sent[n] /\ n # Len(sent) + 1
        /\ sent'[Len(sent) + 1] = d /\ DOMAIN sent = 1..Len(sent)
    BY <1>2, <2>1 DEF d
  <2>4. \A n \in DOMAIN sent' : n \in DOMAIN sent \/ (n = Len(sent) + 1 /\ sent'[n] = d)
    BY <2>3
  <2>5. TypeOK'
    BY <1>0, <1>2, <2>2, <2>3 DEF BuilderInv, TypeOK, Sound
  <2>6. Sound(b)'
    BY <1>2, <2>2 DEF Sound, Agrees, Fits, Body
  <2>7. (\A n \in DOMAIN sent : Fits(sent[n]))'
    BY <2>1, <2>3, <2>4 DEF BuilderInv, Fits, Body
  <2>8. Unsent'
    <3> SUFFICES ASSUME loads = 0
                 PROVE  FreshOps(b.ops, nextOp)' /\ SentBefore(nextOp)'
      BY DEF Unsent
    <3>1. FreshOps(d.ops, nextOp') /\ SentBefore(nextOp')
      BY <2>1
    <3> QED
      BY <1>2, <2>2, <2>3, <2>4, <3>1 DEF FreshOps, SentBefore
  <2>9. SentOnce'
    <3> SUFFICES ASSUME loads = 0 PROVE SentOnce'
      BY DEF SentOnce
    <3>1. FreshOps(d.ops, nextOp') /\ SentOnce
      BY <2>1 DEF BuilderInv
    <3> QED
      BY <2>3, <2>4, <3>1 DEF FreshOps, SentOnce
  <2> QED
    BY <1>0, <2>5, <2>6, <2>7, <2>8, <2>9 DEF BuilderInv
<1> QED
  BY <1>1, <1>2 DEF Send


\* finalizeOp signs the transaction with the new operation, and sends that.
LEMMA FinalizeSends ==
    ASSUME BuilderInv, NEW a \in Accounts, NEW p \in Asked, NEW up \in BOOLEAN,
           Finalize(a, p, up)
    PROVE  /\ BuilderInv'
           /\ \/ out' # "sent" /\ sent' = sent
              \/ \E d \in Dicts :
                    /\ sent' = Append(sent, d)
                    /\ d.sigs # <<>> /\ d.ops = b.ops \o <<nextOp>>
<1> DEFINE x == WithOps(b, <<nextOp>>)
           s == WithSigner(x, a, p)
           t == Sign(s.b, up, TRUE)
           r == Ready(t.b, up)
<1>0. /\ p \in Perms /\ wallet \in SUBSET Keys /\ now \in Nat \ {0} /\ Sound(b)
      /\ returned \in Dicts /\ Fits(returned) /\ loads \in Nat /\ sent \in Seq(Dicts)
  BY DEF BuilderInv, TypeOK
<1>1. NewOp /\ UNCHANGED <<returned, loads>>
  BY DEF Finalize
<1>2. /\ nextOp \in Nat /\ nextOp' \in Nat \ {0}
      /\ loads = 0 => FreshOps(b.ops \o <<nextOp>>, nextOp') /\ SentBefore(nextOp')
  BY <1>1, MoreOps
<1>3. Sound(x) /\ x.ops = b.ops \o <<nextOp>>
  BY <1>0, <1>2, WithOpsSound
<1> HIDE DEF x
<1>4. Sound(s.b) /\ s.b.ops = x.ops
  BY <1>0, <1>3, WithSignerSound
<1>5. s.out # "sent"
  BY DEF WithSigner, Result
<1>6. Finalize(a, p, up) => IF s.out # "ok" THEN Ends(s) ELSE IF t.out # "ok" THEN Ends(t) ELSE Send(r)
  BY DEF Finalize, x
<1> HIDE DEF s
<1>7. /\ Sound(t.b) /\ t.b.ops = x.ops
      /\ t.out = "ok" => /\ t.b.dict.sigs # <<>> /\ t.b.dict.ops # <<>>
                         /\ t.b.dict.exp # 0 /\ ~t.b.rebuild /\ t.b.dict.ops = x.ops
  BY <1>0, <1>4, SignSound
<1>8. t.out # "sent"
  BY DEF Sign, Construct, Result
<1> HIDE DEF t
<1>9. t.out = "ok" => r = Result(t.b, "ok")
  BY <1>0, <1>7, ReadySound
<1> HIDE DEF r
<1>10. returned' \in Dicts /\ Fits(returned)' /\ loads' \in Nat
  BY <1>0, <1>1 DEF Fits, Body
<1>11. ASSUME NEW q \in {s, t}, Ends(q) PROVE BuilderInv' /\ out' # "sent" /\ sent' = sent
  <2>1. Sound(q.b) /\ q.b.ops = b.ops \o <<nextOp>> /\ q.out # "sent"
    BY <1>3, <1>4, <1>5, <1>7, <1>8, <1>11
  <2>2. BuilderInv'
    BY <1>1, <1>2, <1>10, <1>11, <2>1, EndsInv
  <2> QED
    BY <1>11, <2>1, <2>2 DEF Ends
<1>12. ASSUME t.out = "ok", Send(r)
       PROVE  /\ BuilderInv'
              /\ \E d \in Dicts : /\ sent' = Append(sent, d)
                                  /\ d.sigs # <<>> /\ d.ops = b.ops \o <<nextOp>>
  <2>1. r.b = t.b /\ r.out = "ok"
    BY <1>9, <1>12 DEF Result
  <2>2. BuilderInv'
    BY <1>1, <1>2, <1>3, <1>7, <1>12, <2>1, SendInv
  <2>3. sent' = Append(sent, t.b.dict) /\ t.b.dict \in Dicts
    BY <1>7, <1>12, <2>1 DEF Send, Ends, Sound, Builders
  <2> QED
    BY <1>3, <1>7, <1>12, <2>2, <2>3
<1> QED
  BY <1>6, <1>11, <1>12

LEMMA BundleInv ==
    ASSUME BuilderInv, NEW a \in Accounts, NEW p \in Asked, NEW up \in BOOLEAN,
           Bundle(a, p, up)
    PROVE  BuilderInv' /\ sent' = sent /\ out' # "sent"
<1> DEFINE x == WithOps(b, <<nextOp>>)
           s == WithSigner(x, a, p)
           j == Json(s.b, up)
<1>0. /\ p \in Perms /\ wallet \in SUBSET Keys /\ now \in Nat \ {0} /\ Sound(b)
      /\ returned \in Dicts /\ Fits(returned) /\ loads \in Nat
  BY DEF BuilderInv, TypeOK
<1>1. NewOp /\ loads' = loads
  BY DEF Bundle
<1>2. /\ nextOp \in Nat /\ nextOp' \in Nat \ {0}
      /\ loads = 0 => FreshOps(b.ops \o <<nextOp>>, nextOp') /\ SentBefore(nextOp')
  BY <1>1, MoreOps
<1>3. Sound(x) /\ x.ops = b.ops \o <<nextOp>>
  BY <1>0, <1>2, WithOpsSound
<1> HIDE DEF x
<1>4. Sound(s.b) /\ s.b.ops = x.ops
  BY <1>0, <1>3, WithSignerSound
<1>5. s.out # "sent"
  BY DEF WithSigner, Result
<1>6. IF s.out # "ok" THEN Ends(s) /\ UNCHANGED returned
      ELSE Ends(j) /\ returned' = IF j.out = "ok" THEN j.b.dict ELSE returned
  BY DEF Bundle, x
<1> HIDE DEF s
<1>7. /\ Sound(j.b) /\ j.b.ops = x.ops /\ j.out # "sent"
      /\ j.out = "ok" => j.b.dict.exp # 0 /\ ~j.b.rebuild
  BY <1>0, <1>4, JsonSound
<1> HIDE DEF j
<1>8. j.out = "ok" => j.b.dict \in Dicts /\ Fits(j.b.dict)
  BY <1>7 DEF Sound, Agrees, Builders
<1>9. returned' \in Dicts /\ Fits(returned)'
  BY <1>0, <1>6, <1>8 DEF Fits, Body
<1>10. ASSUME NEW q \in {s, j}, Ends(q) PROVE BuilderInv' /\ sent' = sent /\ out' # "sent"
  <2>1. Sound(q.b) /\ q.b.ops = b.ops \o <<nextOp>> /\ q.out # "sent"
    BY <1>3, <1>4, <1>5, <1>7, <1>10
  <2>2. BuilderInv'
    BY <1>0, <1>1, <1>2, <1>9, <1>10, <2>1, EndsInv
  <2> QED
    BY <1>10, <2>1, <2>2 DEF Ends
<1> QED
  BY <1>6, <1>10

LEMMA UnsignedInv ==
    ASSUME BuilderInv, NEW a \in Accounts, NEW p \in Asked, NEW up \in BOOLEAN,
           Unsigned(a, p, up)
    PROVE  BuilderInv' /\ sent' = sent /\ out' # "sent"
<1> DEFINE x == WithOps(b, <<nextOp>>)
           c == IF x.dict.exp = 0 THEN Construct(x, up) ELSE Result(x, "ok")
           y == [c.b EXCEPT !.dict.missing = {<<a, p>>}]
           r == IF c.out = "ok" THEN Result(y, "ok") ELSE c
<1>0. /\ p \in Perms /\ now \in Nat \ {0} /\ Sound(b)
      /\ returned \in Dicts /\ Fits(returned) /\ loads \in Nat
  BY DEF BuilderInv, TypeOK
<1>1. NewOp /\ UNCHANGED <<returned, loads>> /\ Ends(r)
  BY DEF Unsigned
<1>2. /\ nextOp \in Nat /\ nextOp' \in Nat \ {0}
      /\ loads = 0 => FreshOps(b.ops \o <<nextOp>>, nextOp') /\ SentBefore(nextOp')
  BY <1>1, MoreOps
<1>3. Sound(x) /\ x.ops = b.ops \o <<nextOp>>
  BY <1>0, <1>2, WithOpsSound
<1> HIDE DEF x
<1>4. Sound(c.b) /\ c.b.ops = x.ops /\ c.out # "sent"
  <2>1. Sound(Construct(x, up).b) /\ Construct(x, up).b \in {x, Built(x)}
    BY <1>0, <1>3, ConstructSound
  <2>2. Built(x).ops = x.ops
    BY <1>0, <1>3, BuiltSound DEF Sound
  <2>3. Construct(x, up).out # "sent"
    BY DEF Construct, Result
  <2> QED
    BY <1>3, <2>1, <2>2, <2>3 DEF Result
<1> HIDE DEF c
<1>5. Sound(y) /\ y.ops = x.ops
  <2> DEFINE d == [c.b.dict EXCEPT !.missing = {<<a, p>>}]
  <2>1. c.b \in Builders /\ c.b.dict \in Dicts /\ <<a, p>> \in Keys
    BY <1>0, <1>4 DEF Sound, Builders, Keys
  <2>a. {<<a, p>>} \in KeySets
    BY <2>1, FS_Singleton DEF KeySets
  <2>2. /\ d \in Dicts /\ d.exp = c.b.dict.exp /\ d.ops = c.b.dict.ops /\ d.sigs = c.b.dict.sigs
    BY <2>1, <2>a DEF Dicts
  <2>3. y = [c.b EXCEPT !.dict = d]
    BY <2>1 DEF Builders, Dicts
  <2> HIDE DEF d
  <2>4. /\ y \in Builders /\ y.ops = c.b.ops /\ y.dict = d /\ y.tx = c.b.tx
        /\ y.rebuild = c.b.rebuild /\ y.wifs = c.b.wifs
    BY <2>1, <2>2, <2>3 DEF Builders
  <2> HIDE DEF y
  <2> QED
    BY <1>4, <2>2, <2>4 DEF Sound, Agrees, Fits, Body
<1> HIDE DEF y
<1>6. Sound(r.b) /\ r.b.ops = b.ops \o <<nextOp>> /\ r.out # "sent"
  BY <1>3, <1>4, <1>5 DEF Result
<1>7. returned' \in Dicts /\ Fits(returned)'
  BY <1>0, <1>1 DEF Fits, Body
<1> HIDE DEF r
<1>8. BuilderInv'
  BY <1>0, <1>1, <1>2, <1>6, <1>7, EndsInv
<1> QED
  BY <1>1, <1>6, <1>8 DEF Ends


\* The calls that make no operation of their own, and appendOps.
LEMMA MethodsInv ==
    ASSUME BuilderInv,
           \/ \E a \in Accounts, p \in Asked : AppendSigner(a, p)
           \/ \E up, reconstruct \in BOOLEAN : SignCall(up, reconstruct)
           \/ \E up \in BOOLEAN : JsonCall(up)
           \/ AppendMissing \/ ClearWifs \/ Clear
    PROVE  BuilderInv' /\ nextOp' = nextOp
<1>0. /\ wallet \in SUBSET Keys /\ now \in Nat \ {0} /\ Sound(b) /\ Perms # {}
      /\ returned \in Dicts /\ Fits(returned) /\ loads \in Nat /\ nextOp \in Nat \ {0}
      /\ b \in Builders /\ IsFiniteSet(b.wifs) /\ Agrees(b)
  BY DEF BuilderInv, TypeOK, Perms, Sound
<1>1. loads = 0 => FreshOps(b.ops, nextOp) /\ FreshOps(<<>>, nextOp) /\ SentBefore(nextOp)
  BY DEF BuilderInv, Unsent, FreshOps
<1>2. ASSUME NEW r, Ends(r), Sound(r.b), r.b.ops = b.ops \/ r.b.ops = <<>>,
             UNCHANGED <<nextOp, loads>>, returned' \in Dicts, Fits(returned)'
      PROVE  BuilderInv'
  BY <1>0, <1>1, <1>2, EndsInv
<1>3. returned' = returned => returned' \in Dicts /\ Fits(returned)'
  BY <1>0 DEF Fits, Body
<1>4. ASSUME NEW a \in Accounts, NEW p \in Asked, AppendSigner(a, p)
      PROVE  BuilderInv' /\ nextOp' = nextOp
  <2>1. p \in Perms
    OBVIOUS
  <2>2. Sound(WithSigner(b, a, p).b) /\ WithSigner(b, a, p).b.ops = b.ops
    BY <1>0, <2>1, WithSignerSound
  <2> QED
    BY <1>2, <1>3, <1>4, <2>2 DEF AppendSigner
<1>5. ASSUME NEW up \in BOOLEAN, NEW reconstruct \in BOOLEAN, SignCall(up, reconstruct)
      PROVE  BuilderInv' /\ nextOp' = nextOp
  <2>1. Sound(Sign(b, up, reconstruct).b) /\ Sign(b, up, reconstruct).b.ops = b.ops
    BY <1>0, SignSound
  <2> QED
    BY <1>2, <1>3, <1>5, <2>1 DEF SignCall
<1>6. ASSUME NEW up \in BOOLEAN, JsonCall(up) PROVE BuilderInv' /\ nextOp' = nextOp
  <2> DEFINE j == Json(b, up)
  <2>1. Ends(j) /\ returned' = (IF j.out = "ok" THEN j.b.dict ELSE returned)
        /\ UNCHANGED <<nextOp, loads>>
    BY <1>6 DEF JsonCall
  <2>2. /\ Sound(j.b) /\ j.b.ops = b.ops
        /\ j.out = "ok" => j.b.dict.exp # 0 /\ ~j.b.rebuild
    BY <1>0, JsonSound
  <2> HIDE DEF j
  <2>3. j.out = "ok" => j.b.dict \in Dicts /\ Fits(j.b.dict)
    BY <2>2 DEF Sound, Agrees, Builders
  <2>4. returned' \in Dicts /\ Fits(returned)'
    BY <1>0, <2>1, <2>3 DEF Fits, Body
  <2> QED
    BY <1>2, <2>1, <2>2, <2>4
<1>7. ASSUME NEW K \in SUBSET Keys, IsFiniteSet(K)
      PROVE  Sound([b EXCEPT !.wifs = K]) /\ [b EXCEPT !.wifs = K].ops = b.ops
  <2> DEFINE y == [b EXCEPT !.wifs = K]
  <2>1. /\ y \in Builders /\ y.ops = b.ops /\ y.wifs = K /\ y.tx = b.tx
        /\ y.rebuild = b.rebuild /\ y.dict = b.dict
    BY <1>0 DEF Builders
  <2> HIDE DEF y
  <2>2. Sound(y)
    BY <1>0, <1>7, <2>1 DEF Sound, Agrees
  <2> QED
    BY <2>1, <2>2 DEF y
<1>8. CASE AppendMissing
  <2> DEFINE keys == b.dict.missing \cap wallet
             y == [b EXCEPT !.wifs = b.wifs \cup keys]
             r == IF locked /\ keys # {} THEN Result(b, "WalletLocked") ELSE Result(y, "ok")
  <2>1. Ends(r) /\ UNCHANGED <<nextOp, returned, loads>>
    BY <1>8 DEF AppendMissing
  <2>2. b.dict.missing \in KeySets
    BY <1>0 DEF Builders, Dicts
  <2>3. keys \in SUBSET Keys /\ IsFiniteSet(keys)
    BY <1>0, <2>2, FS_Subset DEF KeySets
  <2>4. b.wifs \cup keys \in SUBSET Keys /\ IsFiniteSet(b.wifs \cup keys)
    BY <1>0, <2>3, FS_Union DEF Builders
  <2>5. Sound(y) /\ y.ops = b.ops
    BY <1>7, <2>4
  <2> HIDE DEF y, keys
  <2>6. Sound(r.b) /\ r.b.ops = b.ops
    BY <1>0, <2>5 DEF Result
  <2> HIDE DEF r
  <2> QED
    BY <1>2, <1>3, <2>1, <2>6
<1>9. CASE ClearWifs
  <2>1. Sound([b EXCEPT !.wifs = {}]) /\ [b EXCEPT !.wifs = {}].ops = b.ops
    BY <1>7, FS_EmptySet
  <2> QED
    BY <1>2, <1>3, <1>9, <2>1 DEF ClearWifs, Result
<1>10. CASE Clear
  <2>1. Sound(Cleared(b)) /\ Cleared(b).ops = <<>>
    BY <1>0, ClearedSound
  <2> QED
    BY <1>2, <1>3, <1>10, <2>1 DEF Clear, Result
<1> QED
  BY <1>4, <1>5, <1>6, <1>8, <1>9, <1>10


LEMMA AppendOpsInv == ASSUME BuilderInv, AppendOps PROVE BuilderInv' /\ sent' = sent /\ out' # "sent"
<1> DEFINE x == WithOps(b, <<nextOp>>)
<1>0. /\ Sound(b) /\ returned \in Dicts /\ Fits(returned) /\ loads \in Nat
  BY DEF BuilderInv, TypeOK
<1>1. NewOp /\ UNCHANGED <<returned, loads>> /\ Ends(Result(x, "ok"))
  BY DEF AppendOps
<1>2. /\ nextOp \in Nat /\ nextOp' \in Nat \ {0}
      /\ loads = 0 => FreshOps(b.ops \o <<nextOp>>, nextOp') /\ SentBefore(nextOp')
  BY <1>1, MoreOps
<1>3. Sound(x) /\ x.ops = b.ops \o <<nextOp>>
  BY <1>0, <1>2, WithOpsSound
<1> HIDE DEF x
<1>4. returned' \in Dicts /\ Fits(returned)'
  BY <1>0, <1>1 DEF Fits, Body
<1>5. BuilderInv'
  <2>1. Result(x, "ok").b = x
    BY DEF Result
  <2> QED
    BY <1>0, <1>1, <1>2, <1>3, <1>4, <2>1, EndsInv
<1> QED
  BY <1>1, <1>5 DEF Ends, Result

LEMMA BroadcastInv ==
    ASSUME BuilderInv, NEW up \in BOOLEAN, Broadcast(up)
    PROVE  BuilderInv' /\ nextOp' = nextOp
<1> DEFINE r == Ready(b, up)
<1>0. now \in Nat \ {0} /\ Sound(b) /\ nextOp \in Nat \ {0}
  BY DEF BuilderInv, TypeOK
<1>1. Send(r) /\ UNCHANGED <<nextOp, returned, loads>>
  BY DEF Broadcast
<1>2. /\ Sound(r.b) /\ r.b.ops = b.ops
      /\ r.out = "ok" => r.b.dict.exp # 0 /\ ~r.b.rebuild
  BY <1>0, ReadySound
<1>3. loads = 0 => FreshOps(b.ops, nextOp) /\ SentBefore(nextOp)
  BY DEF BuilderInv, Unsent
<1> HIDE DEF r
<1> QED
  BY <1>0, <1>1, <1>2, <1>3, SendInv

LEMMA LoadInv == ASSUME BuilderInv, Load PROVE BuilderInv' /\ nextOp' = nextOp
<1> DEFINE y == [Fresh EXCEPT !.ops = returned.ops, !.dict = returned, !.rebuild = FALSE]
<1>0. returned \in Dicts /\ Fits(returned) /\ loads \in Nat /\ nextOp \in Nat \ {0}
  BY DEF BuilderInv, TypeOK
<1>1. loads' = loads + 1 /\ UNCHANGED <<nextOp, returned>> /\ Ends(Result(y, "ok"))
  BY DEF Load
<1>2. Fresh \in Builders
  <2>1. <<>> \in Seq(Nat) /\ <<>> \in Seq(Signatures)
    BY EmptySeq
  <2> QED
    BY <2>1, FS_EmptySet DEF Fresh, Builders, Dicts, KeySets
<1>3. /\ y \in Builders /\ y.ops = returned.ops /\ y.dict = returned
      /\ y.tx = NoTx /\ y.wifs = {}
  <2>1. returned.ops \in Seq(Nat)
    BY <1>0 DEF Dicts
  <2> QED
    BY <1>0, <1>2, <2>1 DEF Builders, Fresh
<1> HIDE DEF y
<1>4. Sound(y)
  BY <1>0, <1>3, FS_EmptySet DEF Sound, Agrees
<1>5. returned' \in Dicts /\ Fits(returned)' /\ loads' \in Nat /\ loads' # 0
  BY <1>0, <1>1 DEF Fits, Body
<1>6. Result(y, "ok").b = y
  BY DEF Result
<1> QED
  BY <1>0, <1>1, <1>4, <1>5, <1>6, EndsInv

LEMMA OutsideInv ==
    ASSUME BuilderInv,
           \/ \E k \in Accounts \X Kept : AddKey(k)
           \/ ToggleLock \/ Tick \/ UNCHANGED vars
    PROVE  BuilderInv' /\ nextOp' = nextOp
<1>1. UNCHANGED <<b, nextOp, returned, loads, sent>>
  BY DEF AddKey, ToggleLock, Tick, vars
<1>2. wallet' \in SUBSET Keys /\ locked' \in BOOLEAN /\ now' \in Nat \ {0}
  <2>1. TypeOK
    BY DEF BuilderInv
  <2>2. \A k \in Accounts \X Kept : k \in Keys
    BY DEF Keys
  <2>3. CASE \E k \in Accounts \X Kept : AddKey(k)
    BY <2>1, <2>2, <2>3 DEF AddKey, TypeOK
  <2>4. CASE ToggleLock
    BY <2>1, <2>4 DEF ToggleLock, TypeOK
  <2>5. CASE Tick
    BY <2>1, <2>5 DEF Tick, TypeOK
  <2>6. CASE UNCHANGED vars
    BY <2>1, <2>6 DEF vars, TypeOK
  <2> QED
    BY <2>3, <2>4, <2>5, <2>6
<1>3. TypeOK'
  BY <1>1, <1>2 DEF BuilderInv, TypeOK
<1> QED
  BY <1>1, <1>3 DEF BuilderInv, Sound, Agrees, Fits, Body, Unsent, FreshOps, SentBefore, SentOnce

\* A step keeps the invariant; if it makes an operation it sends nothing, or the
\* transaction that finalizeOp has signed.
LEMMA BuilderStep ==
    ASSUME BuilderInv, [Next]_vars
    PROVE  /\ BuilderInv'
           /\ \/ nextOp' = nextOp
              \/ out' # "sent" /\ sent' = sent
              \/ \E d \in Dicts :
                    /\ sent' = Append(sent, d)
                    /\ d.sigs # <<>> /\ d.ops = b.ops \o <<nextOp>>
<1>1. ASSUME NEW a \in Accounts, NEW p \in Asked, NEW up \in BOOLEAN,
             Finalize(a, p, up) \/ Bundle(a, p, up) \/ Unsigned(a, p, up)
      PROVE  /\ BuilderInv'
             /\ \/ out' # "sent" /\ sent' = sent
                \/ \E d \in Dicts :
                      /\ sent' = Append(sent, d)
                      /\ d.sigs # <<>> /\ d.ops = b.ops \o <<nextOp>>
  BY <1>1, FinalizeSends, BundleInv, UnsignedInv
<1> QED
  BY <1>1, MethodsInv, AppendOpsInv, BroadcastInv, LoadInv, OutsideInv DEF Next

LEMMA BuilderAlways == Spec => []BuilderInv
<1>1. BuilderInv /\ [Next]_vars => BuilderInv'
  BY BuilderStep
<1> QED
  BY <1>1, BuilderInit, PTL DEF Spec

-----------------------------------------------------------------------------
(* The results.                                                            *)

\* The builder keeps its types under every sequence of calls and failures.
THEOREM BuilderTypeCorrect == Spec => []TypeOK
<1>1. BuilderInv => TypeOK
  BY DEF BuilderInv
<1> QED
  BY <1>1, BuilderAlways, PTL

\* A signature that is sent was made for the transaction it is sent with, whatever calls
\* came before and wherever they failed (transactionbuilder.py: sign, broadcast, clear).
THEOREM SentSignaturesFit == Spec => []SignaturesFit
<1>1. BuilderInv => SignaturesFit
  BY DEF BuilderInv, SignaturesFit, Fits
<1> QED
  BY <1>1, BuilderAlways, PTL

\* As long as the program loads no transaction, no operation is sent twice: not in two
\* transactions after a failed broadcast, and not in one.
THEOREM OperationsAreSentOnce == Spec => []OpSentOnce
<1>1. BuilderInv => OpSentOnce
  <2> SUFFICES ASSUME BuilderInv, loads = 0, NEW q \in Places, NEW r \in Places, q # r
               PROVE  sent[q[1]].ops[q[2]] # sent[r[1]].ops[r[2]]
    BY DEF OpSentOnce
  <2>1. /\ q[1] \in DOMAIN sent /\ q[2] \in DOMAIN sent[q[1]].ops
        /\ r[1] \in DOMAIN sent /\ r[2] \in DOMAIN sent[r[1]].ops
        /\ q[1] # r[1] \/ q[2] # r[2]
    BY DEF Places
  <2> QED
    BY <2>1 DEF BuilderInv, SentOnce
<1> QED
  BY <1>1, BuilderAlways, PTL

\* The last element of a sequence that something was appended to.
LEMMA LastOfAppend ==
    ASSUME NEW S, NEW s \in Seq(S), NEW e \in S
    PROVE  Last(Append(s, e)) = e
  BY AppendProperties DEF Last

\* What finalizeOp sends is signed.
THEOREM FinalizeSendsSigned == Spec => FinalizeSigns
<1>1. ASSUME BuilderInv, [Next]_vars
      PROVE  [nextOp' # nextOp /\ sent' # sent => Last(sent').sigs # <<>>]_vars
  <2>1. sent \in Seq(Dicts)
    BY <1>1 DEF BuilderInv, TypeOK
  <2> QED
    BY <1>1, <2>1, BuilderStep, LastOfAppend
<1> QED
  BY <1>1, BuilderAlways, PTL DEF Spec, FinalizeSigns

\* A finalizeOp that reports success has sent its operation, whatever the buffer held.
THEOREM SuccessSendsTheOperation == Spec => SuccessIsSent
<1>1. ASSUME BuilderInv, [Next]_vars
      PROVE  [out' = "sent" /\ nextOp' # nextOp =>
                \E i \in DOMAIN Last(sent').ops : Last(sent').ops[i] = nextOp]_vars
  <2>1. sent \in Seq(Dicts) /\ b.ops \in Seq(Nat) /\ nextOp \in Nat
    BY <1>1 DEF BuilderInv, TypeOK, Builders
  <2>2. ASSUME out' = "sent", nextOp' # nextOp
        PROVE  \E i \in DOMAIN Last(sent').ops : Last(sent').ops[i] = nextOp
    <3>1. Last(sent').ops = b.ops \o <<nextOp>>
      BY ZenonT(60), <1>1, <2>1, <2>2, BuilderStep, LastOfAppend
    <3>2. \E i \in DOMAIN (b.ops \o <<nextOp>>) : (b.ops \o <<nextOp>>)[i] = nextOp
      BY <2>1, OneMore
    <3> QED
      BY <3>1, <3>2
  <2> QED
    BY <2>2
<1> QED
  BY <1>1, BuilderAlways, PTL DEF Spec, SuccessIsSent

====
