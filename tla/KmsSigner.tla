------------------------------ MODULE KmsSigner ------------------------------
(***************************************************************************)
(* kmsSender.Sign (internal/sender/kms.go): KMS answers with an ECDSA      *)
(* signature (R, S) and no recovery id; Sign moves S to the lower half of  *)
(* the group and finds V by recovering the public key.                     *)
(*                                                                         *)
(* The curve is abstracted to a cyclic group of prime order N: a point is  *)
(* its multiple of the generator, 0 is the point at infinity.  A point and *)
(* its negative share their x and differ in the parity of their y.  An x   *)
(* is an element of the field, which is larger than N on secp256k1; R is   *)
(* the x reduced modulo N.                                                 *)
(***************************************************************************)
EXTENDS Integers

CONSTANTS
    N,       \* order of the group
    XCoord,  \* of every point but Infinity
    YParity

Infinity == 0
Scalar == 1 .. N - 1
HalfN == N \div 2

ASSUME KmsSignerAssumption ==
    /\ N \in Nat /\ N > 2
    /\ \A i \in 2 .. N - 1 : N % i # 0

ASSUME CurveAssumption ==
    /\ XCoord \in [Scalar -> Nat]
    /\ YParity \in [Scalar -> {0, 1}]
    /\ \A p, q \in Scalar : XCoord[p] = XCoord[q] <=> q \in {p, N - p}
    /\ \A p \in Scalar : YParity[p] # YParity[N - p]

InverseModN(a) == CHOOSE i \in Scalar : (a * i) % N = 1

\* The points that recovery id v (0 or 1) takes r for: those whose x is r
\* itself.  The x of ids 2 and 3 would be r + N.
Lifts(r, v) == {p \in Scalar : XCoord[p] = r /\ YParity[p] = v}

\* crypto.Ecrecover: Infinity stands for an error, r is no x of a point or the
\* key is no point.
Ecrecover(h, r, s, v) ==
    IF Lifts(r, v) = {} THEN Infinity
    ELSE LET R == CHOOSE p \in Lifts(r, v) : TRUE
         IN  (InverseModN(r) * (s * R - h)) % N

\* Reference: the textbook verification of (r, s), which knows no V, and the
\* point of the signature it computes.
SignedPoint(h, r, s, pub) == (InverseModN(s) * (h + r * pub)) % N

Verifies(h, r, s, pub) ==
    LET p == SignedPoint(h, r, s, pub)
    IN  p # Infinity /\ XCoord[p] % N = r

VARIABLES
    publicKey,  \* of the sender, as a point; also its private key
    hash,       \* argument of Sign
    sigR, sigS, \* the signature so far
    sigV,       \* sigRSV[64]
    pc

vars == <<publicKey, hash, sigR, sigS, sigV, pc>>

TypeOK ==
    /\ publicKey \in Scalar /\ hash \in 0 .. N - 1
    /\ sigR \in Scalar /\ sigS \in Scalar /\ sigV \in {0, 1}
    /\ pc \in {"sign", "lowS", "try0", "try1", "signed", "kmsError", "error"}

\* FromKMS has read the public key; Tick asks for a signature of a hash.
Init ==
    /\ publicKey \in Scalar
    /\ hash \in 0 .. N - 1
    /\ sigR = 1 /\ sigS = 1 /\ sigV = 0
    /\ pc = "sign"

\* KMS signs with a secret k of its choice that makes neither R nor S zero, or
\* the call fails.
KmsSign ==
    /\ pc = "sign"
    /\ \/ \E k \in Scalar :
            /\ sigR' = XCoord[k] % N
            /\ sigS' = (InverseModN(k) * (hash + sigR' * publicKey)) % N
            /\ sigR' # 0 /\ sigS' # 0
            /\ pc' = "lowS"
       \/ /\ pc' = "kmsError"
          /\ UNCHANGED <<sigR, sigS>>
    /\ UNCHANGED <<publicKey, hash, sigV>>

\* Variant: S is left as it came.
LowSNot ==
    /\ pc = "lowS"
    /\ pc' = "try0"
    /\ UNCHANGED <<publicKey, hash, sigR, sigS, sigV>>

\* Variant: S is reduced modulo the half.
LowSModulo ==
    /\ pc = "lowS"
    /\ sigS' = sigS % HalfN
    /\ pc' = "try0"
    /\ UNCHANGED <<publicKey, hash, sigR, sigV>>

LowS ==
    /\ pc = "lowS"
    /\ sigS' = IF sigS > HalfN THEN N - sigS ELSE sigS
    /\ pc' = "try0"
    /\ UNCHANGED <<publicKey, hash, sigR, sigV>>

\* The outcome of a recovery, or what comes after it.
AfterRecovery(point, otherwise) ==
    IF point = Infinity THEN "error"
    ELSE IF point = publicKey THEN "signed"
    ELSE otherwise

Try0 ==
    /\ pc = "try0"
    /\ pc' = AfterRecovery(Ecrecover(hash, sigR, sigS, 0), "try1")
    /\ UNCHANGED <<publicKey, hash, sigR, sigS, sigV>>

\* Variant: recovers under the old V again.
Try1Stale ==
    /\ pc = "try1"
    /\ sigV' = 1
    /\ pc' = AfterRecovery(Ecrecover(hash, sigR, sigS, sigV), "error")
    /\ UNCHANGED <<publicKey, hash, sigR, sigS>>

Try1 ==
    /\ pc = "try1"
    /\ sigV' = 1
    /\ pc' = AfterRecovery(Ecrecover(hash, sigR, sigS, 1), "error")
    /\ UNCHANGED <<publicKey, hash, sigR, sigS>>

Next == KmsSign \/ LowS \/ Try0 \/ Try1

Spec == Init /\ [][Next]_vars

-----------------------------------------------------------------------------
\* What Sign returns (kms.go:67, 77) is what Ethereum accepts: S in the lower
\* half, a valid signature of the hash although S may have been changed after
\* KMS signed, and the V under which the sender's key is recovered.
ReturnsValid ==
    pc = "signed" =>
        /\ sigS <= HalfN
        /\ Verifies(hash, sigR, sigS, publicKey)
        /\ Ecrecover(hash, sigR, sigS, sigV) = publicKey

\* Sign gives up (kms.go:64, 74, 81) on exactly the answers of KMS whose point
\* has an x that did not fit R, so that recovery id 2 or 3 would be needed, and
\* those where recovery under V = 0 is undefined: every other answer is signed.
GivesUpExactly ==
    pc \in {"signed", "error"} =>
        (pc = "error" <=>
            \/ XCoord[SignedPoint(hash, sigR, sigS, publicKey)] >= N
            \/ Ecrecover(hash, sigR, sigS, 0) = Infinity)
=============================================================================
