------------------------------ MODULE KzgBatch ------------------------------
(***************************************************************************)
(* KZG proofs of encoded payloads: the prover (crates/compute-proof) and   *)
(* the batch verifier of the zkVM build (crates/sp1-bn-verifier).          *)
(*                                                                         *)
(* The scalar field has P elements.  A point of G1 is its discrete         *)
(* logarithm, so that [tau] is Tau, a multi-scalar multiplication is a sum *)
(* of products and a pairing a product.  A point and its negative share    *)
(* the x coordinate.  A hash is an arbitrary value per message.            *)
(***************************************************************************)
EXTENDS PrimeField, PowersOfTwo

CONSTANTS
    Tau,         \* the secret of the SRS
    Roots,       \* PRIMITIVE_ROOTS_OF_UNITY: Roots[k + 1] has order 2^k
    SrsSize,     \* MAINNET_SRS_G1_SIZE
    Requests     \* the lists of blobs to prove, with what is changed in them

\* A blob is its 32-byte chunks, as numbers, and the bytes that are left over.
\* error is added to the honest commitment and the honest proof; commitments
\* and proofs are how many of each reach the verifier.
RequestRecord ==
    [items : Seq([blob : [chunks : Seq(Nat), rest : Nat],
                  error : [commitment : Fr, proof : Fr]]),
     commitments : Nat, proofs : Nat]

NextPowerOfTwo(n) == Min({TwoTo(n)[k] : k \in {j \in 0..n : TwoTo(n)[j] >= n}})
Log2(n) == CHOOSE k \in 0..n : TwoTo(n)[k] = n

\* The size of the SRS is a power of two, and there is a root of unity for
\* every blob that it has room for.
ASSUME KzgAssumption ==
    /\ Tau \in Fr
    /\ SrsSize \in Nat /\ \E k \in 0..SrsSize : TwoTo(SrsSize)[k] = SrsSize
    /\ Requests \subseteq RequestRecord
    /\ \A q \in Requests : q.commitments <= Len(q.items) /\ q.proofs <= Len(q.items)
    /\ Roots \in Seq(Fr)
    /\ \A n \in 1..SrsSize : Log2(NextPowerOfTwo(n)) + 1 \in DOMAIN Roots
    /\ \A k \in DOMAIN Roots :
         LET order == TwoTo(k)[k - 1]
         IN  Power(Roots[k], order) = 1 /\ \A n \in 1..(order - 1) : Power(Roots[k], n) # 1

VARIABLES
    request,   \* what the prover is asked for
    hash,      \* SHA-256 modulo P, for the messages hashed so far
    given,     \* what reaches the verifier: blobs, commitments and proofs
    pc,
    zs, ys,    \* the challenges and the evaluations
    result     \* of verify_blob_kzg_proof_batch: "true", "false" or "error"

vars == <<request, hash, given, pc, zs, ys, result>>

-----------------------------------------------------------------------------
(***************************************************************************)
(* Polynomials in evaluation form                                          *)
(***************************************************************************)

\* to_fr_array_canonical: whole chunks, each below the order of the field.
Canonical(blob) ==
    /\ blob.rest = 0
    /\ \A i \in DOMAIN blob.chunks : blob.chunks[i] < P

\* PolynomialEvalForm::new: zeros up to a power of two, one zero for nothing.
PolynomialEvalForm(evals) ==
    [evaluations |-> [i \in 1..NextPowerOfTwo(Len(evals)) |->
                        IF i <= Len(evals) THEN evals[i] ELSE 0],
     underlying |-> Len(evals)]

\* Powers of the root up to the first that is one again, which is included.
ExpandRootOfUnity(root) ==
    LET back == {i \in 1..(SrsSize + 1) : Power(root, i) = 1}
        last == IF back = {} THEN SrsSize + 1 ELSE Min(back)
    IN  [i \in 1..(last + 1) |-> Power(root, i - 1)]

\* Mutant of CalculateRootsOfUnity: the one at the end is kept.
CalculateRootsOfUnityWithLast(n) ==
    IF n = 0 \/ n > SrsSize \/ Log2(NextPowerOfTwo(n)) + 1 \notin DOMAIN Roots
    THEN << >>
    ELSE ExpandRootOfUnity(Roots[Log2(NextPowerOfTwo(n)) + 1])

\* The domain of a blob of n elements; empty stands for an error.
CalculateRootsOfUnity(n) ==
    IF n = 0 \/ n > SrsSize \/ Log2(NextPowerOfTwo(n)) + 1 \notin DOMAIN Roots
    THEN << >>
    ELSE LET roots == ExpandRootOfUnity(Roots[Log2(NextPowerOfTwo(n)) + 1])
         IN  SubSeq(roots, 1, Len(roots) - 1)

\* The polynomial has as many evaluations as its domain has points.
Evaluable(poly) ==
    /\ CalculateRootsOfUnity(poly.underlying) # << >>
    /\ Len(poly.evaluations) = Len(CalculateRootsOfUnity(poly.underlying))

\* Mutant of EvaluatePolynomial: no case for a point of the domain.
EvaluateBarycentric(poly, z) ==
    LET roots == CalculateRootsOfUnity(poly.underlying)
        width == Len(poly.evaluations)
        sum == SumOf([i \in 1..width |-> poly.evaluations[i] * roots[i]
                                           * Inv((z - roots[i]) % P)])
    IN  (sum * (Power(z, width) - 1) * Inv(width % P)) % P

\* evaluate_polynomial_in_evaluation_form
EvaluatePolynomial(poly, z) ==
    LET roots == CalculateRootsOfUnity(poly.underlying)
        width == Len(poly.evaluations)
        sum == SumOf([i \in 1..width |-> poly.evaluations[i] * roots[i]
                                           * Inv((z - roots[i]) % P)])
    IN  IF \E i \in 1..width : roots[i] = z
        THEN poly.evaluations[CHOOSE i \in 1..width : roots[i] = z]
        ELSE (sum * (Power(z, width) - 1) * Inv(width % P)) % P

\* The value at x of the polynomial of least degree with these evaluations.
Interpolate(poly, x) ==
    LET n == Len(poly.evaluations)
        point(i) == Power(Roots[Log2(n) + 1], i - 1)
        over(i, a) == ProductOf([j \in 1..n |-> IF j = i THEN 1 ELSE (a - point(j)) % P])
    IN  SumOf([i \in 1..n |-> poly.evaluations[i] * over(i, x)
                                * Inv(over(i, point(i)))]) % P

-----------------------------------------------------------------------------
(***************************************************************************)
(* Messages that are hashed                                                *)
(***************************************************************************)

\* serialize_g1_compressed: the x coordinate and the sign of y, or a flag.
SerializeG1(point) ==
    IF point = 0 THEN [infinity |-> TRUE]
    ELSE [x |-> Min({point, P - point}), negative |-> point > P - point]

\* compute_challenge: the padded evaluations and the commitment.
ChallengeMessage(poly, commitment) ==
    [domain |-> "EIGENDA_FSBLOBVERIFY_V1_", n_fe |-> Len(poly.evaluations),
     blob |-> poly.evaluations, commitment |-> SerializeG1(commitment)]

\* Mutant of BatchMessage: the lengths of the blobs are not written.
BatchMessageWithoutLengths(entries) ==
    LET n == Len(entries)
    IN  [domain |-> "EIGENDA_RCKZGBATCH___V1_",
         words |-> [j \in 0..(n + 1) |-> IF j = 1 THEN n ELSE 0],
         data |-> [i \in 1..n |-> <<SerializeG1(entries[i].commitment),
                                    entries[i].z, entries[i].y,
                                    SerializeG1(entries[i].proof)>>]]

\* compute_r_powers: n + 2 words of eight bytes follow the domain separator.
\* The number of entries goes to the second, the lengths to the first n, so
\* that they overwrite it if there are two or more.
BatchMessage(entries) ==
    LET n == Len(entries)
    IN  [domain |-> "EIGENDA_RCKZGBATCH___V1_",
         words |-> [j \in 0..(n + 1) |-> IF j < n THEN entries[j + 1].length
                                         ELSE IF j = 1 THEN n ELSE 0],
         data |-> [i \in 1..n |-> <<SerializeG1(entries[i].commitment),
                                    entries[i].z, entries[i].y,
                                    SerializeG1(entries[i].proof)>>]]

\* hash_to_field_element: the same message gives the same value.
HashesTo(message, value) ==
    /\ message \in DOMAIN hash => value = hash[message]
    /\ hash' = [m \in DOMAIN hash \cup {message} |->
                  IF m = message THEN value ELSE hash[m]]

-----------------------------------------------------------------------------
(***************************************************************************)
(* The prover                                                              *)
(***************************************************************************)

NoPoint == -1   \* coordinates that are not on the curve

\* The coordinates of a point; those of infinity are (0, 0), which the curve
\* y^2 = x^3 + 3 does not have.
Encode(point) == IF point = 0 THEN NoPoint ELSE point

\* AffineG1::new, by g1_point_to_affine and proof_bytes_to_affine
OnCurve(coordinates) == coordinates # NoPoint

Commit(poly) == Interpolate(poly, Tau)

\* compute_kzg_proof: the quotient (p(x) - y) / (x - z) at Tau
ComputeBlobProof(poly, z) ==
    ((Commit(poly) - Interpolate(poly, z)) * Inv((Tau - z) % P)) % P

\* The prover panics or fails on other blobs.
Provable(blob) == Canonical(blob) /\ Len(blob.chunks) \in 1..SrsSize

\* A blob is proved and its commitment and its proof are sent, perhaps with an
\* error; with a blob that cannot be proved, any two points are sent.
Prove ==
    /\ pc = "prove"
    /\ Len(given.blobs) < Len(request.items)
    /\ LET item == request.items[Len(given.blobs) + 1]
           poly == PolynomialEvalForm(item.blob.chunks)
       IN  \E z \in Fr \ {Tau} :
             LET commitment == IF Provable(item.blob)
                               THEN (Commit(poly) + item.error.commitment) % P
                               ELSE item.error.commitment
                 proof == IF Provable(item.blob)
                          THEN (ComputeBlobProof(poly, z) + item.error.proof) % P
                          ELSE item.error.proof
             IN  /\ IF Provable(item.blob)
                    THEN HashesTo(ChallengeMessage(poly, commitment), z)
                    ELSE UNCHANGED hash
                 /\ given' = [blobs |-> Append(given.blobs, item.blob),
                              commitments |-> Append(given.commitments, Encode(commitment)),
                              proofs |-> Append(given.proofs, Encode(proof))]
    /\ UNCHANGED <<request, pc, zs, ys, result>>

\* The verifier gets its three iterators.
Send ==
    /\ pc = "prove"
    /\ Len(given.blobs) = Len(request.items)
    /\ given' = [given EXCEPT !.commitments = SubSeq(@, 1, request.commitments),
                              !.proofs = SubSeq(@, 1, request.proofs)]
    /\ pc' = "parse"
    /\ UNCHANGED <<request, hash, zs, ys, result>>

-----------------------------------------------------------------------------
(***************************************************************************)
(* verify_blob_kzg_proof_batch                                             *)
(***************************************************************************)

Poly(i) == PolynomialEvalForm(given.blobs[i].chunks)

\* Mutant of WellFormed: the numbers of blobs and points are not compared.
WellFormedUncounted ==
    /\ \A i \in DOMAIN given.blobs :
         Canonical(given.blobs[i]) /\ Len(given.blobs[i].chunks) <= SrsSize
    /\ \A i \in DOMAIN given.commitments : OnCurve(given.commitments[i])
    /\ \A i \in DOMAIN given.proofs : OnCurve(given.proofs[i])

\* All blobs and points can be read and there are as many of each.
WellFormed ==
    /\ \A i \in DOMAIN given.blobs :
         Canonical(given.blobs[i]) /\ Len(given.blobs[i].chunks) <= SrsSize
    /\ \A i \in DOMAIN given.commitments : OnCurve(given.commitments[i])
    /\ \A i \in DOMAIN given.proofs : OnCurve(given.proofs[i])
    /\ Len(given.commitments) = Len(given.blobs)
    /\ Len(given.proofs) = Len(given.blobs)

Return(r) == result' = r /\ pc' = "done"

Parse ==
    /\ pc = "parse"
    /\ \/ ~WellFormed /\ Return("error")
       \/ WellFormed /\ given.blobs = << >> /\ Return("true")
       \/ WellFormed /\ given.blobs # << >> /\ pc' = "challenge" /\ UNCHANGED result
    /\ UNCHANGED <<request, hash, given, zs, ys>>

\* One round of compute_challenges_and_evaluate_polynomial
ChallengeAndEvaluate ==
    /\ pc = "challenge"
    /\ Len(zs) < Len(given.blobs)
    /\ LET i == Len(zs) + 1 IN
         \E z \in Fr \ {Tau} :
           /\ HashesTo(ChallengeMessage(Poly(i), given.commitments[i]), z)
           /\ \/ ~Evaluable(Poly(i)) /\ Return("error") /\ UNCHANGED <<zs, ys>>
              \/ /\ Evaluable(Poly(i))
                 /\ zs' = Append(zs, z)
                 /\ ys' = Append(ys, EvaluatePolynomial(Poly(i), z))
                 /\ UNCHANGED <<pc, result>>
    /\ UNCHANGED <<request, given>>

\* Mutant of ComputePowers: the loop does not multiply.
ComputePowersOfOne(base, count) == [i \in 1..count |-> base]

\* compute_powers: 1, base, base^2, ...
ComputePowers(base, count) == [i \in 1..count |-> Power(base, i - 1)]

\* g1_lincomb
LinComb(points, scalars) ==
    SumOf([i \in 1..Len(points) |-> points[i] * scalars[i]]) % P

\* pairings_verify: e(a1, a2) = e(b1, b2)
PairingsVerify(a1, a2, b1, b2) == (a1 * a2) % P = (b1 * b2) % P

\* Mutant of VerifyKzgProofBatch: the points z are not scaled.
VerifyUnscaled(r) ==
    LET n == Len(given.commitments)
        r_powers == ComputePowers(r, n)
        c_minus_y == [i \in 1..n |-> (given.commitments[i] - ys[i]) % P]
        proof_lincomb == LinComb(given.proofs, r_powers)
        rhs_g1 == LinComb(c_minus_y, r_powers) + LinComb(given.proofs, zs)
    IN  PairingsVerify(proof_lincomb, Tau, rhs_g1, 1)

\* verify_kzg_proof_batch, for the challenge r
VerifyKzgProofBatch(r) ==
    LET n == Len(given.commitments)
        r_powers == ComputePowers(r, n)
        c_minus_y == [i \in 1..n |-> (given.commitments[i] - ys[i]) % P]
        r_times_z == [i \in 1..n |-> (r_powers[i] * zs[i]) % P]
        proof_lincomb == LinComb(given.proofs, r_powers)
        rhs_g1 == LinComb(c_minus_y, r_powers) + LinComb(given.proofs, r_times_z)
    IN  PairingsVerify(proof_lincomb, Tau, rhs_g1, 1)

Entries ==
    [i \in DOMAIN given.blobs |->
        [length |-> Len(Poly(i).evaluations), commitment |-> given.commitments[i],
         z |-> zs[i], y |-> ys[i], proof |-> given.proofs[i]]]

VerifyBatch ==
    /\ pc = "challenge"
    /\ Len(zs) = Len(given.blobs)
    /\ \E r \in Fr : /\ HashesTo(BatchMessage(Entries), r)
                     /\ Return(IF VerifyKzgProofBatch(r) THEN "true" ELSE "false")
    /\ UNCHANGED <<request, given, zs, ys>>

\* batch_verify: an error is a rejection.
BatchVerify == result = "true"

Done == pc = "done" /\ UNCHANGED vars

Init ==
    /\ request \in Requests
    /\ hash = [m \in {} |-> 0]
    /\ given = [blobs |-> << >>, commitments |-> << >>, proofs |-> << >>]
    /\ pc = "prove"
    /\ zs = << >>
    /\ ys = << >>
    /\ result = "none"

Next == Prove \/ Send \/ Parse \/ ChallengeAndEvaluate \/ VerifyBatch \/ Done

Spec == Init /\ [][Next]_vars

-----------------------------------------------------------------------------
\* Once the input is parsed, the lists the verifier indexes together are as
\* long as each other, and its points are points of the curve.
TypeOK ==
    /\ request \in Requests
    /\ \A m \in DOMAIN hash : hash[m] \in Fr
    /\ given.commitments \in Seq(Fr \cup {NoPoint})
    /\ given.proofs \in Seq(Fr \cup {NoPoint})
    /\ pc \in {"prove", "parse", "challenge", "done"}
    /\ zs \in Seq(Fr) /\ ys \in Seq(Fr) /\ Len(ys) = Len(zs)
    /\ pc = "challenge" =>
         /\ Len(given.commitments) = Len(given.blobs)
         /\ Len(given.proofs) = Len(given.blobs)
         /\ \A i \in DOMAIN given.blobs :
              given.commitments[i] # NoPoint /\ given.proofs[i] # NoPoint
    /\ result \in {"none", "true", "false", "error"}

Honest ==
    /\ \A i \in DOMAIN request.items :
         request.items[i].error = [commitment |-> 0, proof |-> 0]
    /\ request.commitments = Len(request.items)
    /\ request.proofs = Len(request.items)

\* The barycentric formula gives the value of the polynomial through the
\* evaluations, for every size of blob and every challenge, also one that is
\* itself a point of the domain (evaluate_polynomial_in_evaluation_form,
\* calculate_roots_of_unity).
EvaluationIsInterpolation ==
    \A i \in DOMAIN ys : ys[i] = Interpolate(Poly(i), zs[i])

\* What the prover computes the verifier accepts, whatever the challenges:
\* both hash the same messages and use the same domain, and the terms of the
\* batch equation cancel.  Blobs that the prover fails on and points at
\* infinity are left aside (compute_kzg_proof against batch_verify).
HonestBatchAccepted ==
    /\ pc = "done" /\ Honest /\ WellFormed
    /\ \A i \in DOMAIN given.blobs : Provable(given.blobs[i])
    => BatchVerify

\* The equation of entry i alone.
EntryHolds(i) ==
    (given.proofs[i] * (Tau - zs[i])) % P = (given.commitments[i] - ys[i]) % P

\* If the equation of every entry holds the batch passes, whatever r is: the
\* terms of the single equation for the batch cancel (verify_kzg_proof_batch).
RightEntriesPass ==
    /\ pc = "challenge" /\ Len(zs) = Len(given.blobs)
    /\ \A i \in DOMAIN zs : EntryHolds(i)
    => \A r \in Fr : VerifyKzgProofBatch(r)

\* If an entry is wrong, the batch passes for fewer challenges than it has
\* entries: errors in several entries can only cancel for single values of r,
\* which are fixed before r is known (verify_kzg_proof_batch, compute_powers).
WrongEntriesRarelyPass ==
    (pc = "challenge" /\ Len(zs) = Len(given.blobs)) =>
        \/ \A i \in DOMAIN zs : EntryHolds(i)
        \/ Cardinality({r \in Fr : VerifyKzgProofBatch(r)}) < Len(zs)

Changed(entries, i, f, v) == [entries EXCEPT ![i] = [@ EXCEPT ![f] = v]]

\* Batches that differ from this one in one place or in their length.
Neighbours(entries) ==
    LET n == Len(entries)
    IN  {Changed(entries, i, f, v) : i \in 1..n, f \in DOMAIN entries[1], v \in Fr}
          \cup {SubSeq(entries, 1, n - 1), entries \o entries}

\* The challenge r is bound to every entry, to the lengths of the blobs and to
\* their number, although the number is overwritten in the message
\* (compute_r_powers).
BatchMessageBinds ==
    (pc = "challenge" /\ Len(zs) = Len(given.blobs)) =>
        \A other \in Neighbours(Entries) :
            BatchMessage(other) = BatchMessage(Entries) => other = Entries

\* The point at infinity is accepted (the comment on validate_g1_point): no
\* honest batch of blobs that can be proved is rejected because of a point.
InfinityIsAccepted ==
    /\ pc = "done" /\ Honest
    /\ \A i \in DOMAIN given.blobs : Provable(given.blobs[i])
    => result # "error"

=============================================================================
