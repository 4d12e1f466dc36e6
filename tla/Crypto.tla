------------------------------- MODULE Crypto -------------------------------
(***************************************************************************)
(* crypto/crypto.cpp: addresses, outputs, signatures, key images, ring     *)
(* signatures and proofs of sending, over the group that CurveOps shows    *)
(* crypto-ops.c to implement.  A point is its multiple of a generator of   *)
(* the whole curve, which has eight times Ell points; an encoding is its   *)
(* point, or Bad.  Hashes are constants.  Arithmetic on scalars is modulo  *)
(* Ell; a scalar in a message may be any number of its bytes.              *)
(***************************************************************************)
EXTENDS Integers, Sequences

CONSTANTS Ell,                 \* the order of the base point, a prime
          HashScalar(_),       \* hash_to_scalar of a sequence of numbers
          HashPoint(_)         \* ge_fromfe of the hash of a key: any point

Order == 8 * Ell
Point == 0 .. Order - 1
Bad == -1
B == 8

EllAssumption == Ell \in Nat /\ Ell % 2 = 1 /\ Ell > 8

(***************************************************************************)
(* What crypto-ops.c computes                                              *)
(***************************************************************************)
frombytes(key) == key \in Point
scalarmult(a, p) == (a * p) % Order
add(p, q) == (p + q) % Order
sub(p, q) == (p - q) % Order
mul8(p) == (8 * p) % Order
\* a p + b q
double_scalarmult(a, p, b, q) == add(scalarmult(a, p), scalarmult(b, q))
check_subgroup(p) == scalarmult(Ell, p) # 0

sc_isvalid(s) == s \in 0 .. Ell - 1
sc_reduce(s) == s % Ell
sc_reduce32(s) == s % Ell
sc_0 == 0
sc_add(a, b) == (a + b) % Ell
sc_sub(a, b) == (a - b) % Ell
sc_mulsub(a, b, c) == (c - a * b) % Ell
sc_iszero(s) == s = 0

(***************************************************************************)
(* crypto.cpp                                                              *)
(***************************************************************************)
hash_to_scalar(buf) == sc_reduce32(HashScalar(buf))
random_scalar(bytes) == sc_reduce(bytes)
key_isvalid(key) == frombytes(key)
secret_key_to_public_key(sec) == IF sc_isvalid(sec) THEN scalarmult(sec, B) ELSE Bad
keys_match(sec, pub) == secret_key_to_public_key(sec) # Bad /\ secret_key_to_public_key(sec) = pub
random_keypair(bytes) == [sec |-> random_scalar(bytes), pub |-> scalarmult(random_scalar(bytes), B)]

generate_key_derivation(key1, key2) ==
    IF frombytes(key1) THEN mul8(scalarmult(key2, key1)) ELSE Bad

\* varint of the output index; the suffix is empty in the plain form
write_varint(i) == IF i < 128 THEN <<i>> ELSE <<128 + (i % 128), i \div 128>>
derivation_to_scalar(derivation, output_index, suffix) ==
    hash_to_scalar(<<derivation>> \o write_varint(output_index) \o suffix)

derive_public_key(derivation, output_index, base, suffix) ==
    IF frombytes(base)
    THEN add(base, scalarmult(derivation_to_scalar(derivation, output_index, suffix), B)) ELSE Bad
underive_public_key(derivation, output_index, derived_key, suffix) ==
    IF frombytes(derived_key)
    THEN sub(derived_key, scalarmult(derivation_to_scalar(derivation, output_index, suffix), B)) ELSE Bad
underive_public_key_and_get_scalar(derivation, output_index, derived_key) ==
    [base |-> underive_public_key(derivation, output_index, derived_key, <<>>),
     hashed_derivation |-> derivation_to_scalar(derivation, output_index, <<>>)]
derive_secret_key(derivation, output_index, base, suffix) ==
    sc_add(base, derivation_to_scalar(derivation, output_index, suffix))

generate_signature(prefix_hash, pub, sec, k) ==
    LET c == hash_to_scalar(<<prefix_hash, pub, scalarmult(k, B)>>) IN
    [c |-> c, r |-> sc_mulsub(c, sec, k)]
check_signature(prefix_hash, pub, sig) ==
    /\ frombytes(pub)
    /\ sc_isvalid(sig.c) /\ sc_isvalid(sig.r)
    /\ sc_iszero(sc_sub(hash_to_scalar(<<prefix_hash, pub, double_scalarmult(sig.c, pub, sig.r, B)>>),
                        sig.c))

hash_to_ec(key) == mul8(HashPoint(key))
generate_key_image(pub, sec) == scalarmult(sec, hash_to_ec(pub))

\* The commitments of one member of a ring: to its key, and to its key image
Commitments(pub, image, sig) ==
    <<double_scalarmult(sig.c, pub, sig.r, B), double_scalarmult(sig.r, hash_to_ec(pub), sig.c, image)>>
SumOfC(sigs) == LET f[i \in 0 .. Len(sigs)] == IF i = 0 THEN sc_0 ELSE sc_add(f[i - 1], sigs[i].c) IN f[Len(sigs)]
rs_comm(prefix_hash, ab) ==
    LET f[i \in 0 .. Len(ab)] == IF i = 0 THEN <<prefix_hash>> ELSE f[i - 1] \o ab[i] IN f[Len(ab)]

\* random: the random signature of each other member; k is that of the signer
generate_ring_signature(prefix_hash, image, pubs, sec, sec_index, k, random) ==
    IF sec_index > Len(pubs) \/ ~frombytes(image) \/ \E i \in DOMAIN pubs : ~frombytes(pubs[i]) THEN <<>>
    ELSE LET ab == [i \in DOMAIN pubs |->
                        IF i = sec_index THEN <<scalarmult(k, B), scalarmult(k, hash_to_ec(pubs[i]))>>
                        ELSE Commitments(pubs[i], image, random[i])]
             sum == SumOfC([random EXCEPT ![sec_index].c = sc_0])
             c == sc_sub(hash_to_scalar(rs_comm(prefix_hash, ab)), sum) IN
         [random EXCEPT ![sec_index] = [c |-> c, r |-> sc_mulsub(c, sec, k)]]

\* (A faulty variant does not look at the subgroup of the key image.)
check_ring_signature_anyway(prefix_hash, image, pubs, sigs, check_key_image) ==
    /\ frombytes(image)
    /\ \A i \in DOMAIN pubs : sc_isvalid(sigs[i].c) /\ sc_isvalid(sigs[i].r) /\ frombytes(pubs[i])
    /\ sc_iszero(sc_sub(hash_to_scalar(rs_comm(prefix_hash,
                                               [i \in DOMAIN pubs |-> Commitments(pubs[i], image, sigs[i])])),
                        SumOfC(sigs)))
check_ring_signature(prefix_hash, image, pubs, sigs, check_key_image) ==
    /\ frombytes(image)
    /\ check_key_image => ~check_subgroup(image)
    /\ \A i \in DOMAIN pubs : sc_isvalid(sigs[i].c) /\ sc_isvalid(sigs[i].r) /\ frombytes(pubs[i])
    /\ sc_iszero(sc_sub(hash_to_scalar(rs_comm(prefix_hash,
                                               [i \in DOMAIN pubs |-> Commitments(pubs[i], image, sigs[i])])),
                        SumOfC(sigs)))

generate_sendproof(txkey_pub, txkey_sec, receiver_view_key_pub, derivation, message_hash, k) ==
    LET c == hash_to_scalar(<<message_hash, txkey_pub, receiver_view_key_pub, derivation,
                              scalarmult(k, B), mul8(scalarmult(k, receiver_view_key_pub))>>) IN
    IF frombytes(receiver_view_key_pub) THEN [c |-> c, r |-> sc_mulsub(c, txkey_sec, k)]
    ELSE [c |-> Bad, r |-> Bad]
check_sendproof(txkey_pub, receiver_view_key_pub, derivation, message_hash, proof) ==
    /\ sc_isvalid(proof.c) /\ sc_isvalid(proof.r)
    /\ frombytes(txkey_pub) /\ frombytes(derivation) /\ ~check_subgroup(derivation)
    /\ frombytes(receiver_view_key_pub)
    /\ sc_iszero(sc_sub(
           hash_to_scalar(<<message_hash, txkey_pub, receiver_view_key_pub, derivation,
                            double_scalarmult(proof.c, txkey_pub, proof.r, B),
                            double_scalarmult(proof.r, mul8(receiver_view_key_pub), proof.c, derivation)>>),
           proof.c))

(***************************************************************************)
(* One computation.  small is a point of small order put into what the     *)
(* other party sends; change says what became of it on its way.            *)
(***************************************************************************)
VARIABLES job, result
vars == <<job, result>>

Result(r) == result = <<>> /\ result' = r /\ UNCHANGED job
\* jobs: what is done, <<kind, arguments...>>
Init(jobs) == job \in jobs /\ result = <<>>

\* job: the transaction key, the receiver's view and spend keys, the output index
SendOutput ==
    /\ job[1] = "output"
    /\ LET tx == random_keypair(job[2])
           view == random_keypair(job[3])
           spend == random_keypair(job[4])
           index == job[5]
           suffix == job[6]
           sent == generate_key_derivation(view.pub, tx.sec)
           out == derive_public_key(sent, index, spend.pub, suffix)
           received == generate_key_derivation(add(tx.pub, job[7]), view.sec)
           sec == derive_secret_key(received, index, spend.sec, suffix) IN
       Result([spend |-> spend.pub, out |-> out, sec |-> sec,
               found |-> underive_public_key(received, index, out, suffix),
               scan |-> underive_public_key_and_get_scalar(received, index, out),
               match |-> keys_match(sec, out),
               image |-> generate_key_image(out, sec)])

SignMessage ==
    /\ job[1] = "sign"
    /\ LET key == random_keypair(job[2])
           sig == generate_signature(job[3], key.pub, key.sec, random_scalar(job[4])) IN
       Result([valid |-> key_isvalid(key.pub),
               accepted |-> \/ job[5] = "none" /\ check_signature(job[3], key.pub, sig)
                            \/ job[5] = "message" /\ check_signature(job[3] + 1, key.pub, sig)
                            \/ job[5] = "c" /\ check_signature(job[3], key.pub, [sig EXCEPT !.c = @ + Ell])
                            \/ job[5] = "r" /\ check_signature(job[3], key.pub, [sig EXCEPT !.r = @ + Ell])
                            \/ job[5] = "key" /\ check_signature(job[3], add(key.pub, B), sig)])

\* job: secret, place in the ring, random numbers, change, small order part of the image
SignRing ==
    /\ job[1] = "ring"
    /\ LET sec == random_scalar(job[2])
           pub == secret_key_to_public_key(sec)
           pubs == [job[3] EXCEPT ![job[4]] = pub]
           image == add(generate_key_image(pub, sec), job[8])
           sigs == generate_ring_signature(7, image, pubs, sec, job[4], random_scalar(job[5]), job[6])
           Check(h, im, ps, ss) == check_ring_signature(h, im, ps, ss, TRUE) IN
       Result([signed |-> sigs # <<>>,
               accepted |-> \/ job[7] = "none" /\ Check(7, image, pubs, sigs)
                            \/ job[7] = "message" /\ Check(8, image, pubs, sigs)
                            \/ job[7] = "image" /\ Check(7, add(image, B), pubs, sigs)
                            \/ job[7] = "member" /\ Check(7, image, [pubs EXCEPT ![1] = add(@, B)], sigs)
                            \/ job[7] = "c" /\ Check(7, image, pubs, [sigs EXCEPT ![1].c = @ + Ell])
                            \/ job[7] = "r" /\ Check(7, image, pubs, [sigs EXCEPT ![Len(pubs)].r = @ + Ell])])

\* job: transaction key, receiver's view key, random number, change, small order part
ProveSending ==
    /\ job[1] = "proof"
    /\ LET tx == random_keypair(job[2])
           view == random_keypair(job[3]).pub
           derivation == add(generate_key_derivation(view, tx.sec), job[6])
           proof == generate_sendproof(tx.pub, tx.sec, view, derivation, 7, random_scalar(job[4])) IN
       Result([accepted |-> \/ job[5] = "none" /\ check_sendproof(tx.pub, view, derivation, 7, proof)
                            \/ job[5] = "message" /\ check_sendproof(tx.pub, view, derivation, 8, proof)
                            \/ job[5] = "derivation" /\ check_sendproof(tx.pub, view, add(derivation, B), 7, proof)
                            \/ job[5] = "receiver" /\ check_sendproof(tx.pub, add(view, B), derivation, 7, proof)])

Next == SendOutput \/ SignMessage \/ SignRing \/ ProveSending

(***************************************************************************)
(* Properties                                                              *)
(***************************************************************************)
Done(kind) == job[1] = kind /\ result # <<>>

\* An output sent to an address is found by the owner of its view key, can be
\* spent with the secret he derives, and has one key image, whatever the index,
\* and also if the transaction key was sent with a part of small order.
OutputsFound ==
    Done("output") =>
        /\ result.found = result.spend /\ result.match
        /\ job[6] = <<>> => /\ result.scan.base = result.spend
                            /\ result.sec = sc_add(random_scalar(job[4]), result.scan.hashed_derivation)
        /\ ~check_subgroup(result.image)

\* A signature that was made for a message and key is accepted for them and in
\* the form in which it was made, and for nothing else.
SignatureExact == Done("sign") => result.valid /\ result.accepted = (job[5] = "none")

\* A ring signature is accepted from every member of a ring, also a ring with the
\* same key twice or of one member, with every random number; not if the message,
\* a member, the image or the form of a number was changed, and not for an image
\* with a part of small order, with which one output could be spent eight times.
RingExact == Done("ring") => result.signed /\ result.accepted = (job[7] = "none" /\ job[8] = 0)

\* The proof that a transaction was sent to an address is accepted for its
\* transaction, receiver and message only, and for one derivation.
ProofExact == Done("proof") => result.accepted = (job[5] = "none" /\ job[6] = 0)
=============================================================================
