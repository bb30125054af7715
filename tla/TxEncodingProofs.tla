-------------------------- MODULE TxEncodingProofs --------------------------
(* The fourth byte tells a transaction from a message: it is the highest   *)
(* byte of the length of the signer's name in the one, and of a tag above  *)
(* 2^31 in the other.                                                      *)
EXTENDS TxEncoding, SequenceTheorems, TLAPS

\* The highest byte of a length (u32::to_le_bytes).
High(n) == (((n \div 256) \div 256) \div 256) % 256

LEMMA LengthBytes ==
    ASSUME NEW n \in Nat
    PROVE  /\ to_le_bytes(n) \in Bytes
           /\ Len(to_le_bytes(n)) = 4
           /\ to_le_bytes(n)[4] = High(n)
  <1>1. /\ n % 256 \in Byte /\ (n \div 256) % 256 \in Byte
        /\ ((n \div 256) \div 256) % 256 \in Byte /\ High(n) \in Byte
    BY SMT DEF Byte, High
  <1> QED
    BY <1>1, SMT DEF to_le_bytes, High, Bytes

LEMMA Joined ==
    ASSUME NEW a \in Bytes, NEW b \in Bytes
    PROVE  /\ a \o b \in Bytes
           /\ Len(a \o b) = Len(a) + Len(b)
           /\ Len(a) >= 4 => (a \o b)[4] = a[4]
  <1>1. a \in Seq(Byte) /\ b \in Seq(Byte)
    BY DEF Bytes
  <1>2. Len(a) \in Nat /\ Len(b) \in Nat
    BY <1>1, LenProperties
  <1>3. /\ a \o b \in Seq(Byte)
        /\ Len(a \o b) = Len(a) + Len(b)
        /\ \A i \in 1..(Len(a) + Len(b)) :
             (a \o b)[i] = IF i <= Len(a) THEN a[i] ELSE b[i - Len(a)]
    BY <1>1, ConcatProperties
  <1>4. Len(a) >= 4 => 4 \in 1..(Len(a) + Len(b))
    BY <1>2
  <1> QED
    BY <1>2, <1>3, <1>4 DEF Bytes

LEMMA FourthByte ==
    ASSUME NEW a \in Bytes, NEW b \in Bytes, Len(a) = 4
    PROVE  /\ Len(a \o b) = 4 + Len(b)
           /\ (a \o b)[4] = a[4]
  <1>1. 4 >= 4
    OBVIOUS
  <1> QED
    BY <1>1, Joined, Zenon

LEMMA PrefixedBytes ==
    ASSUME NEW b \in Bytes
    PROVE  /\ write_bytes(b) \in Bytes
           /\ Len(write_bytes(b)) = 4 + Len(b)
           /\ write_bytes(b)[4] = High(Len(b))
  <1>1. Len(b) \in Nat
    BY LenProperties DEF Bytes
  <1>2. /\ to_le_bytes(Len(b)) \in Bytes
        /\ Len(to_le_bytes(Len(b))) = 4
        /\ to_le_bytes(Len(b))[4] = High(Len(b))
    BY <1>1, LengthBytes
  <1>3. write_bytes(b) = to_le_bytes(Len(b)) \o b
    BY DEF write_bytes
  <1>4. /\ to_le_bytes(Len(b)) \o b \in Bytes
        /\ Len(to_le_bytes(Len(b)) \o b) = 4 + Len(b)
        /\ (to_le_bytes(Len(b)) \o b)[4] = to_le_bytes(Len(b))[4]
    BY <1>2, FourthByte, Joined, Zenon
  <1> QED
    BY <1>2, <1>3, <1>4, Zenon

\* A transaction's fourth byte is zero (write_header, write_str).
LEMMA TransactionStart ==
    ASSUME NEW t \in Transaction
    PROVE  build_transaction(t)[4] = 0
  <1> DEFINE tail == t.public_key \o (t.nonce \o (write_bytes(t.receiver)
                       \o (t.block_hash \o to_le_bytes(t.action_count))))
  <1>1. /\ t.signer \in Bytes /\ Len(t.signer) \in 0..64
        /\ t.public_key \in Bytes /\ t.nonce \in Bytes /\ t.receiver \in Bytes
        /\ t.block_hash \in Bytes /\ t.action_count \in Nat /\ t.actions \in Bytes
    <2>1. /\ t.signer \in AccountId /\ t.public_key \in Width(33) \cup Width(65)
          /\ t.nonce \in Width(8) /\ t.receiver \in AccountId
          /\ t.block_hash \in Width(32) /\ t.action_count \in Nat
          /\ t.actions \in Bytes
      BY DEF Transaction
    <2>2. \A a \in AccountId : a \in Bytes /\ Len(a) \in 0..64
      BY Zenon DEF AccountId
    <2>3. \A k : \A w \in Width(k) : w \in Bytes
      BY DEF Width
    <2> QED
      BY <2>1, <2>2, <2>3
  <1>2. tail \in Bytes
    <2>1. to_le_bytes(t.action_count) \in Bytes
      BY <1>1, LengthBytes
    <2>2. t.block_hash \o to_le_bytes(t.action_count) \in Bytes
      BY <1>1, <2>1, Joined
    <2>3. write_bytes(t.receiver) \in Bytes
      BY <1>1, PrefixedBytes
    <2>4. write_bytes(t.receiver) \o (t.block_hash \o to_le_bytes(t.action_count)) \in Bytes
      BY <2>2, <2>3, Joined
    <2>5. t.nonce \o (write_bytes(t.receiver)
            \o (t.block_hash \o to_le_bytes(t.action_count))) \in Bytes
      BY <1>1, <2>4, Joined
    <2> QED
      BY <1>1, <2>5, Joined
  <1>3. /\ write_bytes(t.signer) \in Bytes
        /\ Len(write_bytes(t.signer)) = 4 + Len(t.signer)
        /\ write_bytes(t.signer)[4] = High(Len(t.signer))
    BY <1>1, PrefixedBytes
  <1>4. write_header(t) = write_bytes(t.signer) \o tail
    BY DEF write_header
  <1> HIDE DEF tail
  <1>5. /\ write_header(t) \in Bytes
        /\ Len(write_header(t)) >= 4
        /\ write_header(t)[4] = write_bytes(t.signer)[4]
    BY <1>1, <1>2, <1>3, <1>4, Joined DEF Bytes
  <1>6. build_transaction(t)[4] = write_header(t)[4]
    BY <1>1, <1>5, Joined DEF build_transaction, Bytes
  <1>7. High(Len(t.signer)) = 0
    <2>1. \A k \in 0..64 : k \div 256 = 0
      BY SMT
    <2>2. 0 \div 256 = 0 /\ 0 % 256 = 0
      BY SMT
    <2> QED
      BY <1>1, <2>1, <2>2 DEF High
  <1> QED
    BY <1>3, <1>5, <1>6, <1>7

\* A message's fourth byte is that of the NEP-413 tag (payload).
LEMMA MessageStart ==
    ASSUME NEW m \in Message
    PROVE  payload(m)[4] = 128
  <1> DEFINE tail == write_bytes(m.message) \o (m.nonce \o (write_bytes(m.recipient)
                       \o CallbackBytes(m.callback_url)))
  <1>1. /\ m.message \in Bytes /\ m.nonce \in Bytes /\ m.recipient \in Bytes
        /\ m.callback_url = <<>> \/ \E url \in Bytes : m.callback_url = <<url>>
    BY DEF Message, Width
  <1>2. CallbackBytes(m.callback_url) \in Bytes
    <2>1. CASE m.callback_url = <<>>
      BY <2>1 DEF CallbackBytes, Bytes, Byte
    <2>2. CASE m.callback_url # <<>>
      <3>1. PICK url \in Bytes : m.callback_url = <<url>>
        BY <1>1, <2>2
      <3>2. write_bytes(url) \in Bytes
        BY PrefixedBytes
      <3>3. <<1>> \in Bytes
        BY DEF Bytes, Byte
      <3>4. <<1>> \o write_bytes(url) \in Bytes
        BY <3>2, <3>3, Joined
      <3> QED
        BY <2>2, <3>1, <3>4 DEF CallbackBytes
    <2> QED
      BY <2>1, <2>2
  <1>3. tail \in Bytes
    <2>1. write_bytes(m.message) \in Bytes /\ write_bytes(m.recipient) \in Bytes
      BY <1>1, PrefixedBytes
    <2>2. write_bytes(m.recipient) \o CallbackBytes(m.callback_url) \in Bytes
      BY <1>2, <2>1, Joined
    <2>3. m.nonce \o (write_bytes(m.recipient) \o CallbackBytes(m.callback_url)) \in Bytes
      BY <1>1, <2>2, Joined
    <2> QED
      BY <2>1, <2>3, Joined
  <1>4. payload(m) = to_le_bytes(TAG) \o tail
    BY DEF payload
  <1>5. TAG \in Nat /\ High(TAG) = 128
    <2>1. TAG \in Nat /\ TAG \div 256 = 128 * 256 * 256 + 1
      BY SMT DEF TAG
    <2>2. (128 * 256 * 256 + 1) \div 256 = 128 * 256
      BY SMT
    <2>3. (128 * 256) \div 256 = 128 /\ 128 % 256 = 128
      BY SMT
    <2> QED
      BY <2>1, <2>2, <2>3, SMT DEF TAG, High
  <1>6. to_le_bytes(TAG) \in Bytes /\ Len(to_le_bytes(TAG)) = 4
    BY <1>5, LengthBytes
  <1>7. (to_le_bytes(TAG) \o tail)[4] = to_le_bytes(TAG)[4]
    BY <1>3, <1>6, FourthByte, Zenon
  <1>8. to_le_bytes(TAG)[4] = 128
    BY <1>5, LengthBytes
  <1> QED
    BY <1>4, <1>7, <1>8

\* Whatever an owner has signed as a message (submit_signed_message), its
\* bytes are those of no transaction (submit_signed_tx, authority_sign_tx): a
\* signature given for signing in can never be sent to the chain.
THEOREM MessageIsNoTransaction ==
    ASSUME NEW t \in Transaction, NEW m \in Message
    PROVE  build_transaction(t) # payload(m)
  <1>1. build_transaction(t)[4] = 0
    BY TransactionStart
  <1>2. payload(m)[4] = 128
    BY MessageStart
  <1> QED
    BY <1>1, <1>2

=============================================================================
