----------------------------- MODULE TxEncoding -----------------------------
(***************************************************************************)
(* crates/hos-common/src/tx.rs and contracts/active-signer/src/nep413.rs:  *)
(* what the MPC key of a wallet is asked to sign.  One key signs both the  *)
(* transactions of the wallet and the messages its owner signs in with, so *)
(* the bytes of the two must never be the same.                            *)
(*                                                                         *)
(* Lengths are encoded as the code does; the other numbers, keys and       *)
(* hashes are the bytes they are encoded to.  The encoded actions of a     *)
(* transaction are any bytes: no property depends on them.  The key hashes *)
(* what it signs; two payloads are told apart as far as SHA-256 does.      *)
(***************************************************************************)
EXTENDS Integers, Sequences

Byte     == 0..255
Bytes    == Seq(Byte)
Width(n) == {b \in Bytes : Len(b) = n}

\* u32::to_le_bytes
to_le_bytes(n) ==
    LET second == n \div 256
        third  == second \div 256
        fourth == third \div 256
    IN  <<n % 256, second % 256, third % 256, fourth % 256>>

write_bytes(bytes) == to_le_bytes(Len(bytes)) \o bytes

\* An account name has at most 64 characters.
AccountId == {b \in Bytes : Len(b) \in 0..64}

\* A key is a tag of its curve and 32 (ed25519) or 64 (secp256k1) bytes.
Transaction == [signer : AccountId, public_key : Width(33) \cup Width(65),
                nonce : Width(8), receiver : AccountId, block_hash : Width(32),
                action_count : Nat, actions : Bytes]

write_header(t) ==
    write_bytes(t.signer)
      \o (t.public_key
      \o (t.nonce
      \o (write_bytes(t.receiver)
      \o (t.block_hash
      \o to_le_bytes(t.action_count)))))

build_transaction(t) == write_header(t) \o t.actions

TAG == 128 * 256 * 256 * 256 + 413

\* callback_url is <<>> or one url.
Message == [message : Bytes, nonce : Width(32), recipient : Bytes,
            callback_url : {<<>>} \cup {<<url>> : url \in Bytes}]

CallbackBytes(url) == IF url = <<>> THEN <<0>> ELSE <<1>> \o write_bytes(url[1])

payload(m) ==
    to_le_bytes(TAG)
      \o (write_bytes(m.message)
      \o (m.nonce
      \o (write_bytes(m.recipient)
      \o CallbackBytes(m.callback_url))))

=============================================================================
