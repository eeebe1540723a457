-------------------------------- MODULE Wallet --------------------------------
(***************************************************************************)
(* Which signatures verify with which keys, and which secrets open:        *)
(* DualKeyWallet (core/wallet.py), HybridSigner (crypto/fallback.py), and  *)
(* the Dilithium and Kyber keys below them (crypto/pqc).                   *)
(*                                                                         *)
(* A generated key is named after the holder it was generated for; the two *)
(* halves of a pair have the same name.  ECDSA is external; liboqs and the *)
(* simulation without it agree on all that is said here.                   *)
(*                                                                         *)
(* Abstracted: bytes, sizes, security levels, passwords (a wrong one       *)
(* raises), messages (all signatures are of one message).                  *)
(***************************************************************************)
EXTENDS Integers, FiniteSets

CONSTANTS
  Holders,   \* wallets and signers
  Mnemonic,  \* the ECDSA key that the phrase determines
  MaxSignatures, MaxExports, MaxExchanges,
  Zeros, NoHolder

VARIABLES
  holder,       \* the keys of each wallet and signer
  exports,      \* what export_keys() returned
  signatures,
  exchanges,    \* ciphertexts for a wallet, and the secret of who sent them
  lineage       \* history: from whom the keys come, and whether by from_export()

walletVars == <<holder, exports, signatures, exchanges, lineage>>

Exists(h) == holder[h] # NoHolder
IsWallet(h) == Exists(h) /\ holder[h].address # NoHolder

\* What is signed with this secret key passes the test with this public key.
VerifyECDSA(secret, public) == public = secret
VerifyDilithium(secret, public) == public = secret

DilithiumKeyPair(h) == [secret |-> h, public |-> h]
\* A public key that is derived from the bytes of a secret key is no half of it.
DerivedPublicKey(secret) == [derived |-> secret]
DilithiumFromSecretKey(secret) == [secret |-> secret, public |-> DerivedPublicKey(secret)]

KyberKeyPair(h) == [secret |-> h, public |-> h]
\* The n-th ciphertext; both sides make the shared secret from it and a key.
EncapsulateKyber(public, n) == [ciphertext |-> n, shared |-> <<public, n>>]
DecapsulateKyber(ciphertext, secret) == <<secret, ciphertext>>
HybridKeyExchange(classical, pqc) == <<classical, pqc>>

AddressFrom(classical, public) == <<classical, public>>

SecretKeys == Holders \cup {Zeros}
DerivedKeys == {DerivedPublicKey(s) : s \in SecretKeys}
ClassicalKeys == Holders \cup {Mnemonic}
PublicKeys == Holders \cup DerivedKeys
HolderRecord ==
  [classical : ClassicalKeys, secret : SecretKeys, public : PublicKeys,
   kem : Holders \cup {NoHolder},
   address : {NoHolder} \cup {AddressFrom(c, p) : c \in ClassicalKeys, p \in PublicKeys},
   closed : BOOLEAN]

\* Nobody generates the zeros that close() writes, or a hash of a key as a key.
ASSUME WalletAssumption ==
  /\ Zeros \notin Holders /\ NoHolder \notin HolderRecord
  /\ DerivedKeys \cap SecretKeys = {}

\* DualKeyWallet.__init__(): the KEM keys are always new.
NewWallet(h, classical, dilithium) ==
  holder' = [holder EXCEPT ![h] =
    [classical |-> classical, secret |-> dilithium.secret, public |-> dilithium.public,
     kem |-> KyberKeyPair(h).secret, address |-> AddressFrom(classical, dilithium.public),
     closed |-> FALSE]]

\* Mutant: the older signature will do.
VerifiesEither(h, s) ==
  \/ VerifyECDSA(s.classical, holder[h].classical)
  \/ VerifyDilithium(s.secret, holder[h].public)

Verifies(h, s) ==
  /\ VerifyECDSA(s.classical, holder[h].classical)
  /\ VerifyDilithium(s.secret, holder[h].public)

WalletInit ==
  /\ holder = [h \in Holders |-> NoHolder]
  /\ exports = {} /\ signatures = {} /\ exchanges = {}
  /\ lineage = [h \in Holders |-> [origin |-> h, restored |-> FALSE]]
-----------------------------------------------------------------------------
CreateWallet(h) ==
  /\ ~Exists(h) /\ NewWallet(h, h, DilithiumKeyPair(h))
  /\ UNCHANGED <<exports, signatures, exchanges, lineage>>

\* Only the ECDSA key depends on the phrase.
FromMnemonic(h) ==
  /\ ~Exists(h) /\ NewWallet(h, Mnemonic, DilithiumKeyPair(h))
  /\ UNCHANGED <<exports, signatures, exchanges, lineage>>

FromExport(h, e) ==
  /\ ~Exists(h) /\ e \in exports
  /\ NewWallet(h, e.classical, DilithiumFromSecretKey(e.secret))
  /\ lineage' = [lineage EXCEPT ![h] = [origin |-> e.origin, restored |-> TRUE]]
  /\ UNCHANGED <<exports, signatures, exchanges>>

\* HybridSigner, with new keys or with those of another holder.
NewSigner(h, from) ==
  /\ ~Exists(h) /\ (from = h \/ Exists(from))
  /\ LET keys == IF from = h THEN [classical |-> h, secret |-> h, public |-> h]
                             ELSE holder[from] IN
     holder' = [holder EXCEPT ![h] =
       [classical |-> keys.classical, secret |-> keys.secret, public |-> keys.public,
        kem |-> NoHolder, address |-> NoHolder, closed |-> FALSE]]
  /\ lineage' = [lineage EXCEPT ![h] = lineage[from]]
  /\ UNCHANGED <<exports, signatures, exchanges>>

\* close(), or the finalizer: it clears a copy of the ECDSA key, and the Dilithium
\* key; the wallet can still be called.
Close(h) ==
  /\ IsWallet(h) /\ ~holder[h].closed
  /\ holder' = [holder EXCEPT ![h].secret = Zeros, ![h].closed = TRUE]
  /\ UNCHANGED <<exports, signatures, exchanges, lineage>>

SignTransaction(h) ==
  /\ Exists(h) /\ Cardinality(signatures) < MaxSignatures
  /\ signatures' = signatures \cup
       {[by |-> h, classical |-> holder[h].classical, secret |-> holder[h].secret]}
  /\ UNCHANGED <<holder, exports, exchanges, lineage>>

\* encapsulate() to the public key of a wallet, beside a classical exchange.
Encapsulate(h) ==
  /\ IsWallet(h) /\ Cardinality(exchanges) < MaxExchanges
  /\ LET made == EncapsulateKyber(holder[h].kem, Cardinality(exchanges)) IN
     exchanges' = exchanges \cup
       {[to |-> h, ciphertext |-> made.ciphertext, secret |-> HybridKeyExchange(0, made.shared)]}
  /\ UNCHANGED <<holder, exports, signatures, lineage>>

ExportKeys(h) ==
  /\ IsWallet(h) /\ Cardinality(exports) < MaxExports
  /\ exports' = exports \cup
       {[classical |-> holder[h].classical, secret |-> holder[h].secret,
         kem |-> holder[h].kem, address |-> holder[h].address, origin |-> lineage[h].origin]}
  /\ UNCHANGED <<holder, signatures, exchanges, lineage>>

WalletNext ==
  \E h \in Holders :
    \/ CreateWallet(h) \/ FromMnemonic(h) \/ Close(h)
    \/ SignTransaction(h) \/ Encapsulate(h) \/ ExportKeys(h)
    \/ \E e \in exports : FromExport(h, e)
    \/ \E from \in Holders : NewSigner(h, from)

WalletSpec == WalletInit /\ [][WalletNext]_walletVars
-----------------------------------------------------------------------------
WalletTypeOK ==
  /\ \A h \in Holders : Exists(h) =>
       /\ holder[h] \in HolderRecord /\ holder[h].kem \in {h, NoHolder}
       /\ holder[h].address \in {NoHolder, AddressFrom(holder[h].classical,
                                                       holder[h].public)}
       /\ holder[h].closed => IsWallet(h) /\ holder[h].secret = Zeros
  /\ \A e \in exports : e.classical \in ClassicalKeys /\ e.secret \in SecretKeys
  /\ \A s \in signatures : s.by \in Holders /\ s.secret \in SecretKeys

\* The secret that a wallet gets out of an exchange.
Opened(h, x) == HybridKeyExchange(0, DecapsulateKyber(x.ciphertext, holder[h].kem))

(* A composite signature verifies with no keys but those of the holder it was made for:
   not with a wallet that shares only the phrase, and not once close() has cleared
   them; and with a wallet or signer that has them since they were generated, it does,
   a signature of a restored wallet too.  A secret is shared with the wallet it was sent
   to, closed or not, and with none of other keys.  What a wallet from from_export() is
   able to verify and to open is not claimed: "full wallet recovery" is not kept. *)
KeysFit ==
  \A h \in Holders : Exists(h) =>
    /\ \A s \in signatures :
         LET fits == lineage[h].origin = lineage[s.by].origin /\ s.secret # Zeros IN
         /\ Verifies(h, s) => fits
         /\ fits /\ ~lineage[h].restored => Verifies(h, s)
    /\ IsWallet(h) => \A x \in exchanges :
         /\ Opened(h, x) = x.secret => lineage[h].origin = lineage[x.to].origin
         /\ h = x.to => Opened(h, x) = x.secret
=============================================================================
