--------------------------- MODULE KeyRotatingSigner ---------------------------
(***************************************************************************)
(* KeyRotatingSigner (near-fetch/src/signer.rs): the keys of one account   *)
(* and one counter that all clones of the signer share.  public_key()      *)
(* reads the counter, sign() reads and increments it; nothing ties the two *)
(* calls together.  An InMemorySigner behaves as one with a single key.    *)
(***************************************************************************)
EXTENDS Naturals, Sequences

CONSTANTS
    Signers,    \* public keys of the Vec<Signer>, in rotation order
    CounterMod  \* number of values of the AtomicUsize: 2^w

ASSUME CounterAssumption == CounterMod \in Nat \ {0}

\* from_signers() takes any signers; try_from_iter() only those of one
\* account, and at least one.  An entry is an account with one of its keys.
FromSigners(entries) == [i \in DOMAIN entries |-> entries[i].key]

TryFromIter(entries) ==
    IF /\ entries # <<>>
       /\ \A i \in DOMAIN entries : entries[i].account = entries[1].account
      THEN FromSigners(entries)
      ELSE "InvalidArgs"

VARIABLE counter

SignerTypeOK == counter \in 0 .. CounterMod - 1
SignerInit == counter = 0

CurrentSigner == Signers[(counter % Len(Signers)) + 1]

\* fetch_add on the counter; the signer is the one the old value selects.
FetchAndRotateSigner == counter' = (counter + 1) % CounterMod
================================================================================
