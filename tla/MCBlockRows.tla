----------------------------- MODULE MCBlockRows -----------------------------
(* BlockRows with two templates, a dataset or none, and three coinbases.       *)
EXTENDS BlockRows

Out(value, type, bytes, address) ==
  [value |-> value, type |-> type, bytes |-> bytes, address |-> address]

Taproot == Out(0, "witness_v1_taproot", 34, "bob")
Template(version, sequences, fee, outs) ==
  [version |-> version, sequence |-> sequences, fee |-> fee, outs |-> outs,
   witness |-> <<<<64>>, <<>>>>]

\* An input's nSequence: final, or signalling and locked for a block.
Final == 2^(DisableBit + 1) - 1
TemplatesOf ==
  {Template(2, <<1, Final>>, 1, <<Taproot, Out(0, "nulldata", 5, None)>>),
   Template(1, <<Final, Final>>, 0, <<Out(0, "pubkeyhash", 25, "bob"), Out(1, "future", 9, None)>>)}

\* "fish" is a tag beyond Latin-1, as F2Pool has one; "ue" is one within it.
Utf8Of == [text \in {"/AntPool/", "/ViaBTC/", "fish", "ue"} |->
             CASE text = "fish" -> "f0 9f 90 9f" [] text = "ue" -> "c3 bc" [] OTHER -> text]
Latin1Of == [text \in DOMAIN Utf8Of |->
               CASE text = "fish" -> None [] text = "ue" -> "fc" [] OTHER -> text]

Pool(id, tags, addresses) == [id |-> id, tags |-> tags, addresses |-> addresses]
AntPool == Pool(1, {"/AntPool/"}, {"custodian"})
ViaBTC == Pool(2, {"/ViaBTC/"}, {"custodian"})
F2Pool == Pool(3, {"fish"}, {"custodian"})
Umlaut == Pool(4, {"ue"}, {})
DatasetsOf == {None, <<AntPool, ViaBTC, F2Pool, Umlaut>>}

Coin(address) == Out(0, "witness_v0_keyhash", 22, address)
CoinbasesOf ==
  {[script |-> {"/ViaBTC/"}, sequence |-> Final, witness |-> <<32>>, unclaimed |-> 0,
    outs |-> <<Coin("custodian"), Out(0, "nulldata", 38, None)>>],
   [script |-> {"f0 9f 90 9f"}, sequence |-> 0, witness |-> <<>>, unclaimed |-> 1,
    outs |-> <<Coin("custodian")>>],
   [script |-> {"fc"}, sequence |-> 0, witness |-> <<>>, unclaimed |-> 0,
    outs |-> <<Coin("custodian")>>]}

\* nSequence holds a lock where BIP68 puts it: what is packed is decoded.
ASSUME LockRoundTrip ==
  \A lock \in 0..2^ValueBits - 1, time, disabled \in BOOLEAN, version \in 1..2 :
    LET seq == lock + (IF time THEN 2^TypeBit ELSE 0) + (IF disabled THEN 2^DisableBit ELSE 0)
        decoded == DecodeSequence(seq, version, FALSE)
    IN IF disabled \/ version < 2 THEN decoded.type = None /\ decoded.value = None
       ELSE decoded.type = (IF time THEN "time" ELSE "blocks") /\ decoded.value = lock

\* A block mints the initial subsidy, halved once per interval before it; from
\* the 64th on it mints nothing.
ASSUME SubsidyRule ==
  /\ BlockSubsidy(0) = InitialSubsidy
  /\ \A h \in 1..66 * HalvingInterval :
       BlockSubsidy(h) = CASE h >= 64 * HalvingInterval -> 0
                           [] h < 64 * HalvingInterval /\ h % HalvingInterval = 0 ->
                                BlockSubsidy(h - 1) \div 2
                           [] OTHER -> BlockSubsidy(h - 1)

=============================================================================
