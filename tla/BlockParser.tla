----------------------------- MODULE BlockParser -----------------------------
(***************************************************************************)
(* rpc/block_parser.py and the matching of rpc/mining_pools.py: the rows   *)
(* a `getblock <hash> 3` payload becomes.  A payload is                    *)
(*   block: [height, tx], tx: [txid, version, vsize, fee, vin, vout],      *)
(*   vin:   [prev, prevout, coinbase, sequence, witness, scriptsig],       *)
(*   vout:  [value, type, bytes, address];                                 *)
(* amounts are satoshis, a hex string is its length in bytes, and the      *)
(* coinbase's script is the set of the byte strings that occur in it (none *)
(* do in what is not hex).  What is absent is None.  Averages and medians  *)
(* are left out, and so are the fields that are copied as they are.        *)
(***************************************************************************)
EXTENDS Integers, SequencesExt

CONSTANTS
  None,
  InitialSubsidy, HalvingInterval,   \* initial_subsidy_sats, halving_interval_blocks
  ValueBits, TypeBit, DisableBit,    \* nSequence: 16, 22 and 31
  Utf8, Latin1                       \* the bytes of a text in either encoding; Latin1 has
                                     \* None for a text with characters beyond it

ASSUME ParserAssumption ==
  /\ InitialSubsidy \in Nat /\ HalvingInterval \in Nat \ {0}
  /\ {ValueBits, TypeBit, DisableBit} \subseteq Nat
  /\ ValueBits <= TypeBit /\ TypeBit < DisableBit
  /\ DOMAIN Latin1 = DOMAIN Utf8 /\ \A text \in DOMAIN Utf8 : Utf8[text] # None

\* The texts both encode alike.
Ascii == {text \in DOMAIN Utf8 : Latin1[text] = Utf8[text]}

\* Those of some entries that a filter keeps, each at its place.
Those(Is(_), entries) == [n \in {m \in DOMAIN entries : Is(entries[m])} |-> entries[n]]
Size(entries) == Cardinality(DOMAIN entries)
HowMany(Is(_), entries) == Cardinality({n \in DOMAIN entries : Is(entries[n])})
Total(Of(_), entries) == SumFunction([n \in DOMAIN entries |-> Of(entries[n])])
Extreme(Of(_), values) == IF values = {} THEN None ELSE Of(values)

-----------------------------------------------------------------------------
(* Helpers.                                                                *)

SCRIPT_TYPES ==
  {"nonstandard", "pubkey", "pubkeyhash", "scripthash", "multisig", "nulldata",
   "witness_v0_keyhash", "witness_v0_scripthash", "witness_v1_taproot",
   "witness_unknown", "anchor", "other"}

NormalizedScriptType(type) == IF type \in SCRIPT_TYPES THEN type ELSE "other"

TypeCounts(types) == [t \in SCRIPT_TYPES |-> HowMany(LAMBDA u : u = t, types)]

Bit(n, b) == (n \div 2^b) % 2 = 1

DecodeSequence(seq, version, isCoinbase) ==
  LET locks == seq # None /\ ~isCoinbase /\ version >= 2 /\ ~Bit(seq, DisableBit) IN
  [signals_rbf |-> seq # None /\ ~isCoinbase /\ seq < 2^(DisableBit + 1) - 2,
   type |-> IF ~locks THEN None ELSE IF Bit(seq, TypeBit) THEN "time" ELSE "blocks",
   value |-> IF locks THEN seq % 2^ValueBits ELSE None]

\* initial_subsidy_sats >> halvings
Halved[n \in 0..63] == IF n = 0 THEN InitialSubsidy ELSE Halved[n - 1] \div 2
BlockSubsidy(height) ==
  LET halvings == height \div HalvingInterval IN
  IF halvings >= 64 THEN 0 ELSE Halved[halvings]

-----------------------------------------------------------------------------
(* One transaction: its input and output rows, and the row about it.       *)

IsCoinbase(tx) == tx.vin # <<>> /\ tx.vin[1].coinbase # None

InputAge(height, prevout) == Max({0, height - prevout.height})

InputEvent(tx, vin, n, height) ==
  LET lock == DecodeSequence(vin.sequence, tx.version, IsCoinbase(tx))
      From(Of(_)) == IF vin.prevout = None THEN None ELSE Of(vin.prevout)
  IN [block_height |-> height, txid |-> tx.txid, is_coinbase |-> IsCoinbase(tx),
      input_index |-> n - 1,
      prevout_txid |-> vin.prev.txid, prevout_vout |-> vin.prev.vout,
      value_sats |-> From(LAMBDA p : p.value),
      input_age_blocks |-> From(LAMBDA p : InputAge(height, p)),
      prevout_generated |-> From(LAMBDA p : p.generated),
      prevout_type |-> From(LAMBDA p : NormalizedScriptType(p.type)),
      prevout_address |-> From(LAMBDA p : p.address),
      scriptsig_bytes |-> vin.scriptsig,
      coinbase_hex |-> vin.coinbase,
      witness_item_count |-> Len(vin.witness),
      witness_data_bytes |-> Total(LAMBDA item : item, vin.witness),
      signals_rbf |-> lock.signals_rbf,
      relative_locktime_type |-> lock.type, relative_locktime_value |-> lock.value]

OutputIndexFromOne(n) == n                          \* slip: enumerate(..., 1)
OutputIndex(n) == n - 1

OutputEvent(tx, vout, n, height) ==
  LET type == NormalizedScriptType(vout.type) IN
  [block_height |-> height, txid |-> tx.txid, is_coinbase |-> IsCoinbase(tx),
   output_index |-> OutputIndex(n), value_sats |-> vout.value, script_type |-> type,
   script_bytes |-> vout.bytes, address |-> vout.address,
   is_op_return |-> type = "nulldata"]

InputEvents(tx, height) == [n \in DOMAIN tx.vin |-> InputEvent(tx, tx.vin[n], n, height)]
OutputEvents(tx, height) == [n \in DOMAIN tx.vout |-> OutputEvent(tx, tx.vout[n], n, height)]

HasValue(row) == row.value_sats # None

\* prevout_values_complete, for a transaction that is no coinbase.
PrevoutsSome(ins) == \E n \in DOMAIN ins : HasValue(ins[n])    \* slip: one is enough
PrevoutsComplete(ins) == HowMany(HasValue, ins) = Len(ins)

Fee(tx, ins, outs) ==
  CASE IsCoinbase(tx) -> [sats |-> 0, source |-> "coinbase"]
    [] ~IsCoinbase(tx) /\ tx.fee # None -> [sats |-> tx.fee, source |-> "rpc"]
    [] ~IsCoinbase(tx) /\ tx.fee = None /\ PrevoutsComplete(ins) ->
         [sats |-> Total(LAMBDA r : r.value_sats, Those(HasValue, ins))
                     - Total(LAMBDA r : r.value_sats, outs),
          source |-> "derived"]
    [] OTHER -> [sats |-> None, source |-> "unavailable"]

\* signals_rbf is set by the first input that signals, and stays set.
SignalsLast(ins) == ins[Len(ins)].signals_rbf                  \* slip: the last one decides
Signals(ins) == \E n \in DOMAIN ins : ins[n].signals_rbf

TxEvent(tx, height, index) ==
  LET ins == InputEvents(tx, height)
      outs == OutputEvents(tx, height)
      fee == Fee(tx, ins, outs)
      valued == Those(HasValue, ins)
      ages == {ins[n].input_age_blocks : n \in DOMAIN ins} \ {None}
      amounts == {outs[n].value_sats : n \in DOMAIN outs}
      HasWitness(row) == row.witness_item_count > 0
      IsOpReturn(row) == row.is_op_return
      types == [n \in DOMAIN ins |-> ins[n].prevout_type]
  IN [block_height |-> height, tx_index |-> index, txid |-> tx.txid,
      is_coinbase |-> IsCoinbase(tx), vsize |-> tx.vsize,
      fee_sats |-> fee.sats, fee_source |-> fee.source,
      fee_rate |-> IF fee.sats # None /\ tx.vsize > 0 /\ ~IsCoinbase(tx)
                   THEN <<fee.sats, tx.vsize>> ELSE None,
      input_value_sats |-> IF IsCoinbase(tx) THEN None
                           ELSE Total(LAMBDA r : r.value_sats, valued),
      output_value_sats |-> Total(LAMBDA r : r.value_sats, outs),
      output_value_min_sats |-> Extreme(Min, amounts),
      output_value_max_sats |-> Extreme(Max, amounts),
      vin_count |-> Len(ins), vout_count |-> Len(outs),
      prevout_value_known_count |-> Size(valued),
      generated_input_count |-> HowMany(LAMBDA r : r.prevout_generated = TRUE, ins),
      input_age_min_blocks |-> Extreme(Min, ages), input_age_max_blocks |-> Extreme(Max, ages),
      coin_blocks_destroyed |-> Total(LAMBDA r : r.input_age_blocks * r.value_sats, valued),
      witness_input_count |-> HowMany(HasWitness, ins),
      witness_item_count |-> Total(LAMBDA r : r.witness_item_count, ins),
      witness_data_bytes |-> Total(LAMBDA r : r.witness_data_bytes, ins),
      scriptsig_bytes |-> Total(LAMBDA r : r.scriptsig_bytes, ins),
      scriptpubkey_bytes |-> Total(LAMBDA r : r.script_bytes, outs),
      signals_rbf |-> Signals(ins),
      op_return_count |-> HowMany(IsOpReturn, outs),
      op_return_script_bytes |-> Total(LAMBDA r : r.script_bytes, Those(IsOpReturn, outs)),
      zero_value_output_count |-> HowMany(LAMBDA r : r.value_sats = 0, outs),
      vin_type |-> TypeCounts(types),
      vout_type |-> TypeCounts([n \in DOMAIN outs |-> outs[n].script_type])]

-----------------------------------------------------------------------------
(* The mining pool.  A dataset is a sequence of [id, tags, addresses].     *)

UNKNOWN_MATCH == [id |-> None, method |-> "unknown"]

\* slip: read as UTF-8, as the tags are stamped
DecodedUtf8(script) == {text \in DOMAIN Utf8 : Utf8[text] \in script}

\* coinbase_hex_to_ascii: the texts that occur in the script, read as Latin-1.
Decoded(script) ==
  {text \in DOMAIN Latin1 : Latin1[text] # None /\ Latin1[text] \in script}

\* __init__: the tags in the order of the dataset; of several pools that list
\* an address the last one has it.
Tagged(pools, script) == {p \in DOMAIN pools : pools[p].tags \intersect Decoded(script) # {}}
Listing(pools, address) == {p \in DOMAIN pools : address \in pools[p].addresses}

ByTag(pools, script) == [id |-> pools[Min(Tagged(pools, script))].id, method |-> "tag"]
ByAddress(pools, payouts) ==
  LET paid == {n \in DOMAIN payouts : Listing(pools, payouts[n]) # {}} IN
  IF paid = {} THEN UNKNOWN_MATCH
  ELSE [id |-> pools[Max(Listing(pools, payouts[Min(paid)]))].id, method |-> "address"]

\* slip: a paid address outweighs a tag
MatchAddressFirst(pools, script, payouts) ==
  IF pools # None /\ ByAddress(pools, payouts) # UNKNOWN_MATCH THEN ByAddress(pools, payouts)
  ELSE IF pools # None /\ Tagged(pools, script) # {} THEN ByTag(pools, script)
  ELSE UNKNOWN_MATCH

\* Without a dataset (load_pool_matcher found none) every pool is unknown.
Match(pools, script, payouts) ==
  CASE pools = None -> UNKNOWN_MATCH
    [] pools # None /\ Tagged(pools, script) # {} -> ByTag(pools, script)
    [] OTHER -> ByAddress(pools, payouts)

-----------------------------------------------------------------------------
(* One block.                                                              *)

CoinbaseScript(tx) == IF IsCoinbase(tx) THEN tx.vin[1].coinbase ELSE {}
CoinbasePayouts(tx) ==                              \* by output, in their order
  IF ~IsCoinbase(tx) THEN <<>>
  ELSE [n \in {m \in DOMAIN tx.vout : tx.vout[m].address # None} |-> tx.vout[n].address]

BlockEvent(block, txs, pools) ==
  LET regular == Those(LAMBDA t : ~t.is_coinbase, txs)
      priced == Those(LAMBDA t : t.fee_sats # None, regular)
      complete == Those(LAMBDA t : t.prevout_value_known_count = t.vin_count, regular)
      Taproot == "witness_v1_taproot"
      pool == IF block.tx = <<>> THEN Match(pools, {}, <<>>)
              ELSE Match(pools, CoinbaseScript(block.tx[1]), CoinbasePayouts(block.tx[1]))
      fees == Total(LAMBDA t : t.fee_sats, priced)
      vsize == Total(LAMBDA t : t.vsize, regular)
      TypeTotals(Of(_)) ==
        [s \in SCRIPT_TYPES |-> Total(LAMBDA t : Of(t)[s], txs)]
  IN [height |-> block.height,
      block_subsidy_sats |-> BlockSubsidy(block.height),
      pool_id |-> pool.id, pool_match_method |-> pool.method,
      regular_tx_count |-> Size(regular),
      total_vin_count |-> Total(LAMBDA t : t.vin_count, txs),
      total_vout_count |-> Total(LAMBDA t : t.vout_count, txs),
      coinbase_value_sats |-> IF txs = <<>> THEN None ELSE txs[1].output_value_sats,
      coinbase_vout_count |-> IF txs = <<>> THEN None ELSE txs[1].vout_count,
      total_fees_sats |-> fees,
      fee_known_tx_count |-> Size(priced),
      fee_unknown_tx_count |-> Size(regular) - Size(priced),
      fee_max_sats |-> Extreme(Max, {priced[n].fee_sats : n \in DOMAIN priced}),
      effective_fee_rate |-> IF Size(priced) > 0 /\ Size(priced) = Size(regular) /\ vsize > 0
                             THEN <<fees, vsize>> ELSE None,
      regular_input_value_sats |-> Total(LAMBDA t : t.input_value_sats, complete),
      input_value_complete_tx_count |-> Size(complete),
      regular_output_value_sats |-> Total(LAMBDA t : t.output_value_sats, regular),
      coin_blocks_destroyed |-> Total(LAMBDA t : t.coin_blocks_destroyed, txs),
      tx_vsize_max |-> Extreme(Max, {txs[n].vsize : n \in DOMAIN txs}),
      segwit_tx_count |-> HowMany(LAMBDA t : t.witness_input_count > 0, txs),
      rbf_tx_count |-> HowMany(LAMBDA t : t.signals_rbf, regular),
      taproot_input_tx_count |-> HowMany(LAMBDA t : t.vin_type[Taproot] > 0, regular),
      taproot_output_tx_count |-> HowMany(LAMBDA t : t.vout_type[Taproot] > 0, txs),
      op_return_tx_count |-> HowMany(LAMBDA t : t.op_return_count > 0, txs),
      op_return_output_count |-> Total(LAMBDA t : t.op_return_count, txs),
      op_return_script_bytes |-> Total(LAMBDA t : t.op_return_script_bytes, txs),
      witness_input_count |-> Total(LAMBDA t : t.witness_input_count, txs),
      witness_item_count |-> Total(LAMBDA t : t.witness_item_count, txs),
      witness_data_bytes |-> Total(LAMBDA t : t.witness_data_bytes, txs),
      scriptsig_bytes |-> Total(LAMBDA t : t.scriptsig_bytes, txs),
      scriptpubkey_bytes |-> Total(LAMBDA t : t.scriptpubkey_bytes, txs),
      vin_type |-> TypeTotals(LAMBDA t : t.vin_type),
      vout_type |-> TypeTotals(LAMBDA t : t.vout_type)]

AggregateBlock(block, pools) ==
  LET txs == [n \in DOMAIN block.tx |-> TxEvent(block.tx[n], block.height, n - 1)] IN
  [block |-> BlockEvent(block, txs, pools),
   transactions |-> txs,
   inputs |-> FlattenSeq([n \in DOMAIN block.tx |-> InputEvents(block.tx[n], block.height)]),
   outputs |-> FlattenSeq([n \in DOMAIN block.tx |-> OutputEvents(block.tx[n], block.height)])]

=============================================================================
