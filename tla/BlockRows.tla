------------------------------ MODULE BlockRows ------------------------------
(***************************************************************************)
(* The rows of a whole chain: bitcoind assembles one block after the other *)
(* out of the coins there are, and every block is parsed and its rows join *)
(* those of the blocks before it, the way Splunk sees blocks.csv,          *)
(* transactions.csv, inputs.csv and outputs.csv.  What getblock reports of *)
(* a transaction depends on the node's version and on its undo data: the   *)
(* fee and the spent outputs may each be missing.                          *)
(*                                                                         *)
(* The parser is BlockParser; the ledger stands for bitcoind, and holds    *)
(* blocks to the rules of consensus the properties are about.              *)
(***************************************************************************)
EXTENDS BlockParser

CONSTANTS
  MaxHeight,           \* bound: the last block
  MaxTxs,              \* bound: transactions of a block, besides the coinbase
  MaxInputs,           \* bound: inputs of a transaction
  Templates,           \* what a transaction may look like, see Spend
  Datasets,            \* pools-v2.json as rpc-ingest may have loaded it, or None
  Coinbases            \* what a coinbase may look like, see Coinbase

IsSequence(s) == s \in Seq(ToSet(s))
IsPayout(outs) ==
  /\ IsSequence(outs) /\ outs # <<>>
  /\ \A n \in DOMAIN outs :
       outs[n].value \in Nat /\ DOMAIN outs[n] = {"value", "type", "bytes", "address"}

IsMint(template) ==
  /\ IsPayout(template.outs) /\ template.witness \in Seq(Nat)
  /\ template.script # None /\ template.unclaimed \in Nat
IsDataset(dataset) ==
  /\ IsSequence(dataset)
  /\ \A n \in DOMAIN dataset :
       dataset[n].tags \subseteq DOMAIN Utf8 /\ None \notin dataset[n].addresses

ASSUME LedgerAssumption ==
  /\ MaxHeight \in Nat /\ MaxTxs \in Nat /\ MaxInputs \in Nat /\ None \notin Int
  /\ \A template \in Templates :
       /\ IsPayout(template.outs) /\ template.fee \in Nat
       /\ \A i \in 1..MaxInputs : template.witness[i] \in Seq(Nat)
  /\ \A template \in Coinbases : IsMint(template)
  /\ \A dataset \in Datasets : dataset # None => IsDataset(dataset)

VARIABLES
  height, coins,       \* bitcoind: the next block's height, the unspent outputs
  draft, fees,         \* its regular transactions, and what they pay
  pools,               \* history: the dataset each height was parsed with
  blocks, transactions, inputs, outputs   \* the rows so far

ledger == <<height, coins, draft, fees>>
rows == <<blocks, transactions, inputs, outputs>>
vars == <<ledger, pools, rows>>

NoCoins == [o \in {} |-> None]

Init ==
  /\ height = 0 /\ coins = NoCoins /\ draft = <<>> /\ fees = 0
  /\ pools = [h \in {} |-> None]
  /\ blocks = {} /\ transactions = {} /\ inputs = {} /\ outputs = {}

-----------------------------------------------------------------------------
(* What bitcoind reports.                                                  *)

\* The coins a transaction adds; an OP_RETURN is none.
CoinsOf(tx) ==
  LET real == {n \in DOMAIN tx.vout : tx.vout[n].type # "nulldata"} IN
  [o \in {[txid |-> tx.txid, vout |-> n - 1] : n \in real} |->
     LET vout == tx.vout[o.vout + 1] IN
     [value |-> vout.value, height |-> height, generated |-> IsCoinbase(tx),
      type |-> vout.type, address |-> vout.address]]

Added(tx, to) == [o \in DOMAIN to \union DOMAIN CoinsOf(tx) |->
                    IF o \in DOMAIN to THEN to[o] ELSE CoinsOf(tx)[o]]

\* A coinbase output waits before it is spent (100 blocks; here one).
Mature(o) == coins[o].generated => coins[o].height < height

Spendings == {s \in UNION {[1..n -> DOMAIN coins] : n \in 1..MaxInputs} :
                IsInjective(s) /\ \A i \in DOMAIN s : Mature(s[i])}

\* Outputs that pay out `total`: the first takes what the others leave.
Paying(outs, total) ==
  LET others == [n \in DOMAIN outs \ {1} |-> outs[n]] IN
  [outs EXCEPT ![1].value = total - Total(LAMBDA v : v.value, others)]

\* A template gives the version, the fee, each input's sequence and witness, and
\* the outputs.
Spend(spent, template, feeKnown, known) ==
  LET total == Total(LAMBDA o : coins[o].value, spent) IN
     [txid |-> <<height, Len(draft) + 1>>, version |-> template.version,
      vsize |-> Len(spent) + Len(template.outs),
      fee |-> IF feeKnown THEN template.fee ELSE None,
      vin |-> [i \in DOMAIN spent |->
                 [prev |-> spent[i], prevout |-> IF i \in known THEN coins[spent[i]] ELSE None,
                  coinbase |-> None, sequence |-> template.sequence[i],
                  witness |-> template.witness[i], scriptsig |-> 0]],
      vout |-> Paying(template.outs, total - template.fee)]

Include ==
  /\ height <= MaxHeight /\ Len(draft) < MaxTxs
  /\ \E spent \in Spendings, template \in Templates, feeKnown \in BOOLEAN :
     \E known \in SUBSET DOMAIN spent :
       LET tx == Spend(spent, template, feeKnown, known) IN
       /\ tx.vout[1].value >= 0
       /\ draft' = Append(draft, tx) /\ fees' = fees + template.fee
       /\ coins' = Added(tx, [o \in DOMAIN coins \ ToSet(spent) |-> coins[o]])
  /\ UNCHANGED <<height, pools, rows>>

\* The miner may claim less than subsidy and fees.
Coinbase(template) ==
  [txid |-> <<height, 0>>, version |-> 2, vsize |-> 1, fee |-> None,
   vin |-> <<[prev |-> [txid |-> None, vout |-> None], prevout |-> None,
              coinbase |-> template.script, sequence |-> template.sequence,
              witness |-> template.witness, scriptsig |-> 2]>>,
   vout |-> Paying(template.outs, BlockSubsidy(height) + fees - template.unclaimed)]

-----------------------------------------------------------------------------
(* A block is connected, fetched, parsed, and its rows are exported.  The  *)
(* outputs of the genesis block are not spendable.  The dataset may be     *)
(* another one at every block: a loop that finds it stale downloads it and *)
(* loads it again, a restart loads what there is.                          *)

Connect ==
  /\ height <= MaxHeight
  /\ \E template \in Coinbases, dataset \in Datasets :
       LET coinbase == Coinbase(template)
           parsed == AggregateBlock([height |-> height, tx |-> <<coinbase>> \o draft], dataset)
       IN /\ coinbase.vout[1].value >= 0
          /\ coins' = IF height = 0 THEN coins ELSE Added(coinbase, coins)
          /\ pools' = [h \in 0..height |-> IF h = height THEN dataset ELSE pools[h]]
          /\ blocks' = blocks \union {parsed.block}
          /\ transactions' = transactions \union ToSet(parsed.transactions)
          /\ inputs' = inputs \union ToSet(parsed.inputs)
          /\ outputs' = outputs \union ToSet(parsed.outputs)
  /\ height' = height + 1 /\ draft' = <<>> /\ fees' = 0

Next == Include \/ Connect

Spec == Init /\ [][Next]_vars

-----------------------------------------------------------------------------
(* What the rows of a chain promise whoever searches them.                 *)

At(S, h) == {r \in S : r.block_height = h}
Of(S, tx) == {r \in S : r.txid = tx.txid}
Card(S, Is(_)) == Cardinality({r \in S : Is(r)})
Sum(S, Value(_)) == SumFunction([r \in S |-> Value(r)])

\* "Splunk dashboards built against the aggregates never need to recompute them
\* from the detail rows" (block_parser.py:13-18): the block row's aggregates are
\* what the rows of its transactions, inputs and outputs add up to.
BlockAddsUp ==
  \A b \in blocks :
    LET txs == At(transactions, b.height)
        ins == At(inputs, b.height)
        outs == At(outputs, b.height)
    IN /\ b.total_vin_count = Cardinality(ins) /\ b.total_vout_count = Cardinality(outs)
       /\ b.regular_tx_count = Card(txs, LAMBDA t : ~t.is_coinbase)
       /\ b.coinbase_value_sats = Sum({o \in outs : o.is_coinbase}, LAMBDA o : o.value_sats)
       /\ b.regular_output_value_sats =
            Sum({o \in outs : ~o.is_coinbase}, LAMBDA o : o.value_sats)
       /\ b.rbf_tx_count = Card(txs, LAMBDA t : \E i \in Of(ins, t) : i.signals_rbf)
       /\ b.segwit_tx_count = Card(txs, LAMBDA t : \E i \in Of(ins, t) : i.witness_item_count > 0)
       /\ b.witness_data_bytes = Sum(ins, LAMBDA i : i.witness_data_bytes)
       /\ b.op_return_tx_count = Card(txs, LAMBDA t : \E o \in Of(outs, t) : o.is_op_return)
       /\ \A type \in SCRIPT_TYPES :
            /\ b.vin_type[type] = Card(ins, LAMBDA i : i.prevout_type = type)
            /\ b.vout_type[type] = Card(outs, LAMBDA o : o.script_type = type)

\* The output row an input row spends, however many blocks before.
Spent(i) == CHOOSE o \in outputs : o.txid = i.prevout_txid /\ o.output_index = i.prevout_vout

\* An input row joins the one output row it spends, and what the node told of
\* it agrees: value, type, address, and the age in blocks
\* (docs/04-rpc-parser-und-mining-pools.md:419-425).
InputsJoinOutputs ==
  \A i \in inputs : ~i.is_coinbase =>
    /\ \E o \in outputs : o.txid = i.prevout_txid /\ o.output_index = i.prevout_vout
    /\ LET o == Spent(i) IN
       /\ i.value_sats \in {o.value_sats, None}
       /\ i.prevout_type \in {o.script_type, None} /\ i.prevout_address \in {o.address, None}
       /\ i.prevout_generated \in {o.is_coinbase, None}
       /\ i.input_age_blocks \in {i.block_height - o.block_height, None}

\* A fee that is exported is the true one, whether the node reported it or it
\* was derived, and where all are known no block pays its miner more than
\* subsidy and fees (docs/04-rpc-parser-und-mining-pools.md:376).
FeesAreTrue ==
  /\ \A t \in transactions : t.fee_sats # None /\ ~t.is_coinbase =>
       t.fee_sats = Sum(Of(inputs, t), LAMBDA i : Spent(i).value_sats) - t.output_value_sats
  /\ \A b \in blocks : b.fee_unknown_tx_count = 0 =>
       b.coinbase_value_sats <= b.block_subsidy_sats + b.total_fees_sats

\* A tag in the coinbase is "essentially unambiguous", an address "only used as a
\* fallback when no tag matches" (mining_pools.py:8-19): the pool of a block is
\* the one its own coinbase rows point to in the dataset in force when it was
\* parsed.  Contrary to mining_pools.py:59-60 ("any pool tag substring ... still
\* comes through fine") that holds of ASCII tags only: another one is not found
\* where it is stamped as UTF-8, only where its Latin-1 bytes happen to occur.
PoolFromCoinbase ==
  \A b \in blocks :
    LET script == UNION {i.coinbase_hex : i \in {r \in At(inputs, b.height) : r.is_coinbase}}
        paid == {o.address : o \in {r \in At(outputs, b.height) : r.is_coinbase}}
        dataset == pools[b.height]
        known == IF dataset = None THEN {} ELSE ToSet(dataset)
        stamped == {p \in known : \E tag \in p.tags \intersect Ascii : Utf8[tag] \in script}
        misread == {p \in known : \E tag \in p.tags \ Ascii :
                      Latin1[tag] # None /\ Latin1[tag] \in script}
        marked == stamped \union misread
        payees == {p \in known : p.addresses \intersect paid # {}}
    IN CASE marked # {} -> b.pool_match_method = "tag" /\ b.pool_id \in {p.id : p \in marked}
         [] marked = {} /\ payees # {} ->
              b.pool_match_method = "address" /\ b.pool_id \in {p.id : p \in payees}
         [] OTHER -> b.pool_match_method = "unknown" /\ b.pool_id = None

=============================================================================
