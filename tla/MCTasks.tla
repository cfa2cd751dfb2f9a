------------------------------- MODULE MCTasks -------------------------------
(***************************************************************************)
(* One agent of each kind.  The prices break out, fall back to the middle   *)
(* and through the stop; the rate tables tempt the task to another chain,   *)
(* hold two rates of one protocol, or are empty; the adjustments move the   *)
(* intervals, the quota and the cap, are out of range, or hold a value of a *)
(* wrong type beside good ones.                                             *)
(* Backtests: every list of up to three rows, unsorted, with equal times or *)
(* rows before the start; and longer ones with a gain, a crash and a        *)
(* recovery.                                                                *)
(***************************************************************************)
EXTENDS Backtest

Rate(p, c, apy) == [protocol |-> p, chain |-> c, apy |-> apy]

MCRateTables ==
    {<<>>,
     <<Rate("kamino", "solana", 400), Rate("aave", "base", 300)>>,
     <<Rate("aave", "base", 700), Rate("kamino", "solana", 500)>>,
     <<Rate("kamino", "solana", 600), Rate("kamino", "solana", 450)>>}

MCLendings ==
    {[hf |-> 900, collateral |-> 100, bonus |-> 500],
     [hf |-> 1100, collateral |-> 100, bonus |-> 500],
     [hf |-> 900, collateral |-> 90, bonus |-> 500]}

MCAdjustments ==
    {[interval |-> 2], [interval |-> 0, maxDaily |-> 1],
     [maxDaily |-> 2, cap |-> 500, hf |-> 1200],
     [entry |-> Bad, interval |-> 9, bridge |-> Bad],
     [pull |-> 1, threshold |-> Bad], [pull |-> 1, width |-> 3]}

MCRawConfigs ==
    [momentum |->
        {[named |-> 1, entry |-> 200, exit |-> 100, interval |-> 0, maxPos |-> 500,
          stop |-> 200, maxDaily |-> 1, volume |-> 0, minCapital |-> 390],
         [named |-> 1, entry |-> 900, exit |-> 100, interval |-> 1, maxPos |-> 500,
          stop |-> 200, maxDaily |-> 1, volume |-> 0, minCapital |-> 390]},
     liquidity_provision |->
        {[named |-> 1, width |-> 0, threshold |-> 500, interval |-> 1, minCapital |-> 10],
         [named |-> 0, width |-> 0, threshold |-> 500, interval |-> 1, minCapital |-> 10]},
     cross_chain_yield |->
        {[named |-> 1, minDiff |-> 0, cap |-> 0, rebalance |-> 1, bridge |-> 5,
          interval |-> 1, minCapital |-> 396]},
     liquidation_hunting |->
        {[named |-> 1, minProfit |-> 0, hf |-> 0, maxDaily |-> 2, interval |-> 0,
          maxSize |-> 100, minCapital |-> 10],
         [named |-> 1, minProfit |-> 0, hf |-> 0, maxDaily |-> 2, interval |-> 0,
          maxSize |-> -1, minCapital |-> 10]}]

MCCandidates ==
    {[named |-> 1, entry |-> 200, exit |-> 10, interval |-> 1, maxPos |-> m,
      stop |-> 200, maxDaily |-> 2, volume |-> 0, minCapital |-> 10] : m \in {500, 1000}}
    \cup {[named |-> 1, entry |-> 200, exit |-> 10, interval |-> 2, maxPos |-> 500,
           stop |-> 200, maxDaily |-> 2, volume |-> 0, minCapital |-> 10]}

Row(at, price) == [at |-> at, price |-> price]

Rows == [at : -1 .. 2, price : {3, 6}]

ShortTapes ==
    {<<>>} \cup {<<r>> : r \in Rows} \cup {<<r, s>> : r, s \in Rows}
    \cup {<<r, s, u>> : r, s, u \in Rows}

Tape(prices) == [i \in DOMAIN prices |-> Row(i - 1, prices[i])]

MCPriceRows ==
    ShortTapes \cup
    {Tape(<<3, 4, 9, 6>>), Tape(<<3, 4, 3, 3, 4, 9, 6>>), Tape(<<3, 4, 3, 3, 6>>),
     Tape(<<4, 5, 10, 7, 7, 9, 3, 3, 4, 12, 16, 11, 11>>)}

=============================================================================
