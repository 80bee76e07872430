------------------------ MODULE InstrumentResolver ------------------------
(***************************************************************************)
(* The contract a loaded strategy trades: crates/instrument_resolver, as   *)
(* compile_loaded_strategy calls it with the built-in chains.              *)
(*                                                                         *)
(* A strategy names a market; the market has a chain of contracts, one per *)
(* month, each with the date it is rolled over; the front month is the     *)
(* earliest contract that is not.  Dates are numbers in their own order,   *)
(* months likewise; names are without case, blanks, "_" and "-".           *)
(***************************************************************************)
EXTENDS Integers, FiniteSets

\* Dates and contract months (chrono::NaiveDate, ContractMonth).
Date(year, month, day) == 372 * year + 31 * (month - 1) + day
ContractMonth == [year : Nat, month : 1..12]
Order(contract) == 12 * contract.year + contract.month
Earlier(a, b) == Order(a) < Order(b)

\* A contract with the dates its provider knows; each set is empty or of one date.
ContractListing ==
  [month : ContractMonth, first_notice_date : SUBSET Int, last_trade_date : SUBSET Int]

-----------------------------------------------------------------------------
Quarterly == {3, 6, 9, 12}

\* SUPPORTED_MARKETS with the chains of with_reference_date.
Market(names, root, cycle, rollover_day) ==
  [names |-> names, symbol_root |-> root, cycle_months |-> cycle, rollover_day |-> rollover_day]

SupportedMarkets ==
  {Market({"gold", "gc"}, "GC", {2, 4, 6, 8, 10, 12}, 28),
   Market({"silver", "si"}, "SI", {3, 5, 7, 9, 12}, 26),
   Market({"microsilver", "sil"}, "SIL", {3, 5, 7, 9, 12}, 26),
   Market({"crudeoil", "cl", "crude", "oil"}, "CL", 1..12, 20),
   Market({"es", "sp500", "s&p500"}, "ES", Quarterly, 15),
   Market({"nq", "nasdaq", "nasdaq100"}, "NQ", Quarterly, 15),
   Market({"ym", "dow"}, "YM", Quarterly, 15),
   Market({"rty", "russell", "russell2000"}, "RTY", Quarterly, 15)}

\* lookup_market_definition
MarketsNamed(name) == {market \in SupportedMarkets : name \in market.names}

\* previous_month_date
RolloverDate(contract, day) ==
  IF contract.month = 1 THEN Date(contract.year - 1, 12, day)
                        ELSE Date(contract.year, contract.month - 1, day)

\* build_contract_chain
YearsAhead == 2
BuiltinListing(market, contract) ==
  [month |-> contract, first_notice_date |-> {RolloverDate(contract, market.rollover_day)},
   last_trade_date |-> {}]
BuiltinChain(market, start_year) ==
  {BuiltinListing(market, [year |-> year, month |-> month]) :
     year \in start_year..(start_year + YearsAhead), month \in market.cycle_months}

\* format_contract_symbol, format_databento_raw_symbol; a letter stands for the month.
TradovateSymbol(root, contract) == <<root, contract.month, contract.year>>
DatabentoSymbol(root, contract) == <<root, contract.month, contract.year % 10>>

-----------------------------------------------------------------------------
\* validate_chain of what a provider gives, which may be anything.
ValidChain(chain) ==
  \A listing \in chain :
    /\ listing.month.month \in 1..12
    /\ \A other \in chain : other.month = listing.month => other = listing

\* ContractListing::rollover_cutoff
RolloverCutoff(listing) ==
  IF listing.first_notice_date # {} THEN listing.first_notice_date ELSE listing.last_trade_date
Basis(listing) ==
  IF listing.first_notice_date # {} THEN "FirstNoticeDate"
  ELSE IF listing.last_trade_date # {} THEN "LastTradeDate" ELSE "ChainOrder"

\* select_front_month
IsActive(listing, as_of) == \A cutoff \in RolloverCutoff(listing) : as_of < cutoff
Active(chain, as_of) == {listing \in chain : IsActive(listing, as_of)}
FrontMonth(chain, as_of) ==
  CHOOSE listing \in Active(chain, as_of) :
    \A other \in Active(chain, as_of) : ~Earlier(other.month, listing.month)

\* resolve_market, resolve_front_month: the mapping or why there is none.
Resolution(name, chain, as_of) ==
  IF MarketsNamed(name) = {} THEN [error |-> "UnsupportedMarket"]
  ELSE IF chain = {} THEN [error |-> "EmptyContractChain"]
  ELSE IF ~ValidChain(chain) THEN [error |-> "InvalidContractChain"]
  ELSE IF Active(chain, as_of) = {} THEN [error |-> "NoActiveContract"]
  ELSE LET market == CHOOSE m \in MarketsNamed(name) : TRUE
           selected == FrontMonth(chain, as_of)
       IN [error |-> "none", contract |-> selected.month, basis |-> Basis(selected),
           databento_symbol |-> DatabentoSymbol(market.symbol_root, selected.month),
           tradovate_symbol |-> TradovateSymbol(market.symbol_root, selected.month)]

\* compile_loaded_strategy: the chains are built for the year of one reading of the
\* clock, the contract is chosen by another.
LoadedMapping(name, year, as_of) ==
  Resolution(name, UNION {BuiltinChain(market, year) : market \in MarketsNamed(name)}, as_of)
=============================================================================
