---------------------------- MODULE MCTradingHub ----------------------------
(***************************************************************************)
(* The instances of TradingHub that TLC checks.                            *)
(***************************************************************************)
EXTENDS TradingHub, TLC

MCTransports == << "webSockets", "serverSentEvents", "longPolling" >>
MCTwoTransports == << "webSockets", "longPolling" >>

\* The tasks that push balances are interchangeable.
MCSymmetry == Permutations(Pushes)

=============================================================================
