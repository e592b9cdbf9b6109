---------------------------- MODULE MCDhcpClient ----------------------------
(***************************************************************************)
(* The DHCP client for TLC: one server and one timer, over two checks;     *)
(* two timers; and two servers, one of which names itself in no reply.     *)
(***************************************************************************)
EXTENDS DhcpClient

CONSTANTS t1, t2, s1, s2

TwoChecks  == [tickers |-> {t1}, servers |-> {s1}, runs |-> 3, xids |-> 3, checks |-> 2]
TwoTickers == [tickers |-> {t1, t2}, servers |-> {s1}, runs |-> 2, xids |-> 2, checks |-> 1]
TwoServers == [tickers |-> {t1}, servers |-> {s1, s2}, runs |-> 1, xids |-> 2, checks |-> 1]

ChecksTickersServers == {TwoChecks, TwoTickers, TwoServers}
=============================================================================
