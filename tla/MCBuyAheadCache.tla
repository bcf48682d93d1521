-------------------------- MODULE MCBuyAheadCache --------------------------
(***************************************************************************)
(* Sessions for the model checker.  "other" before a download stands for   *)
(* the GetFirst that selects it.                                           *)
(***************************************************************************)
EXTENDS BuyAheadCache

ShortDownload == <<"reserve", "next", "next", "next">>
Download == <<"reserve", "other", "next", "next", "next", "next", "free">>
TwoDownloads == <<"reserve", "other", "next", "next", "next", "other", "next", "next">>
TwoSessions == <<"reserve", "other", "next", "next", "free", "reserve", "other", "next", "next">>

ShortSessions == {ShortDownload}
Downloads == {Download, TwoSessions}
AllSessions == {Download, ShortDownload, TwoDownloads, TwoSessions}
=============================================================================
