-------------------------- MODULE MCPipeline --------------------------
(***************************************************************************)
(* Two pipelines set up as by --decode and --pcap on one of three          *)
(* interfaces: the filter, the printing of what arrives, the learner, a    *)
(* file, and two routes that print and store what they transmit.           *)
(***************************************************************************)
EXTENDS Pipeline

MCRoutes == {"toB", "toC"}
MCDecoders == {"decodeIn", "decodeOut"}
MCProcessors ==
    [main |-> <<"filter", "decodeIn", "learner">>,
     toB |-> <<"decodeOut">>, toC |-> <<"decodeOut">>]
MCSinks ==
    [main |-> <<"fileIn", "toB", "toC">>,
     toB |-> <<"fileB", "transmitterB">>, toC |-> <<"fileC", "transmitterC">>]
=============================================================================
