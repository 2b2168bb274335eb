------------------------------- MODULE MCMicsmc -------------------------------
EXTENDS Micsmc

TwoCards == {"mic0", "mic1"}

(* Both spellings of one option, one that is unknown, and one option of     *)
(* each kind of display.                                                     *)
MCSpelled ==
  {"--typo", "-a", "-c", "--cores", "-i", "-l", "-m", "--ecc", "--turbo", "--led", "--pthrottle",
   "--pwrenable", "--pwrstatus", "--timeout", "--verbose", "-h", "-v"}

MCArgLists ==
  { <<>>, <<"mic1">>, <<"typo", "mic0">>, <<"device", "mic0", "mic1">>, <<"enable">>,
    <<"enable", "mic0">>, <<"cpufreq", "mic0", "mic0">>, <<"pc3", "mic1", "pc6">>, <<"all", "typo">>,
    <<"number">>, <<"number", "number">>, <<"info", "c">> }
===============================================================================
