-------------------------- MODULE MCTelnetSession --------------------------
(* TelnetSession for TLC: the options of clientFactory.cc:28 and one more. *)
EXTENDS TelnetSession

MCBytes ==
    Negotiations \cup {"IAC", "SB", "SE", "NOP", "ECHO", "LINEMODE", "ENVIRON",
                      "COMPRESS", "a"}

MCSupported == {<<"us", "ECHO">>, <<"him", "LINEMODE">>}

\* Text that looks like commands; subnegotiations that fit, that are two
\* bytes too long, and that another command interrupts.
MCInputs == {
    Typed(<<"SE", "IAC">>),
    Sub("ENVIRON", <<"IAC">>, "SE"),
    Sub("LINEMODE", <<"a", "WILL", "IAC">>, "SE"),
    Sub("LINEMODE", <<>>, "NOP")}

\* For telnet_mccp.cfg.
MCOldInputs == {OldCompress}

MCOutputs == {<<"IAC", "WILL">>}
=============================================================================
