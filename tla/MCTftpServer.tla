---------------------------- MODULE MCTftpServer ----------------------------
(***************************************************************************)
(* Small TFTP servers for TLC.  Block numbers wrap at Word, so the last    *)
(* blocks of the long file are past the wrap; times are in units of the    *)
(* default timeout.                                                        *)
(***************************************************************************)
EXTENDS TftpServer

Req(op, mode, name, options) ==
    [op |-> op, mode |-> mode, name |-> name, absolute |-> FALSE, allowed |-> TRUE, options |-> options]

Opt(key, val) == [key |-> key, val |-> val]

Long == [i \in 1..13 |-> "x"]
Lines == <<"x", LF, LF, "x">>

MCDisk == [p \in {<<"root", "long">>, <<"root", "c2", "text">>, <<"root", "text">>, <<"root", "secret">>} |->
             IF p[Len(p)] = "long" THEN Long ELSE IF Len(p) = 3 THEN <<LF, LF, "x">> ELSE Lines]
MCDenied == {<<"root", "secret">>}
MCRoot == <<"root">>
MCDirs == {<<"root">>, <<"root", "c2">>}

Alone(c, reqs) == [d \in Clients |-> IF d = c THEN reqs ELSE {}]

Load(single, asks, reqs) == [single_port |-> single, asks |-> asks, reqs |-> reqs]

LongRequest == Req("rrq", "octet", <<"long">>, <<Opt("blksize", 1), Opt("windowsize", 9)>>)
SameFile == [Req("rrq", "octet", <<"root", "text">>, <<>>) EXCEPT !.absolute = TRUE]

\* A long transfer that wraps the block counter; text in both encodings and
\* requests that come to nothing; two transfers of one open file.
MCLoads ==
    {Load(FALSE, 1, Alone("c1", {LongRequest})),
     Load(FALSE, 2, Alone("c2", {Req("rrq", "netascii", <<"text">>, <<Opt("blksize", 3), Opt("windowsize", 2)>>),
                                Req("rrq", "netascii", <<"text">>, <<>>),
                                Req("rrq", "octet", <<"text">>, <<Opt("timeout", -1)>>),
                                Req("rrq", "mail", <<"text">>, <<>>),
                                Req("wrq", "octet", <<"text">>, <<>>),
                                Req("rrq", "octet", <<"secret">>, <<>>),
                                [SameFile EXCEPT !.allowed = FALSE]})),
     Load(TRUE, 2, Alone("c1", {Req("rrq", "netascii", <<"text">>, <<>>)})),
     Load(FALSE, 1, [c \in Clients |-> {SameFile}]),
     Load(TRUE, 1, [c \in Clients |-> {SameFile}])}

\* One-byte blocks, where a line feed's CR fills a block of its own.
MCOneByteBlocks == {Load(FALSE, 1, Alone("c1", {Req("rrq", "netascii", <<"text">>, <<Opt("blksize", 1)>>)}))}

=============================================================================
