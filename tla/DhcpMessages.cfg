\* Replies, relayed requests, the helper's pipe and the packet dump.
CONSTANTS
    None = None
    MinOptions = 8
SPECIFICATION Spec
INVARIANTS   EthersRerun StreamsReadBack
CHECK_DEADLOCK FALSE
