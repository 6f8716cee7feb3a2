CONSTANTS
    Evm = Evm  Icon = Icon  Wasm = Wasm
    None = None
    Payloads = {p1}
    Sns = {1, 5}
    ReqIDs = {2, 6}
    Width = 3
    Heights = {1}
    MaxInputs = 2
SPECIFICATION Spec
INVARIANTS Routed Regenerated EstimatedIsSent ReceiptAsked RequestHonoured
CHECK_DEADLOCK FALSE
