CONSTANTS
    Urls = {1, 2, 3, 4}
    Certs = {"e3", "other", "httpsFirst", "multi"}
    DpsOf <- MCDpsOf
    MaxLen = 3
    Absent = Absent
    Corrupt = Corrupt
SPECIFICATION Spec
INVARIANT AccumulateCoversHttp
