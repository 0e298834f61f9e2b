CONSTANTS
    Request = {r1, r2}
    FileName = {photo}
    None = None
    Torn = Torn
SPECIFICATION Spec
INVARIANT ReadsOwnUpload
