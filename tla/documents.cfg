\* Two abstracts, two documents, and a few clicks on each page; three uploads
\* to one abstract in the stores.
CONSTANTS
    Paper = {p1, p2}
    Doc = {d1, d2}
    MaxClicks = 2
    UploadFile = {f1, f2}
    MaxUploads = 4
    MaxEdits = 3
    m1 = m1
    k1 = k1
    k2 = k2
    k3 = k3
    Manuscript = {m1}
    Upload = {k1, k2, k3}
    ManuscriptOf <- TheManuscriptOf
SYMMETRY DocumentsSymmetry
SPECIFICATION DocumentsSpec
CHECK_DEADLOCK FALSE
INVARIANTS
    OfferedIsGranted
    FilingSettles
    UploadsAreRecorded
    FormAnswers
    StoresAgree
    SubmittedHasDocument
