SPECIFICATION LiveSpec
CONSTANTS
    pod1 = pod1
    pod2 = pod2
    Instance = {pod1, pod2}
    Nobody = Nobody
    LeaseDuration = 5
    RenewDeadline = 2
    RetryPeriod = 1
    StopTime = 1
    Cert = {1, 2, 3, 4, 5}
    NoCert = NoCert
    Empty = Empty
    Malformed = Malformed
    Configs <- AllConfigs
    Restarted = {pod2}
INVARIANTS RoutedServes OneOperator
PROPERTIES ValidCertificateKept WebhooksRecover
CHECK_DEADLOCK FALSE
